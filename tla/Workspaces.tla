----------------------------- MODULE Workspaces -----------------------------
(***************************************************************************)
(* The workspaces of one organization: the use cases of                    *)
(* internal/service/workspace_writer.go over two kinds of documents, the   *)
(* organization's registry of workspaces and, for each workspace, the      *)
(* projects it holds.  Each document has a key of a NATS bucket and is     *)
(* replaced at the revision that was read; nothing ties the documents to   *)
(* each other.  The search index hears of a change after it was written.   *)
(*                                                                         *)
(* A request makes one call.  The identifiers it mints, which the code     *)
(* draws at random, are the request's own.  A read that fails, an If-Match *)
(* that does not match, an organization that does not exist and whatever   *)
(* else refuses a request before it changed anything are one outcome.      *)
(* Timestamps and authors are left out.                                    *)
(***************************************************************************)
EXTENDS Naturals

CONSTANTS
    Requests,
    Home,              \* a workspace that may exist from the start
    Names, Slugs,
    MaxWriteFaults     \* bound: calls that fail or time out, requests that die

VARIABLES
    registry,    \* the organization's document: its revision and workspaces
    holds,       \* each workspace's document: revision, presence, projects
    req,         \* each request: its call, where it stands, what it has read
    spaces,      \* the workspaces in the search index
    links,       \* the associations in the search index
    wfaults

docs  == <<registry, holds>>
index == <<spaces, links>>
wvars == <<docs, req, index, wfaults>>

Uids        == Requests \union {Home}
Workspace   == [uid : Uids, name : Names]
Association == [uid : Uids, slug : Slugs]
Link        == [ws : Uids, project : Association]

(* A call: the workspace (a new one's uid is its request) and its name,    *)
(* the slugs to add, the associations to remove.                           *)
Adding  == {"add", "bulk"}
Naming  == {"create", "rename"}
Showing == Adding \union Naming
Ops     == Showing \union {"delete", "remove"}
Calls   == [op : Ops, ws : Uids, name : Names \union {""},
            slugs : SUBSET Slugs, gone : SUBSET Association]
NoCall  == [op |-> "create", ws |-> Home, name |-> "", slugs |-> {}, gone |-> {}]

Steps == {"idle", "registry", "projects", "cascade", "write", "publish", "ended"}

(* A request that is not under way; space and link are what it still has   *)
(* to publish, to be shown or withdrawn as its operation says.             *)
Rest(s) == [at |-> s, call |-> NoCall,
            reg |-> [rev |-> 0, list |-> {}], doc |-> [rev |-> 0, list |-> {}],
            space |-> {}, link |-> {}]
Idle  == Rest("idle")
Done == Rest("ended")

(* FindWorkspace, FindWorkspaceByName (another one than u),                *)
(* WorkspaceProjectBySlug.                                                 *)
Registered(u, list)    == \E w \in list : w.uid = u
NamedApart(n, u, list) == \E w \in list : w.name = n /\ w.uid # u
Mentions(s, list)      == \E a \in list : a.slug = s

LinksOf(u, list) == {[ws |-> u, project |-> a] : a \in list}

Becomes(r, q) == req' = [req EXCEPT ![r] = q]
End(r)        == Becomes(r, Done)
Fault         == wfaults < MaxWriteFaults /\ wfaults' = wfaults + 1
NoFault       == UNCHANGED wfaults

----------------------------------------------------------------------------
(* A client makes its call; it names what it may have been shown.          *)
Ask(r, op, u, name, slugs, gone) ==
    /\ req[r].at = "idle"
    /\ Becomes(r, [Rest("registry") EXCEPT !.call =
           [op |-> op, ws |-> u, name |-> name, slugs |-> slugs, gone |-> gone]])
    /\ UNCHANGED <<docs, index, wfaults>>

CreateWorkspace(r) == \E n \in Names : Ask(r, "create", r, n, {}, {})
UpdateWorkspace(r) ==
    \E w \in registry.list, n \in Names : Ask(r, "rename", w.uid, n, {}, {})
DeleteWorkspace(r) ==
    \E w \in registry.list : Ask(r, "delete", w.uid, "", {}, {})
AddProject(r) ==
    \E w \in registry.list, s \in Slugs : Ask(r, "add", w.uid, "", {s}, {})
AddProjectsBulk(r) ==
    \E w \in registry.list, slugs \in SUBSET Slugs :
        Ask(r, "bulk", w.uid, "", slugs, {})
RemoveProject(r) ==
    \E w \in registry.list : \E a \in holds[w.uid].list :
        Ask(r, "remove", w.uid, "", {}, {a})

----------------------------------------------------------------------------
(* The checks of the registry: every call but create needs its workspace,  *)
(* and a name given is no other workspace's.                               *)
Permits(c, list) ==
    /\ c.op = "create" \/ Registered(c.ws, list)
    /\ c.op \in Naming => ~NamedApart(c.name, c.ws, list)

(* GetWorkspaces and its checks, or a refusal.                             *)
ReadRegistry(r) ==
    LET c == req[r].call
    IN  /\ req[r].at = "registry"
        /\ \/ End(r)
           \/ /\ Permits(c, registry.list)
              /\ Becomes(r, [req[r] EXCEPT
                    !.reg = registry,
                    !.at  = IF c.op \in Naming THEN "write" ELSE "projects"])
        /\ UNCHANGED <<docs, index, wfaults>>

(* The checks of the projects: something is new, or what goes is there.    *)
HasWork(c, list) ==
    \/ c.op \in Adding  /\ \E s \in c.slugs : ~Mentions(s, list)
    \/ c.op = "remove" /\ c.gone \subseteq list

(* getDocWithRevision: a document that is not there reads as revision 0.   *)
Copy(d) == [rev |-> IF d.live THEN d.rev ELSE 0, list |-> d.list]

(* GetWorkspaceProjects and its checks; nothing to do ends the request     *)
(* like a refusal.                                                         *)
ReadProjects(r) ==
    LET c == req[r].call
    IN  /\ req[r].at = "projects"
        /\ c.op # "delete"
        /\ \/ End(r)
           \/ /\ HasWork(c, holds[c.ws].list)
              /\ Becomes(r, [req[r] EXCEPT !.doc = Copy(holds[c.ws]), !.at = "write"])
        /\ UNCHANGED <<docs, index, wfaults>>

(* Mutant: nothing is noted.                                               *)
NoteNothing(r) ==
    /\ req[r].at = "projects"
    /\ req[r].call.op = "delete"
    /\ Becomes(r, [req[r] EXCEPT !.at = "cascade"])
    /\ UNCHANGED <<docs, index, wfaults>>

(* A deletion notes the projects whose index documents are to go, and goes *)
(* on without when that read fails.                                        *)
NoteProjects(r) ==
    LET u == req[r].call.ws
    IN  /\ req[r].at = "projects"
        /\ req[r].call.op = "delete"
        /\ \/ NoFault /\ Becomes(r, [req[r] EXCEPT
                                        !.link = LinksOf(u, holds[u].list), !.at = "cascade"])
           \/ Fault   /\ Becomes(r, [req[r] EXCEPT !.at = "cascade"])
        /\ UNCHANGED <<docs, index>>

(* Mutant: a failure is swallowed like the one of the read before.         *)
CascadeSwallows(r) ==
    LET u == req[r].call.ws
    IN  /\ req[r].at = "cascade"
        /\ \/ NoFault /\ holds' = [holds EXCEPT ![u] =
                            [rev |-> @.rev + 1, live |-> FALSE, list |-> {}]]
           \/ Fault /\ UNCHANGED holds
        /\ Becomes(r, [req[r] EXCEPT !.at = "write"])
        /\ UNCHANGED <<registry, index>>

(* DeleteWorkspaceProjects, whatever the document holds by now; a failure  *)
(* ends the request, and the call may have been applied all the same.      *)
Cascade(r) ==
    LET u     == req[r].call.ws
        gone  == [holds EXCEPT ![u] = [rev |-> @.rev + 1, live |-> FALSE, list |-> {}]]
    IN  /\ req[r].at = "cascade"
        /\ \/ NoFault /\ holds' = gone /\ Becomes(r, [req[r] EXCEPT !.at = "write"])
           \/ Fault   /\ holds' \in {holds, gone} /\ End(r)
        /\ UNCHANGED <<registry, index>>

----------------------------------------------------------------------------
(* The call applied to the copy of the registry.                           *)
NewRegistry(c, list) ==
    {w \in list : w.uid # c.ws}
      \union (IF c.op \in Naming THEN {[uid |-> c.ws, name |-> c.name]} ELSE {})

(* Mutant: a bulk call adds every slug it was given.                       *)
AddAll(r, c, list) == {[uid |-> r, slug |-> s] : s \in c.slugs}

(* workspaceProjectFromSlug for every slug that is not associated yet.     *)
Added(r, c, list) == {[uid |-> r, slug |-> s] : s \in {t \in c.slugs : ~Mentions(t, list)}}

(* Mutant: kv.Put.                                                         *)
PutDocument(seen, d) == TRUE

(* updateDocWithRevision: kv.Update at the revision read, or kv.Create     *)
(* when there was no document; a deleted one counts as none.               *)
AcceptsRegistry(seen) == registry.rev = seen.rev
AcceptsDocument(seen, d) == IF seen.rev = 0 THEN ~d.live ELSE d.rev = seen.rev

(* UpdateWorkspaces; a conflict ends the request.                          *)
WriteRegistry(r) ==
    LET q == req[r]  c == q.call
        new == [rev |-> registry.rev + 1, list |-> NewRegistry(c, q.reg.list)]
    IN  /\ q.at = "write"
        /\ c.op \in Naming \union {"delete"}
        /\ \/ /\ AcceptsRegistry(q.reg)
              /\ registry' = new
              /\ Becomes(r, [q EXCEPT !.at = "publish", !.space =
                    IF c.op = "delete" THEN {w \in q.reg.list : w.uid = c.ws}
                                       ELSE {[uid |-> c.ws, name |-> c.name]}])
              /\ NoFault
           \/ ~AcceptsRegistry(q.reg) /\ UNCHANGED registry /\ End(r) /\ NoFault
           \/ /\ Fault
              /\ registry' \in {registry} \union {d \in {new} : AcceptsRegistry(q.reg)}
              /\ End(r)
        /\ UNCHANGED <<holds, index>>

(* UpdateWorkspaceProjects; a conflict ends the request.                   *)
WriteProjects(r) ==
    LET q == req[r]  c == q.call  u == c.ws
        added == Added(r, c, q.doc.list)
        new   == [holds EXCEPT ![u] = [rev  |-> @.rev + 1, live |-> TRUE,
                                       list |-> (q.doc.list \ c.gone) \union added]]
    IN  /\ q.at = "write"
        /\ c.op \in Adding \union {"remove"}
        /\ \/ /\ AcceptsDocument(q.doc, holds[u])
              /\ holds' = new
              /\ Becomes(r, [q EXCEPT !.at = "publish",
                                      !.link = LinksOf(u, added \union c.gone)])
              /\ NoFault
           \/ ~AcceptsDocument(q.doc, holds[u]) /\ UNCHANGED holds /\ End(r) /\ NoFault
           \/ /\ Fault
              /\ holds' \in {holds} \union {d \in {new} : AcceptsDocument(q.doc, holds[u])}
              /\ End(r)
        /\ UNCHANGED <<registry, index>>

----------------------------------------------------------------------------
(* Publishing goes on until nothing is left, one message at a time.        *)
Published(r, q) ==
    Becomes(r, IF q.space = {} /\ q.link = {} THEN Done ELSE q)

(* PublishWorkspaceIndexer.                                                *)
PublishWorkspace(r) ==
    LET q == req[r]
    IN  /\ q.at = "publish"
        /\ \E w \in q.space :
            /\ spaces' = {x \in spaces : x.uid # w.uid}
                           \union (IF q.call.op \in Showing THEN {w} ELSE {})
            /\ Published(r, [q EXCEPT !.space = @ \ {w}])
        /\ UNCHANGED <<docs, links, wfaults>>

(* PublishWorkspaceProjectIndexer, after the workspace's own message.      *)
PublishProject(r) ==
    LET q == req[r]
    IN  /\ q.at = "publish"
        /\ q.space = {}
        /\ \E l \in q.link :
            /\ links' = (links \ {l}) \union (IF q.call.op \in Showing THEN {l} ELSE {})
            /\ Published(r, [q EXCEPT !.link = @ \ {l}])
        /\ UNCHANGED <<docs, spaces, wfaults>>

(* A message is lost.                                                      *)
PublishFails(r) ==
    LET q == req[r]
    IN  /\ q.at = "publish"
        /\ Fault
        /\ \/ \E w \in q.space : Published(r, [q EXCEPT !.space = @ \ {w}])
           \/ \E l \in q.link : q.space = {} /\ Published(r, [q EXCEPT !.link = @ \ {l}])
        /\ UNCHANGED <<docs, index>>

(* The pod dies, or the organization cannot be read before publishing.     *)
Abandon(r) ==
    /\ req[r].at \notin {"idle", "ended"}
    /\ Fault
    /\ End(r)
    /\ UNCHANGED <<docs, index>>

----------------------------------------------------------------------------
(* A bucket without documents, or a workspace with a project, indexed.     *)
Blank == [rev |-> 0, live |-> FALSE, list |-> {}]

WInit ==
    /\ req = [r \in Requests |-> Idle]
    /\ wfaults = 0
    /\ \/ /\ registry = [rev |-> 0, list |-> {}]
          /\ holds = [u \in Uids |-> Blank]
          /\ spaces = {} /\ links = {}
       \/ \E n \in Names, s \in Slugs :
          LET project == {[uid |-> Home, slug |-> s]}
          IN  /\ registry = [rev |-> 1, list |-> {[uid |-> Home, name |-> n]}]
              /\ holds = [u \in Uids |-> IF u = Home
                            THEN [rev |-> 1, live |-> TRUE, list |-> project] ELSE Blank]
              /\ spaces = registry.list
              /\ links = LinksOf(Home, project)

Use(r) ==
    \/ CreateWorkspace(r) \/ UpdateWorkspace(r) \/ DeleteWorkspace(r)
    \/ AddProject(r) \/ AddProjectsBulk(r) \/ RemoveProject(r)

Handle(r) ==
    \/ ReadRegistry(r) \/ ReadProjects(r) \/ NoteProjects(r) \/ Cascade(r)
    \/ WriteRegistry(r) \/ WriteProjects(r)
    \/ PublishWorkspace(r) \/ PublishProject(r) \/ PublishFails(r)

WNext == \E r \in Requests : Use(r) \/ Handle(r) \/ Abandon(r)

WSpec == WInit /\ [][WNext]_wvars

----------------------------------------------------------------------------
(* The shape of the state. *)
WTypeOK ==
    /\ registry \in [rev : Nat, list : SUBSET Workspace]
    /\ holds \in [Uids -> [rev : Nat, live : BOOLEAN, list : SUBSET Association]]
    /\ req \in [Requests -> [at : Steps, call : Calls,
                             reg : [rev : Nat, list : SUBSET Workspace],
                             doc : [rev : Nat, list : SUBSET Association],
                             space : SUBSET Workspace, link : SUBSET Link]]
    /\ spaces \subseteq Workspace
    /\ links \subseteq Link
    /\ wfaults \in Nat

(* workspace.go: a workspace's name is "unique within the org"; and a slug *)
(* is associated with a workspace once ("Slug is the per-workspace         *)
(* idempotency key for additions"), also when two requests add the same    *)
(* name or slug at the same time.                                          *)
Unique ==
    /\ \A v, w \in registry.list : v.name = w.name => v = w
    /\ \A u \in Uids : \A a, b \in holds[u].list : a.slug = b.slug => a = b

(* The effect of one call on the registry as it is.                        *)
RegistryStep(c) ==
    /\ Permits(c, registry.list)
    /\ registry'.list = NewRegistry(c, registry.list)

(* ... and of request r's call on the projects of its workspace.           *)
ProjectsStep(r, c) ==
    \/ /\ c.op \in Adding
       /\ holds'[c.ws].list = holds[c.ws].list \union Added(r, c, holds[c.ws].list)
    \/ /\ c.op = "remove"
       /\ c.gone \subseteq holds[c.ws].list
       /\ holds'[c.ws].list = holds[c.ws].list \ c.gone
    \/ c.op = "delete" /\ holds'[c.ws].list = {}

(* No update is lost: a list changes only by one whole call, applied to    *)
(* the list as it was, its checks included, whatever the other requests    *)
(* have written since it was read.                                         *)
WholeCall ==
    /\ registry'.list # registry.list =>
         \E r \in Requests : RegistryStep(req[r].call)
    /\ \A u \in Uids : holds'[u].list # holds[u].list =>
         \E r \in Requests : req[r].call.ws = u /\ ProjectsStep(r, req[r].call)
WholeCalls == [][WholeCall]_wvars

(* The cascade: a workspace that is not registered holds no projects.      *)
Cascaded == \A u \in Uids : holds[u].live => Registered(u, registry.list)

(* When no request is under way, and none failed, the index shows the      *)
(* workspaces and associations that are stored.                            *)
Indexed ==
    (wfaults = 0 /\ \A r \in Requests : req[r].at \in {"idle", "ended"}) =>
        /\ spaces = registry.list
        /\ links = UNION {LinksOf(u, holds[u].list) : u \in Uids}
=============================================================================
