--------------------------- MODULE Buckets_proofs ---------------------------
(***************************************************************************)
(* Proofs about four components that keep their state in buckets of the    *)
(* service and share nothing else: the workspaces of an organization, an   *)
(* entry of the read cache, the lock of a full reindex, and the record of  *)
(* an organization with its logo.                                          *)
(***************************************************************************)
EXTENDS MCBuckets, FiniteSetTheorems, TLAPS

(***************************************************************************)
(* The workspaces of an organization, for any number of requests, names    *)
(* and slugs and however many calls fail: type correctness, that names and *)
(* slugs stay unique, and that a document changes only by one whole call.  *)
(*                                                                         *)
(* What carries both is that a request which holds a copy of a document at *)
(* the document's revision holds the document itself, and that its checks  *)
(* were made on that copy.  A deleted document needs care: it counts as    *)
(* revision 0, which is also the revision of one never written.            *)
(***************************************************************************)
Requested == [at : Steps, call : Calls,
            reg : [rev : Nat, list : SUBSET Workspace],
            doc : [rev : Nat, list : SUBSET Association],
            space : SUBSET Workspace, link : SUBSET Link]
Registry == [rev : Nat, list : SUBSET Workspace]
Document == [rev : Nat, live : BOOLEAN, list : SUBSET Association]

(* What a call that is under way asks for.                                 *)
WellAsked(c) ==
    /\ c.op \in Naming => c.name \in Names
    /\ c.op \in Adding => c.gone = {}
    /\ c.op = "remove" => c.slugs = {}

AllWellAsked ==
    \A r \in Requests : req[r].at \notin {"idle", "ended"} => WellAsked(req[r].call)

CascadeDeletes == \A r \in Requests : req[r].at = "cascade" => req[r].call.op = "delete"

(* A copy of the registry at its revision is the registry, and the call's  *)
(* checks passed on the copy.                                              *)
HasRegistry(q) == q.at \in {"projects", "cascade", "write"}
RegistryCopy(q, reg) ==
    /\ q.reg.rev <= reg.rev
    /\ q.reg.rev = reg.rev => q.reg.list = reg.list
    /\ Permits(q.call, q.reg.list)
RegistryCopies ==
    \A r \in Requests : HasRegistry(req[r]) => RegistryCopy(req[r], registry)

(* The same for the projects of a workspace.                               *)
HasProjects(q) == q.at = "write" /\ q.call.op \in Adding \union {"remove"}
ProjectsCopy(q, d) ==
    /\ q.doc.rev <= d.rev
    /\ q.doc.rev # 0 /\ q.doc.rev = d.rev => q.doc.list = d.list
    /\ q.doc.rev = 0 => q.doc.list = {}
    /\ q.call.op = "remove" => q.call.gone \subseteq q.doc.list
ProjectsCopies ==
    \A r \in Requests : HasProjects(req[r]) => ProjectsCopy(req[r], holds[req[r].call.ws])

(* A document that is not there is empty, and one that is was written.     *)
DocumentsSane ==
    \A u \in Uids : IF holds[u].live THEN holds[u].rev # 0 ELSE holds[u].list = {}

----------------------------------------------------------------------------
(* Shapes.                                                                 *)
LEMMA TypedParts ==
    WTypeOK <=> /\ registry \in Registry
                /\ holds \in [Uids -> Document]
                /\ req \in [Requests -> Requested]
                /\ spaces \subseteq Workspace
                /\ links \subseteq Link
                /\ wfaults \in Nat
BY DEF WTypeOK, Registry, Document, Requested

LEMMA NoCallTyped == NoCall \in Calls
BY DEF NoCall, Calls, Ops, Showing, Adding, Naming, Uids

LEMMA RestTyped == ASSUME NEW s \in Steps PROVE Rest(s) \in Requested
<1>1. {} \in SUBSET Workspace /\ {} \in SUBSET Association /\ {} \in SUBSET Link
  OBVIOUS
<1> QED
  BY <1>1, NoCallTyped DEF Rest, Requested

LEMMA BecomesTyped ==
    ASSUME req \in [Requests -> Requested], NEW r \in Requests, NEW q \in Requested,
           Becomes(r, q)
    PROVE  req' \in [Requests -> Requested]
BY DEF Becomes

LEMMA EndTyped ==
    ASSUME req \in [Requests -> Requested], NEW r \in Requests, End(r)
    PROVE  req' \in [Requests -> Requested]
<1>1. Done \in Requested
  BY RestTyped DEF Done, Steps
<1> QED
  BY <1>1, BecomesTyped DEF End

LEMMA FaultTyped ==
    ASSUME wfaults \in Nat, Fault \/ NoFault
    PROVE  wfaults' \in Nat
BY DEF Fault, NoFault

----------------------------------------------------------------------------
(* The requests' shape and what their calls ask for, together.             *)
Asked == req \in [Requests -> Requested] /\ AllWellAsked /\ CascadeDeletes

LEMMA GoesOn ==
    ASSUME Asked, NEW r \in Requests, NEW q \in Requested, Becomes(r, q),
           req[r].at \notin {"idle", "ended"}, q.call = req[r].call,
           q.at = "cascade" => q.call.op = "delete"
    PROVE  Asked'
<1>1. req' \in [Requests -> Requested] /\ \A p \in Requests : req'[p] = IF p = r THEN q ELSE req[p]
  BY BecomesTyped DEF Becomes, Asked
<1> QED
  BY <1>1 DEF Asked, AllWellAsked, CascadeDeletes

LEMMA Ends ==
    ASSUME Asked, NEW r \in Requests, End(r)
    PROVE  Asked' /\ req'[r].at = "ended"
<1>1. req' \in [Requests -> Requested] /\ \A p \in Requests : req'[p] = IF p = r THEN Done ELSE req[p]
  BY EndTyped DEF End, Becomes, Asked
<1>2. Done.at = "ended"
  BY DEF Done, Rest
<1> QED
  BY <1>1, <1>2 DEF Asked, AllWellAsked, CascadeDeletes

LEMMA AskTyped ==
    ASSUME Asked, NEW r \in Requests, NEW c \in Calls, WellAsked(c),
           Becomes(r, [Rest("registry") EXCEPT !.call = c])
    PROVE  Asked'
<1> DEFINE q == [Rest("registry") EXCEPT !.call = c]
<1>1. q \in Requested /\ q.call = c /\ q.at = "registry"
  BY RestTyped DEF Rest, Requested, Steps
<1>2. req' \in [Requests -> Requested] /\ \A p \in Requests : req'[p] = IF p = r THEN q ELSE req[p]
  BY <1>1, BecomesTyped DEF Becomes, Asked
<1> HIDE DEF q
<1> QED
  BY <1>1, <1>2 DEF Asked, AllWellAsked, CascadeDeletes

LEMMA UseAsks ==
    ASSUME WTypeOK, NEW r \in Requests, Use(r)
    PROVE  /\ req[r].at = "idle" /\ UNCHANGED <<docs, index, wfaults>>
           /\ \E c \in Calls : /\ WellAsked(c)
                              /\ Becomes(r, [Rest("registry") EXCEPT !.call = c])
<1> USE DEF Calls, Ops, Showing, Adding, Naming
<1>0. \A w \in registry.list : w.uid \in Uids
  BY TypedParts DEF Registry, Workspace
<1>1. CASE CreateWorkspace(r)
  <2>1. PICK n \in Names : Ask(r, "create", r, n, {}, {})
    BY <1>1 DEF CreateWorkspace
  <2>2. [op |-> "create", ws |-> r, name |-> n, slugs |-> {}, gone |-> {}] \in Calls
    BY DEF Uids
  <2> QED
    BY <2>1, <2>2 DEF Ask, WellAsked
<1>2. CASE UpdateWorkspace(r)
  <2>1. PICK w \in registry.list, n \in Names : Ask(r, "rename", w.uid, n, {}, {})
    BY <1>2 DEF UpdateWorkspace
  <2>2. [op |-> "rename", ws |-> w.uid, name |-> n, slugs |-> {}, gone |-> {}] \in Calls
    BY <1>0
  <2> QED
    BY <2>1, <2>2 DEF Ask, WellAsked
<1>3. CASE DeleteWorkspace(r)
  <2>1. PICK w \in registry.list : Ask(r, "delete", w.uid, "", {}, {})
    BY <1>3 DEF DeleteWorkspace
  <2>2. [op |-> "delete", ws |-> w.uid, name |-> "", slugs |-> {}, gone |-> {}] \in Calls
    BY <1>0
  <2> QED
    BY <2>1, <2>2 DEF Ask, WellAsked
<1>4. CASE AddProject(r)
  <2>1. PICK w \in registry.list, s \in Slugs : Ask(r, "add", w.uid, "", {s}, {})
    BY <1>4 DEF AddProject
  <2>2. [op |-> "add", ws |-> w.uid, name |-> "", slugs |-> {s}, gone |-> {}] \in Calls
    BY <1>0
  <2> QED
    BY <2>1, <2>2 DEF Ask, WellAsked
<1>5. CASE AddProjectsBulk(r)
  <2>1. PICK w \in registry.list, slugs \in SUBSET Slugs : Ask(r, "bulk", w.uid, "", slugs, {})
    BY <1>5 DEF AddProjectsBulk
  <2>2. [op |-> "bulk", ws |-> w.uid, name |-> "", slugs |-> slugs, gone |-> {}] \in Calls
    BY <1>0
  <2> QED
    BY <2>1, <2>2 DEF Ask, WellAsked
<1>6. CASE RemoveProject(r)
  <2>1. PICK w \in registry.list : \E a \in holds[w.uid].list : Ask(r, "remove", w.uid, "", {}, {a})
    BY <1>6 DEF RemoveProject
  <2>2. PICK a \in holds[w.uid].list : Ask(r, "remove", w.uid, "", {}, {a})
    BY <2>1
  <2>3. w.uid \in Uids /\ a \in Association
    BY <1>0, TypedParts DEF Document
  <2>4. [op |-> "remove", ws |-> w.uid, name |-> "", slugs |-> {}, gone |-> {a}] \in Calls
    BY <2>3
  <2> QED
    BY <2>2, <2>4 DEF Ask, WellAsked
<1> QED
  BY <1>1, <1>2, <1>3, <1>4, <1>5, <1>6 DEF Use

----------------------------------------------------------------------------
(* The inductive invariant, and what a step does to it: a document's next  *)
(* revision leaves every copy behind, and the request that moves brings    *)
(* what it needs.                                                          *)
WorkspacesInv == WTypeOK /\ Asked /\ RegistryCopies /\ ProjectsCopies /\ DocumentsSane

LEMMA RegistryCopyKept ==
    ASSUME NEW old \in Registry, NEW new \in Registry, NEW q \in Requested,
           new = old \/ new.rev = old.rev + 1, RegistryCopy(q, old)
    PROVE  RegistryCopy(q, new)
<1>1. q.reg.rev \in Nat /\ old.rev \in Nat
  BY DEF Requested, Registry
<1> QED
  BY <1>1 DEF RegistryCopy

LEMMA ProjectsCopyKept ==
    ASSUME NEW old \in Document, NEW new \in Document, NEW q \in Requested,
           new = old \/ new.rev = old.rev + 1, ProjectsCopy(q, old)
    PROVE  ProjectsCopy(q, new)
<1>1. q.doc.rev \in Nat /\ old.rev \in Nat
  BY DEF Requested, Document
<1> QED
  BY <1>1 DEF ProjectsCopy

(* What a step may do to the documents.                                    *)
DocsMove(new, newHolds) ==
    /\ new \in Registry
    /\ new = registry \/ new.rev = registry.rev + 1
    /\ newHolds \in [Uids -> Document]
    /\ \A u \in Uids : newHolds[u] = holds[u] \/ newHolds[u].rev = holds[u].rev + 1

LEMMA CopiesKept ==
    ASSUME WorkspacesInv, NEW r \in Requests, NEW q \in Requested, Becomes(r, q),
           DocsMove(registry', holds'),
           HasRegistry(q) => RegistryCopy(q, registry'),
           HasProjects(q) => ProjectsCopy(q, holds'[q.call.ws])
    PROVE  RegistryCopies' /\ ProjectsCopies'
<1>1. \A p \in Requests : /\ req[p] \in Requested
                          /\ req'[p] = IF p = r THEN q ELSE req[p]
                          /\ req[p].call.ws \in Uids
  BY TypedParts DEF WorkspacesInv, Becomes, Requested, Calls
<1>2. registry \in Registry /\ holds \in [Uids -> Document]
  BY TypedParts DEF WorkspacesInv
<1>3. ASSUME NEW p \in Requests, HasRegistry(req'[p]) PROVE RegistryCopy(req'[p], registry')
  <2>1. CASE p = r
    BY <1>1, <1>3, <2>1
  <2>2. CASE p # r
    <3>1. RegistryCopy(req[p], registry)
      BY <1>1, <1>3, <2>2 DEF WorkspacesInv, RegistryCopies
    <3> QED
      BY <1>1, <1>2, <2>2, <3>1, RegistryCopyKept DEF DocsMove
  <2> QED
    BY <2>1, <2>2
<1>4. ASSUME NEW p \in Requests, HasProjects(req'[p])
      PROVE  ProjectsCopy(req'[p], holds'[req'[p].call.ws])
  <2>1. CASE p = r
    BY <1>1, <1>4, <2>1
  <2>2. CASE p # r
    <3>1. ProjectsCopy(req[p], holds[req[p].call.ws])
      BY <1>1, <1>4, <2>2 DEF WorkspacesInv, ProjectsCopies
    <3> QED
      BY <1>1, <1>2, <2>2, <3>1, ProjectsCopyKept DEF DocsMove
  <2> QED
    BY <2>1, <2>2
<1> QED
  BY <1>3, <1>4 DEF RegistryCopies, ProjectsCopies

LEMMA RestCopiesNothing ==
    ASSUME NEW s \in {"idle", "registry", "ended"}, NEW c
    PROVE  /\ ~HasRegistry(Rest(s)) /\ ~HasProjects(Rest(s))
           /\ ~HasRegistry([Rest(s) EXCEPT !.call = c])
           /\ ~HasProjects([Rest(s) EXCEPT !.call = c])
BY DEF HasRegistry, HasProjects, Rest

(* A request ends, whatever it wrote or published with its last step.      *)
LEMMA EndKeeps ==
    ASSUME WorkspacesInv, NEW r \in Requests, End(r), Fault \/ NoFault,
           DocsMove(registry', holds'), DocumentsSane',
           spaces' \subseteq Workspace, links' \subseteq Link
    PROVE  WorkspacesInv'
<1>1. Done \in Requested /\ ~HasRegistry(Done) /\ ~HasProjects(Done)
  BY RestTyped, RestCopiesNothing DEF Done, Steps
<1>2. RegistryCopies' /\ ProjectsCopies'
  BY <1>1, CopiesKept DEF End
<1>3. Asked'
  BY Ends DEF WorkspacesInv
<1>4. WTypeOK'
  BY <1>3, TypedParts, FaultTyped DEF WorkspacesInv, Asked, DocsMove, WTypeOK, Registry, Document, Requested
<1> QED
  BY <1>2, <1>3, <1>4 DEF WorkspacesInv

(* A request goes on.                                                      *)
LEMMA GoKeeps ==
    ASSUME WorkspacesInv, NEW r \in Requests, NEW q \in Requested, Becomes(r, q), Fault \/ NoFault,
           req[r].at \notin {"idle", "ended"}, q.call = req[r].call,
           q.at = "cascade" => q.call.op = "delete",
           DocsMove(registry', holds'), DocumentsSane',
           HasRegistry(q) => RegistryCopy(q, registry'),
           HasProjects(q) => ProjectsCopy(q, holds'[q.call.ws]),
           spaces' \subseteq Workspace, links' \subseteq Link
    PROVE  WorkspacesInv'
<1>1. RegistryCopies' /\ ProjectsCopies'
  BY CopiesKept
<1>2. Asked'
  BY GoesOn DEF WorkspacesInv
<1>3. WTypeOK'
  BY <1>2, TypedParts, FaultTyped DEF WorkspacesInv, Asked, DocsMove, WTypeOK, Registry, Document, Requested
<1> QED
  BY <1>1, <1>2, <1>3 DEF WorkspacesInv

LEMMA DocsStay ==
    ASSUME WorkspacesInv, UNCHANGED docs
    PROVE  DocsMove(registry', holds') /\ DocumentsSane'
BY TypedParts DEF WorkspacesInv, docs, DocsMove, DocumentsSane

----------------------------------------------------------------------------
(* The actions.                                                            *)
LEMMA RequestParts ==
    ASSUME WorkspacesInv, NEW r \in Requests
    PROVE  /\ req[r] \in Requested /\ req[r].call \in Calls /\ req[r].call.ws \in Uids
           /\ req[r].reg \in Registry
           /\ req[r].doc \in [rev : Nat, list : SUBSET Association]
           /\ registry \in Registry /\ holds[req[r].call.ws] \in Document
           /\ spaces \subseteq Workspace /\ links \subseteq Link /\ wfaults \in Nat
BY TypedParts DEF WorkspacesInv, Requested, Calls, Registry

LEMMA UseKeeps == ASSUME WorkspacesInv, NEW r \in Requests, Use(r) PROVE WorkspacesInv'
<1>1. PICK c \in Calls : /\ WellAsked(c)
                        /\ Becomes(r, [Rest("registry") EXCEPT !.call = c])
  BY UseAsks DEF WorkspacesInv
<1>2. UNCHANGED <<docs, index, wfaults>>
  BY UseAsks DEF WorkspacesInv
<1> DEFINE q == [Rest("registry") EXCEPT !.call = c]
<1>3. q \in Requested /\ ~HasRegistry(q) /\ ~HasProjects(q)
  BY RestTyped, RestCopiesNothing DEF Rest, Requested, Steps
<1>4. Asked'
  BY <1>1, AskTyped DEF WorkspacesInv
<1> HIDE DEF q
<1>5. Becomes(r, q)
  BY <1>1 DEF q
<1>6. RegistryCopies' /\ ProjectsCopies' /\ DocumentsSane'
  BY <1>2, <1>3, <1>5, CopiesKept, DocsStay
<1> QED
  BY <1>2, <1>4, <1>6 DEF WorkspacesInv, Asked, WTypeOK, Requested, docs, index

LEMMA ReadRegistryKeeps == ASSUME WorkspacesInv, NEW r \in Requests, ReadRegistry(r) PROVE WorkspacesInv'
<1> DEFINE c == req[r].call
           q == [req[r] EXCEPT !.reg = registry,
                               !.at  = IF c.op \in Naming THEN "write" ELSE "projects"]
<1>1. UNCHANGED docs /\ UNCHANGED index /\ NoFault
  BY DEF ReadRegistry, NoFault
<1>2. spaces' \subseteq Workspace /\ links' \subseteq Link
  BY <1>1, RequestParts DEF index
<1>3. CASE End(r)
  BY <1>1, <1>2, <1>3, DocsStay, EndKeeps
<1>4. CASE Permits(c, registry.list) /\ Becomes(r, q)
  <2>1. q \in Requested /\ q.call = req[r].call /\ q.at \in {"write", "projects"} /\ q.reg = registry
    BY RequestParts DEF Requested, Registry, Steps
  <2>2. q.at = "write" => q.call.op \in Naming
    BY <2>1, RequestParts DEF Requested
  <2>3. RegistryCopy(q, registry) /\ ~HasProjects(q)
    BY <1>4, <2>1, <2>2, RequestParts DEF RegistryCopy, HasProjects, Registry, Naming, Adding
  <2>4. req[r].at \notin {"idle", "ended"} /\ registry' = registry
    BY <1>1 DEF ReadRegistry, docs
  <2> HIDE DEF q
  <2> QED
    BY <1>1, <1>2, <1>4, <2>1, <2>3, <2>4, DocsStay, GoKeeps
<1> QED
  BY <1>3, <1>4 DEF ReadRegistry

(* A copy just made matches its document.                                  *)
LEMMA CopyMatches ==
    ASSUME NEW q, NEW d, q.doc.rev = (IF d.live THEN d.rev ELSE 0), q.doc.list = d.list,
           d.rev \in Nat, IF d.live THEN d.rev # 0 ELSE d.list = {},
           q.call.op = "remove" => q.call.gone \subseteq q.doc.list
    PROVE  ProjectsCopy(q, d)
BY DEF ProjectsCopy

LEMMA ReadProjectsKeeps == ASSUME WorkspacesInv, NEW r \in Requests, ReadProjects(r) PROVE WorkspacesInv'
<1> DEFINE c == req[r].call
           d == holds[c.ws]
           q == [req[r] EXCEPT !.doc = Copy(d), !.at = "write"]
<1>1. UNCHANGED docs /\ UNCHANGED index /\ NoFault
  BY DEF ReadProjects, NoFault
<1>2. spaces' \subseteq Workspace /\ links' \subseteq Link
  BY <1>1, RequestParts DEF index
<1>3. CASE End(r)
  BY <1>1, <1>2, <1>3, DocsStay, EndKeeps
<1>4. CASE HasWork(c, d.list) /\ Becomes(r, q)
  <2>1. d \in Document /\ d.rev \in Nat /\ (IF d.live THEN d.rev # 0 ELSE d.list = {})
    BY RequestParts DEF WorkspacesInv, DocumentsSane, Document
  <2>2. q \in Requested /\ q.call = c /\ q.at = "write" /\ q.doc = Copy(d) /\ q.reg = req[r].reg
    BY <2>1, RequestParts DEF Requested, Document, Copy, Steps
  <2>3. RegistryCopy(q, registry)
    BY <2>2 DEF WorkspacesInv, RegistryCopies, RegistryCopy, HasRegistry, ReadProjects
  <2>4. c.op = "remove" => c.gone \subseteq d.list
    <3>1. HasWork(c, d.list)
      BY <1>4
    <3>2. c.op = "remove" => c.op \notin Adding
      BY DEF Adding
    <3> QED
      BY ONLY <3>1, <3>2 DEF HasWork
  <2>5. ProjectsCopy(q, d)
    <3>1. q.doc.rev = (IF d.live THEN d.rev ELSE 0) /\ q.doc.list = d.list
      BY ONLY <2>2 DEF Copy
    <3>2. d.rev \in Nat /\ (IF d.live THEN d.rev # 0 ELSE d.list = {})
      BY <2>1
    <3>3. q.call.op = "remove" => q.call.gone \subseteq q.doc.list
      BY ONLY <2>2, <2>4, <3>1
    <3> HIDE DEF q, d
    <3> QED
      BY ONLY <3>1, <3>2, <3>3, CopyMatches
  <2>6. req[r].at \notin {"idle", "ended"} /\ registry' = registry /\ holds' = holds
    BY <1>1 DEF ReadProjects, docs
  <2> HIDE DEF q
  <2> QED
    BY <1>1, <1>2, <1>4, <2>2, <2>3, <2>5, <2>6, DocsStay, GoKeeps
<1> QED
  BY <1>3, <1>4 DEF ReadProjects

LEMMA NoteProjectsKeeps == ASSUME WorkspacesInv, NEW r \in Requests, NoteProjects(r) PROVE WorkspacesInv'
<1> DEFINE u == req[r].call.ws
           q(l) == [req[r] EXCEPT !.link = l, !.at = "cascade"]
<1>1. UNCHANGED docs /\ UNCHANGED index
  BY DEF NoteProjects
<1>2. spaces' \subseteq Workspace /\ links' \subseteq Link
  BY <1>1, RequestParts DEF index
<1>3. LinksOf(u, holds[u].list) \in SUBSET Link /\ req[r].link \in SUBSET Link
  BY RequestParts DEF LinksOf, Link, Document, Requested
<1>4. \E l \in SUBSET Link : Becomes(r, q(l)) /\ (Fault \/ NoFault)
  <2>1. CASE Becomes(r, [req[r] EXCEPT !.link = LinksOf(u, holds[u].list), !.at = "cascade"]) /\ NoFault
    BY <1>3, <2>1
  <2>2. CASE Becomes(r, [req[r] EXCEPT !.at = "cascade"]) /\ Fault
    <3>1. [req[r] EXCEPT !.at = "cascade"] = q(req[r].link)
      BY RequestParts DEF Requested
    <3> QED
      BY <1>3, <2>2, <3>1
  <2> QED
    BY <2>1, <2>2 DEF NoteProjects
<1>5. PICK l \in SUBSET Link : Becomes(r, q(l)) /\ (Fault \/ NoFault)
  BY <1>4
<1>6. q(l) \in Requested /\ q(l).call = req[r].call /\ q(l).at = "cascade" /\ q(l).reg = req[r].reg
  BY RequestParts DEF Requested, Steps
<1>7. RegistryCopy(q(l), registry) /\ ~HasProjects(q(l)) /\ registry' = registry
  BY <1>1, <1>6 DEF WorkspacesInv, RegistryCopies, RegistryCopy, HasRegistry, HasProjects, NoteProjects, docs
<1>8. req[r].at \notin {"idle", "ended"} /\ req[r].call.op = "delete"
  BY DEF NoteProjects
<1> HIDE DEF q
<1> QED
  BY <1>1, <1>2, <1>5, <1>6, <1>7, <1>8, DocsStay, GoKeeps

LEMMA CascadeKeeps == ASSUME WorkspacesInv, NEW r \in Requests, Cascade(r) PROVE WorkspacesInv'
<1> DEFINE u == req[r].call.ws
           d == [rev |-> holds[u].rev + 1, live |-> FALSE, list |-> {}]
           q == [req[r] EXCEPT !.at = "write"]
<1>1. UNCHANGED registry /\ UNCHANGED index /\ (Fault \/ NoFault)
  BY DEF Cascade
<1>2. spaces' \subseteq Workspace /\ links' \subseteq Link
  BY <1>1, RequestParts DEF index
<1>3. holds \in [Uids -> Document] /\ holds[u].rev \in Nat /\ u \in Uids
  BY RequestParts, TypedParts DEF WorkspacesInv, Document
<1>4. holds' = holds \/ holds' = [holds EXCEPT ![u] = d]
  BY DEF Cascade
<1>5. d \in Document /\ d.rev = holds[u].rev + 1
  BY <1>3 DEF Document
<1>6. DocsMove(registry', holds') /\ DocumentsSane'
  <2>1. CASE holds' = holds
    BY <1>1, <2>1, DocsStay DEF docs
  <2>2. CASE holds' = [holds EXCEPT ![u] = d]
    BY <1>1, <1>3, <1>5, <2>2, RequestParts DEF DocsMove, DocumentsSane, WorkspacesInv
  <2> QED
    BY <1>4, <2>1, <2>2
<1>7. CASE End(r)
  BY <1>1, <1>2, <1>6, <1>7, EndKeeps
<1>8. CASE Becomes(r, q)
  <2>1. q \in Requested /\ q.call = req[r].call /\ q.at = "write" /\ q.reg = req[r].reg
    BY RequestParts DEF Requested, Steps
  <2>2. req[r].at = "cascade" /\ req[r].call.op = "delete"
    BY DEF Cascade, WorkspacesInv, Asked, CascadeDeletes
  <2>3. RegistryCopy(q, registry) /\ ~HasProjects(q) /\ registry' = registry
    BY <1>1, <2>1, <2>2 DEF WorkspacesInv, RegistryCopies, RegistryCopy, HasRegistry, HasProjects, Adding
  <2> HIDE DEF q, d
  <2> QED
    BY <1>1, <1>2, <1>6, <1>8, <2>1, <2>2, <2>3, GoKeeps
<1> QED
  BY <1>7, <1>8 DEF Cascade

LEMMA NewRegistryTyped ==
    ASSUME NEW c \in Calls, WellAsked(c), NEW list \in SUBSET Workspace
    PROVE  NewRegistry(c, list) \in SUBSET Workspace
<1>1. c.ws \in Uids
  BY DEF Calls
<1>2. c.op \in Naming => [uid |-> c.ws, name |-> c.name] \in Workspace
  BY <1>1 DEF WellAsked, Workspace
<1> QED
  BY <1>2 DEF NewRegistry

LEMMA AddedTyped ==
    ASSUME NEW r \in Requests, NEW c \in Calls, NEW list \in SUBSET Association
    PROVE  Added(r, c, list) \in SUBSET Association
<1>1. r \in Uids /\ c.slugs \subseteq Slugs
  BY DEF Calls, Uids
<1>2. \A s \in c.slugs : [uid |-> r, slug |-> s] \in Association
  BY <1>1 DEF Association
<1> QED
  BY <1>2 DEF Added

LEMMA WriteRegistryKeeps == ASSUME WorkspacesInv, NEW r \in Requests, WriteRegistry(r) PROVE WorkspacesInv'
<1> DEFINE c   == req[r].call
           new == [rev |-> registry.rev + 1, list |-> NewRegistry(c, req[r].reg.list)]
           sp  == IF c.op = "delete" THEN {w \in req[r].reg.list : w.uid = c.ws}
                                     ELSE {[uid |-> c.ws, name |-> c.name]}
           q   == [req[r] EXCEPT !.at = "publish", !.space = sp]
<1>1. UNCHANGED holds /\ UNCHANGED index /\ (Fault \/ NoFault)
  BY DEF WriteRegistry
<1>2. spaces' \subseteq Workspace /\ links' \subseteq Link
  BY <1>1, RequestParts DEF index
<1>3. registry' = registry \/ registry' = new
  BY DEF WriteRegistry
<1>4. WellAsked(c) /\ req[r].at = "write" /\ c.op \in Naming \union {"delete"}
  BY DEF WriteRegistry, WorkspacesInv, Asked, AllWellAsked
<1>5. new \in Registry /\ new.rev = registry.rev + 1
  BY <1>4, RequestParts, NewRegistryTyped DEF Registry
<1>6. DocsMove(registry', holds') /\ DocumentsSane'
  <2>1. CASE registry' = registry
    BY <1>1, <2>1, DocsStay DEF docs
  <2>2. CASE registry' = new
    BY <1>1, <1>5, <2>2, TypedParts DEF DocsMove, DocumentsSane, WorkspacesInv
  <2> QED
    BY <1>3, <2>1, <2>2
<1>7. CASE End(r)
  BY <1>1, <1>2, <1>6, <1>7, EndKeeps
<1>8. CASE Becomes(r, q)
  <2>0. c.op # "delete" => [uid |-> c.ws, name |-> c.name] \in Workspace
    BY <1>4, RequestParts DEF WellAsked, Workspace
  <2>1. sp \in SUBSET Workspace
    BY <2>0, RequestParts DEF Registry
  <2>2. q \in Requested /\ q.call = req[r].call /\ q.at = "publish"
    BY <2>1, RequestParts DEF Requested, Steps
  <2>3. ~HasRegistry(q) /\ ~HasProjects(q)
    BY <2>2 DEF HasRegistry, HasProjects
  <2> HIDE DEF q, new
  <2> QED
    BY <1>1, <1>2, <1>4, <1>6, <1>8, <2>2, <2>3, GoKeeps
<1> QED
  BY <1>7, <1>8 DEF WriteRegistry

LEMMA WriteProjectsKeeps == ASSUME WorkspacesInv, NEW r \in Requests, WriteProjects(r) PROVE WorkspacesInv'
<1> DEFINE c     == req[r].call
           u     == c.ws
           added == Added(r, c, req[r].doc.list)
           d     == [rev  |-> holds[u].rev + 1, live |-> TRUE,
                     list |-> (req[r].doc.list \ c.gone) \union added]
           l     == LinksOf(u, added \union c.gone)
           q     == [req[r] EXCEPT !.at = "publish", !.link = l]
<1>1. UNCHANGED registry /\ UNCHANGED index /\ (Fault \/ NoFault)
  BY DEF WriteProjects
<1>2. spaces' \subseteq Workspace /\ links' \subseteq Link
  BY <1>1, RequestParts DEF index
<1>3. holds \in [Uids -> Document] /\ holds[u].rev \in Nat /\ u \in Uids
  BY RequestParts, TypedParts DEF WorkspacesInv, Document
<1>4. holds' = holds \/ holds' = [holds EXCEPT ![u] = d]
  BY DEF WriteProjects
<1>5. added \in SUBSET Association /\ c.gone \in SUBSET Association /\ req[r].doc.list \in SUBSET Association
  BY RequestParts, AddedTyped DEF Calls
<1>6. d \in Document /\ d.rev = holds[u].rev + 1 /\ d.live /\ d.rev # 0
  BY <1>3, <1>5 DEF Document
<1>7. DocsMove(registry', holds') /\ DocumentsSane'
  <2>1. CASE holds' = holds
    BY <1>1, <2>1, DocsStay DEF docs
  <2>2. CASE holds' = [holds EXCEPT ![u] = d]
    <3> HIDE DEF d
    <3> QED
      BY <1>1, <1>3, <1>6, <2>2, RequestParts DEF DocsMove, DocumentsSane, WorkspacesInv
  <2> QED
    BY <1>4, <2>1, <2>2
<1>8. CASE End(r)
  BY <1>1, <1>2, <1>7, <1>8, EndKeeps
<1>9. CASE Becomes(r, q)
  <2>1. l \in SUBSET Link
    BY <1>3, <1>5 DEF LinksOf, Link
  <2>2. q \in Requested /\ q.call = req[r].call /\ q.at = "publish"
    BY <2>1, RequestParts DEF Requested, Steps
  <2>3. ~HasRegistry(q) /\ ~HasProjects(q)
    BY <2>2 DEF HasRegistry, HasProjects
  <2>4. req[r].at = "write"
    BY DEF WriteProjects
  <2> HIDE DEF q, d
  <2> QED
    BY <1>1, <1>2, <1>7, <1>9, <2>2, <2>3, <2>4, GoKeeps
<1> QED
  BY <1>8, <1>9 DEF WriteProjects

(* After a message, or a lost one, the request publishes the rest or ends. *)
LEMMA PublishedKeeps ==
    ASSUME WorkspacesInv, NEW r \in Requests, NEW q \in Requested, Published(r, q),
           q.at = "publish", q.call = req[r].call, req[r].at = "publish",
           UNCHANGED docs, Fault \/ NoFault,
           spaces' \subseteq Workspace, links' \subseteq Link
    PROVE  WorkspacesInv'
<1>1. ~HasRegistry(q) /\ ~HasProjects(q)
  BY DEF HasRegistry, HasProjects
<1>2. CASE End(r)
  BY <1>2, DocsStay, EndKeeps
<1>3. CASE Becomes(r, q)
  BY <1>1, <1>3, DocsStay, GoKeeps
<1> QED
  BY <1>2, <1>3 DEF Published, End

LEMMA PublishKeeps ==
    ASSUME WorkspacesInv, NEW r \in Requests,
           PublishWorkspace(r) \/ PublishProject(r) \/ PublishFails(r)
    PROVE  WorkspacesInv'
<1> DEFINE qs(w) == [req[r] EXCEPT !.space = @ \ {w}]
           ql(l) == [req[r] EXCEPT !.link = @ \ {l}]
<1>1. ASSUME req[r].at = "publish"
      PROVE  \A x : /\ qs(x) \in Requested /\ qs(x).at = "publish" /\ qs(x).call = req[r].call
                    /\ ql(x) \in Requested /\ ql(x).at = "publish" /\ ql(x).call = req[r].call
  BY <1>1, RequestParts DEF Requested
<1>2. CASE PublishWorkspace(r)
  <2>1. PICK w \in req[r].space :
            /\ spaces' = {x \in spaces : x.uid # w.uid}
                           \union (IF req[r].call.op \in Showing THEN {w} ELSE {})
            /\ Published(r, qs(w))
    BY <1>2 DEF PublishWorkspace
  <2>2. UNCHANGED docs /\ UNCHANGED links /\ NoFault /\ req[r].at = "publish"
    BY <1>2 DEF PublishWorkspace, NoFault
  <2>3. w \in Workspace
    BY RequestParts DEF Requested
  <2>4. spaces' \subseteq Workspace /\ links' \subseteq Link
    BY <2>1, <2>2, <2>3, RequestParts
  <2> HIDE DEF qs, ql
  <2> QED
    BY <1>1, <2>1, <2>2, <2>4, PublishedKeeps
<1>3. CASE PublishProject(r)
  <2>1. PICK l \in req[r].link :
            /\ links' = (links \ {l}) \union (IF req[r].call.op \in Showing THEN {l} ELSE {})
            /\ Published(r, ql(l))
    BY <1>3 DEF PublishProject
  <2>2. UNCHANGED docs /\ UNCHANGED spaces /\ NoFault /\ req[r].at = "publish"
    BY <1>3 DEF PublishProject, NoFault
  <2>3. l \in Link
    BY RequestParts DEF Requested
  <2>4. spaces' \subseteq Workspace /\ links' \subseteq Link
    BY <2>1, <2>2, <2>3, RequestParts
  <2> HIDE DEF qs, ql
  <2> QED
    BY <1>1, <2>1, <2>2, <2>4, PublishedKeeps
<1>4. CASE PublishFails(r)
  <2>1. UNCHANGED docs /\ UNCHANGED index /\ Fault /\ req[r].at = "publish"
    BY <1>4 DEF PublishFails
  <2>2. (\E w \in req[r].space : Published(r, qs(w))) \/ (\E l \in req[r].link : Published(r, ql(l)))
    BY <1>4 DEF PublishFails
  <2>3. spaces' \subseteq Workspace /\ links' \subseteq Link
    BY <2>1, RequestParts DEF index
  <2> HIDE DEF qs, ql
  <2> QED
    BY <1>1, <2>1, <2>2, <2>3, PublishedKeeps
<1> QED
  BY <1>2, <1>3, <1>4

LEMMA AbandonKeeps == ASSUME WorkspacesInv, NEW r \in Requests, Abandon(r) PROVE WorkspacesInv'
<1>1. UNCHANGED docs /\ UNCHANGED index /\ Fault /\ End(r)
  BY DEF Abandon
<1>2. spaces' \subseteq Workspace /\ links' \subseteq Link
  BY <1>1, RequestParts DEF index
<1> QED
  BY <1>1, <1>2, DocsStay, EndKeeps

LEMMA WorkspacesInit == WInit => WorkspacesInv
<1> SUFFICES ASSUME WInit PROVE WorkspacesInv
  OBVIOUS
<1>1. req \in [Requests -> Requested] /\ \A r \in Requests : req[r] = Idle
  BY RestTyped DEF WInit, Idle, Steps
<1>2. Idle.at = "idle" /\ ~HasRegistry(Idle) /\ ~HasProjects(Idle)
  BY RestCopiesNothing DEF Idle, Rest
<1>3. Asked /\ RegistryCopies /\ ProjectsCopies
  BY <1>1, <1>2 DEF Asked, AllWellAsked, CascadeDeletes, RegistryCopies, ProjectsCopies
<1>4. Blank \in Document
  BY DEF Blank, Document
<1> DEFINE Sound == /\ registry \in Registry /\ holds \in [Uids -> Document] /\ DocumentsSane
                    /\ spaces \subseteq Workspace /\ links \subseteq Link
<1>5. Sound
  <2>1. CASE /\ registry = [rev |-> 0, list |-> {}] /\ holds = [u \in Uids |-> Blank]
             /\ spaces = {} /\ links = {}
    BY <1>4, <2>1 DEF Registry, DocumentsSane, Blank
  <2>2. ASSUME NEW n \in Names, NEW s \in Slugs,
               registry = [rev |-> 1, list |-> {[uid |-> Home, name |-> n]}],
               holds = [u \in Uids |-> IF u = Home
                          THEN [rev |-> 1, live |-> TRUE, list |-> {[uid |-> Home, slug |-> s]}]
                          ELSE Blank],
               spaces = registry.list,
               links = LinksOf(Home, {[uid |-> Home, slug |-> s]})
        PROVE  Sound
    <3>1. Home \in Uids /\ [uid |-> Home, name |-> n] \in Workspace /\ [uid |-> Home, slug |-> s] \in Association
      BY DEF Uids, Workspace, Association
    <3> DEFINE d == [rev |-> 1, live |-> TRUE, list |-> {[uid |-> Home, slug |-> s]}]
    <3>2. d \in Document /\ d.live /\ d.rev # 0
      BY <3>1 DEF Document
    <3>3. LinksOf(Home, {[uid |-> Home, slug |-> s]}) \subseteq Link
      BY <3>1 DEF LinksOf, Link
    <3>4. registry \in Registry /\ registry.list \subseteq Workspace
      BY <2>2, <3>1 DEF Registry
    <3> HIDE DEF d
    <3>5. holds \in [Uids -> Document] /\ \A u \in Uids : holds[u] = IF u = Home THEN d ELSE Blank
      BY <1>4, <2>2, <3>2 DEF d
    <3>6. DocumentsSane
      BY <3>2, <3>5 DEF DocumentsSane, Blank
    <3> QED
      BY <2>2, <3>3, <3>4, <3>5, <3>6
  <2> QED
    BY <2>1, <2>2 DEF WInit
<1>6. wfaults \in Nat
  BY DEF WInit
<1> QED
  BY <1>1, <1>3, <1>5, <1>6, TypedParts DEF WorkspacesInv, WTypeOK, Registry, Document, Requested

LEMMA HandleKeeps == ASSUME WorkspacesInv, NEW r \in Requests, Handle(r) PROVE WorkspacesInv'
BY ReadRegistryKeeps, ReadProjectsKeeps, NoteProjectsKeeps, CascadeKeeps,
   WriteRegistryKeeps, WriteProjectsKeeps, PublishKeeps DEF Handle

LEMMA WorkspacesStep == ASSUME WorkspacesInv, [WNext]_wvars PROVE WorkspacesInv'
<1>1. ASSUME NEW r \in Requests, Use(r) \/ Handle(r) \/ Abandon(r)
      PROVE  WorkspacesInv'
  BY <1>1, UseKeeps, HandleKeeps, AbandonKeeps
<1>2. CASE UNCHANGED wvars
  BY <1>2 DEF wvars, docs, index, WorkspacesInv, WTypeOK, Asked, AllWellAsked, CascadeDeletes,
              RegistryCopies, ProjectsCopies, DocumentsSane
<1> QED
  BY <1>1, <1>2 DEF WNext

LEMMA WorkspacesInductive == WSpec => []WorkspacesInv
BY WorkspacesInit, WorkspacesStep, PTL DEF WSpec

(* The documents, the requests and what they have read keep their shape.   *)
THEOREM WorkspacesTypeCorrect == WSpec => []WTypeOK
<1>1. WorkspacesInv => WTypeOK
  BY DEF WorkspacesInv
<1> QED
  BY <1>1, WorkspacesInductive, PTL

----------------------------------------------------------------------------
(* Every change is one whole call.                                         *)
LEMMA RegistryStepHolds ==
    ASSUME WorkspacesInv, NEW r \in Requests, WriteRegistry(r), registry'.list # registry.list
    PROVE  RegistryStep(req[r].call)
<1>1. AcceptsRegistry(req[r].reg) /\ registry'.list = NewRegistry(req[r].call, req[r].reg.list)
  BY DEF WriteRegistry
<1>2. RegistryCopy(req[r], registry)
  BY DEF WorkspacesInv, RegistryCopies, HasRegistry, WriteRegistry
<1>3. req[r].reg.list = registry.list
  BY <1>1, <1>2, RequestParts DEF AcceptsRegistry, RegistryCopy, Registry
<1> QED
  BY <1>1, <1>2, <1>3 DEF RegistryStep, RegistryCopy

LEMMA ProjectsStepHolds ==
    ASSUME WorkspacesInv, NEW r \in Requests, WriteProjects(r), NEW u \in Uids, holds'[u].list # holds[u].list
    PROVE  req[r].call.ws = u /\ ProjectsStep(r, req[r].call)
<1> DEFINE c     == req[r].call
           s     == req[r].doc
           added == Added(r, c, s.list)
           new   == [rev |-> holds[c.ws].rev + 1, live |-> TRUE, list |-> (s.list \ c.gone) \union added]
<1>1. /\ AcceptsDocument(s, holds[c.ws])
      /\ holds' = [holds EXCEPT ![c.ws] = new]
      /\ c.op \in Adding \union {"remove"} /\ req[r].at = "write"
  BY DEF WriteProjects
<1>2. c.ws = u /\ holds \in [Uids -> Document]
  BY <1>1, TypedParts DEF WorkspacesInv
<1>3. holds'[u].list = (s.list \ c.gone) \union added
  BY <1>1, <1>2
<1>4. ProjectsCopy(req[r], holds[u]) /\ WellAsked(c)
  BY <1>1, <1>2 DEF WorkspacesInv, ProjectsCopies, HasProjects, Asked, AllWellAsked
<1>5. s.list = holds[u].list
  BY <1>1, <1>2, <1>4, RequestParts DEF AcceptsDocument, ProjectsCopy, WorkspacesInv, DocumentsSane, Document
<1>6. CASE c.op \in Adding
  BY <1>2, <1>3, <1>4, <1>5, <1>6 DEF ProjectsStep, WellAsked
<1>7. CASE c.op = "remove"
  <2>1. added = {} /\ c.gone \subseteq s.list
    BY <1>4, <1>7 DEF WellAsked, Added, ProjectsCopy
  <2> QED
    BY <1>2, <1>3, <1>5, <1>7, <2>1 DEF ProjectsStep
<1> QED
  BY <1>1, <1>6, <1>7

LEMMA CascadeStepHolds ==
    ASSUME WorkspacesInv, NEW r \in Requests, Cascade(r), NEW u \in Uids, holds'[u].list # holds[u].list
    PROVE  req[r].call.ws = u /\ ProjectsStep(r, req[r].call)
<1> DEFINE v == req[r].call.ws
           d == [rev |-> holds[v].rev + 1, live |-> FALSE, list |-> {}]
<1>1. holds' = [holds EXCEPT ![v] = d] /\ req[r].at = "cascade"
  BY DEF Cascade
<1>2. v = u /\ holds \in [Uids -> Document]
  BY <1>1, TypedParts DEF WorkspacesInv
<1>3. holds'[v].list = {} /\ req[r].call.op = "delete"
  BY <1>1, <1>2 DEF WorkspacesInv, Asked, CascadeDeletes
<1> QED
  BY <1>2, <1>3 DEF ProjectsStep

(* Which actions change the documents.                                     *)
LEMMA Writers ==
    ASSUME [WNext]_wvars
    PROVE  /\ UNCHANGED registry \/ \E r \in Requests : WriteRegistry(r)
           /\ UNCHANGED holds \/ \E r \in Requests : Cascade(r) \/ WriteProjects(r)
<1>1. CASE UNCHANGED wvars
  BY <1>1 DEF wvars, docs
<1>2. ASSUME NEW r \in Requests, Use(r)
      PROVE  UNCHANGED registry /\ UNCHANGED holds
  BY <1>2 DEF Use, Ask, docs, CreateWorkspace, UpdateWorkspace, DeleteWorkspace,
              AddProject, AddProjectsBulk, RemoveProject
<1>3. ASSUME NEW r \in Requests, ReadRegistry(r) \/ ReadProjects(r) \/ NoteProjects(r)
      PROVE  UNCHANGED registry /\ UNCHANGED holds
  BY <1>3 DEF ReadRegistry, ReadProjects, NoteProjects, docs
<1>4. ASSUME NEW r \in Requests, PublishWorkspace(r) \/ PublishProject(r) \/ PublishFails(r) \/ Abandon(r)
      PROVE  UNCHANGED registry /\ UNCHANGED holds
  BY <1>4 DEF PublishWorkspace, PublishProject, PublishFails, Abandon, docs
<1>5. ASSUME NEW r \in Requests, Cascade(r) \/ WriteProjects(r)
      PROVE  UNCHANGED registry
  BY <1>5 DEF Cascade, WriteProjects
<1>6. ASSUME NEW r \in Requests, WriteRegistry(r)
      PROVE  UNCHANGED holds
  BY <1>6 DEF WriteRegistry
<1> QED
  BY <1>1, <1>2, <1>3, <1>4, <1>5, <1>6 DEF WNext, Handle

LEMMA WholeCallHolds == ASSUME WorkspacesInv, [WNext]_wvars PROVE WholeCall
BY Writers, RegistryStepHolds, ProjectsStepHolds, CascadeStepHolds DEF WholeCall

(* Beside any other requests, a document changes only by one whole call    *)
(* that is applied to the document as it is.                               *)
THEOREM CallsAreWhole == WSpec => WholeCalls
BY WorkspacesInductive, WholeCallHolds, PTL DEF WSpec, WholeCalls

----------------------------------------------------------------------------
(* Unique follows from whole calls: the checks hold of the list they are   *)
(* applied to.                                                             *)
LEMMA NamesStayApart ==
    ASSUME NEW c, NEW list, Permits(c, list), \A v, w \in list : v.name = w.name => v = w
    PROVE  \A v, w \in NewRegistry(c, list) : v.name = w.name => v = w
BY DEF Permits, NewRegistry, NamedApart

LEMMA SlugsStayApart ==
    ASSUME NEW r, NEW c, NEW list, \A a, b \in list : a.slug = b.slug => a = b
    PROVE  \A a, b \in list \union Added(r, c, list) : a.slug = b.slug => a = b
<1>1. \A a \in Added(r, c, list) : a = [uid |-> r, slug |-> a.slug] /\ ~Mentions(a.slug, list)
  BY DEF Added
<1> QED
  BY <1>1 DEF Mentions

LEMMA UniqueInit == WInit => Unique
<1> SUFFICES ASSUME WInit PROVE Unique
  OBVIOUS
<1>1. CASE registry = [rev |-> 0, list |-> {}] /\ holds = [u \in Uids |-> Blank]
  BY <1>1 DEF Unique, Blank
<1>2. ASSUME NEW n \in Names, NEW s \in Slugs,
             registry = [rev |-> 1, list |-> {[uid |-> Home, name |-> n]}],
             holds = [u \in Uids |-> IF u = Home
                        THEN [rev |-> 1, live |-> TRUE, list |-> {[uid |-> Home, slug |-> s]}]
                        ELSE Blank]
      PROVE  Unique
  <2>1. registry.list = {[uid |-> Home, name |-> n]}
    BY <1>2
  <2>2. \A u \in Uids : holds[u].list \in {{[uid |-> Home, slug |-> s]}, {}}
    BY <1>2 DEF Blank
  <2> QED
    BY <2>1, <2>2 DEF Unique
<1> QED
  BY <1>1, <1>2 DEF WInit

LEMMA UniqueNext == ASSUME Unique, WholeCall PROVE Unique'
<1>1. \A v, w \in registry'.list : v.name = w.name => v = w
  <2>1. CASE registry'.list = registry.list
    BY <2>1 DEF Unique
  <2>2. ASSUME NEW r \in Requests, RegistryStep(req[r].call)
        PROVE  \A v, w \in registry'.list : v.name = w.name => v = w
    BY <2>2, NamesStayApart DEF Unique, RegistryStep
  <2> QED
    BY <2>1, <2>2 DEF WholeCall
<1>2. ASSUME NEW u \in Uids
      PROVE  \A a, b \in holds'[u].list : a.slug = b.slug => a = b
  <2>1. CASE holds'[u].list = holds[u].list
    BY <2>1 DEF Unique
  <2>2. ASSUME NEW r \in Requests, req[r].call.ws = u, ProjectsStep(r, req[r].call)
        PROVE  \A a, b \in holds'[u].list : a.slug = b.slug => a = b
    BY <2>2, SlugsStayApart DEF Unique, ProjectsStep
  <2> QED
    BY <2>1, <2>2 DEF WholeCall
<1> QED
  BY <1>1, <1>2 DEF Unique

(* Names within the organization and slugs within a workspace stay unique. *)
THEOREM NamesAndSlugsUnique == WSpec => []Unique
<1>1. WorkspacesInv /\ Unique /\ [WNext]_wvars => Unique'
  BY WholeCallHolds, UniqueNext
<1> QED
  BY <1>1, UniqueInit, WorkspacesInductive, PTL DEF WSpec

----------------------------------------------------------------------------
(***************************************************************************)
(* Requests of the workspaces that come one after another: a deletion      *)
(* leaves no projects, and the index follows.  The request under way has   *)
(* read the documents as they still are, and what the index lacks is what  *)
(* it has yet to publish; between two requests the index lacks nothing.    *)
(* The index is only followed as long as no call fails.                    *)
(***************************************************************************)
Busily(q)  == q.at \notin {"idle", "ended"}
InStock(l) == l.project \in holds[l.ws].list
Synced     == spaces = registry.list /\ \A l \in Link : l \in links <=> InStock(l)

(* What the request has read is what is stored.                            *)
Latest(q) ==
    /\ HasRegistry(q) => q.reg = registry
    /\ HasProjects(q) => q.doc = Copy(holds[q.call.ws])
    /\ q.at = "write" /\ q.call.op = "delete" => ~holds[q.call.ws].live

(* What is stored and not shown is still to be published ...               *)
ToShow(q) ==
    /\ \A l \in Link : InStock(l) <=> l \in links \union q.link
    /\ \A x \in Workspace :
          IF x.uid = q.call.ws /\ q.space # {}
            THEN x \in registry.list <=> x \in q.space
            ELSE x \in registry.list <=> x \in spaces
    /\ \A w, x \in q.space : w = x /\ w.uid = q.call.ws

(* ... or what is shown and not stored.                                    *)
ToWithdraw(q) ==
    /\ \A l \in Link : l \in links <=> InStock(l) \/ l \in q.link
    /\ \A l \in q.link : ~InStock(l)
    /\ registry.list \subseteq spaces
    /\ spaces \subseteq registry.list \union q.space
    /\ \A w \in q.space : w.uid = q.call.ws
    /\ q.space # {} => ~Registered(q.call.ws, registry.list)

Behind(q) == IF q.call.op \in Showing THEN ToShow(q) ELSE ToWithdraw(q)

Due(q) ==
    /\ q.at # "publish" => q.space = {}
    /\ q.at # "publish" /\ q.link # {} =>
          q.at \in {"cascade", "write"} /\ q.call.op = "delete"
    /\ IF q.at = "cascade"
         THEN Synced /\ q.link = LinksOf(q.call.ws, holds[q.call.ws].list)
         ELSE Behind(q)

Serves(q) ==
    /\ Cascaded
    /\ Busily(q) => Latest(q)
    /\ wfaults = 0 => IF Busily(q) THEN Due(q) ELSE Synced

(* At most one request is under way.                                       *)
AloneInv ==
    /\ \A p, r \in Requests : Busily(req[p]) /\ Busily(req[r]) => p = r
    /\ Cascaded
    /\ \A r \in Requests : Busily(req[r]) => Serves(req[r])
    /\ wfaults = 0 /\ (\A r \in Requests : ~Busily(req[r])) => Synced

LEMMA Moved ==
    ASSUME WorkspacesInv, NEW r \in Requests, NEW q, Becomes(r, q)
    PROVE  req'[r] = q /\ \A p \in Requests \ {r} : req'[p] = req[p]
<1>1. req \in [Requests -> Requested]
  BY DEF WorkspacesInv, Asked
<1> QED
  BY <1>1 DEF Becomes

(* Between calls that change nothing, what held still does.                *)
LEMMA AsStored ==
    ASSUME UNCHANGED docs, UNCHANGED index
    PROVE  /\ Cascaded => Cascaded'
           /\ Synced => Synced'
BY DEF docs, index, Cascaded, Synced, InStock

LEMMA EndServes ==
    ASSUME WorkspacesInv, NEW r \in Requests, End(r), Cascaded', wfaults' = 0 => Synced'
    PROVE  Serves(req[r])'
<1>1. req'[r] = Done
  BY Moved DEF End
<1>2. ~Busily(Done)
  BY DEF Done, Rest, Busily
<1>3. ~Busily(req[r])'
  BY <1>1, <1>2 DEF Busily
<1> QED
  BY <1>3 DEF Serves

(* A request with nothing to publish has an index that lacks nothing ...   *)
LEMMA NothingDue ==
    ASSUME WorkspacesInv, NEW q, q.at # "cascade", q.space = {}, q.link = {}, Due(q)
    PROVE  Synced
<1>1. registry.list \subseteq Workspace /\ spaces \subseteq Workspace
  BY TypedParts DEF WorkspacesInv, Registry
<1>2. CASE q.call.op \in Showing
  BY <1>1, <1>2 DEF Due, Behind, ToShow, Synced
<1>3. CASE q.call.op \notin Showing
  BY <1>1, <1>3 DEF Due, Behind, ToWithdraw, Synced
<1> QED
  BY <1>2, <1>3

(* ... and the other way round.                                            *)
LEMMA SyncedDue ==
    ASSUME Synced, NEW q, q.at # "cascade", q.space = {}, q.link = {}
    PROVE  Due(q)
BY DEF Due, Behind, ToShow, ToWithdraw, Synced

(* A step that only reads.                                                 *)
LEMMA ReadServes ==
    ASSUME WorkspacesInv, NEW r \in Requests, Serves(req[r]), UNCHANGED docs, UNCHANGED index,
           wfaults' = 0 => wfaults = 0 /\ Synced,
           Latest(req[r])', Busily(req[r])',
           req'[r].at \notin {"cascade", "publish"}, req'[r].space = {}, req'[r].link = {}
    PROVE  Serves(req[r])'
<1>1. Cascaded' /\ (wfaults' = 0 => Synced')
  BY AsStored DEF Serves
<1>2. Synced' => Due(req[r])'
  BY DEF Due, Behind, ToShow, ToWithdraw, Synced
<1> QED
  BY <1>1, <1>2 DEF Serves

LEMMA UseServes ==
    ASSUME WorkspacesInv, NEW r \in Requests, Serves(req[r]), Use(r)
    PROVE  Serves(req[r])' /\ Busily(req[r])'
<1>1. PICK c \in Calls : Becomes(r, [Rest("registry") EXCEPT !.call = c])
  BY UseAsks DEF WorkspacesInv
<1>2. UNCHANGED <<docs, index, wfaults>> /\ req[r].at = "idle"
  BY UseAsks DEF WorkspacesInv
<1>3. UNCHANGED docs /\ UNCHANGED index /\ UNCHANGED wfaults
  BY <1>2
<1>4. req'[r] = [Rest("registry") EXCEPT !.call = c]
  BY <1>1, Moved
<1>5. req'[r].at = "registry" /\ req'[r].space = {} /\ req'[r].link = {}
  BY <1>4 DEF Rest
<1>6. Latest(req[r])' /\ Busily(req[r])'
  BY <1>5 DEF Latest, Busily, HasRegistry, HasProjects
<1>7. wfaults' = 0 => wfaults = 0 /\ Synced
  BY <1>2, <1>3 DEF Serves, Busily
<1> QED
  BY <1>3, <1>5, <1>6, <1>7, ReadServes

(* Before the documents are written the index lacks nothing, except that a *)
(* deletion has noted links.                                               *)
LEMMA SyncedBefore ==
    ASSUME WorkspacesInv, NEW r \in Requests, Serves(req[r]), wfaults = 0,
           req[r].at \in {"registry", "projects", "write"},
           req[r].at = "write" => req[r].call.op # "delete"
    PROVE  Synced /\ req[r].space = {} /\ req[r].link = {}
<1>1. Due(req[r])
  BY DEF Serves, Busily
<1>2. req[r].space = {} /\ req[r].link = {}
  BY <1>1 DEF Due
<1> QED
  BY <1>1, <1>2, NothingDue

LEMMA ReadRegistryServes ==
    ASSUME WorkspacesInv, NEW r \in Requests, Serves(req[r]), ReadRegistry(r)
    PROVE  Serves(req[r])'
<1> DEFINE c == req[r].call
           q == [req[r] EXCEPT !.reg = registry,
                               !.at  = IF c.op \in Naming THEN "write" ELSE "projects"]
<1>1. UNCHANGED docs /\ UNCHANGED index /\ UNCHANGED wfaults /\ req[r].at = "registry"
  BY DEF ReadRegistry
<1>2. wfaults' = 0 => wfaults = 0 /\ Synced /\ req[r].space = {} /\ req[r].link = {}
  BY <1>1, SyncedBefore
<1>3. CASE End(r)
  BY <1>1, <1>2, <1>3, AsStored, EndServes DEF Serves
<1>4. CASE Becomes(r, q)
  <2>1. /\ q.at = IF c.op \in Naming THEN "write" ELSE "projects"
        /\ q.reg = registry /\ q.space = req[r].space /\ q.link = req[r].link /\ q.call = c
    BY RequestParts DEF Requested
  <2> HIDE DEF q
  <2>2. req'[r] = q
    BY <1>4, Moved
  <2>3. Latest(req[r])' /\ Busily(req[r])'
    BY <1>1, <2>1, <2>2 DEF Latest, Busily, HasRegistry, HasProjects, docs, Naming, Adding
  <2>4. wfaults' = 0 => Synced' /\ Due(req[r])'
    <3> SUFFICES ASSUME wfaults' = 0 PROVE Synced' /\ Due(req[r])'
      OBVIOUS
    <3>1. Synced'
      BY <1>1, <1>2, AsStored
    <3>2. req'[r].at # "cascade" /\ req'[r].space = {} /\ req'[r].link = {}
      BY <1>2, <2>1, <2>2
    <3> QED
      BY <3>1, <3>2 DEF Due, Behind, ToShow, ToWithdraw, Synced
  <2> QED
    BY <1>1, <2>3, <2>4, AsStored DEF Serves
<1> QED
  BY <1>3, <1>4 DEF ReadRegistry

LEMMA ReadProjectsServes ==
    ASSUME WorkspacesInv, NEW r \in Requests, Serves(req[r]), ReadProjects(r)
    PROVE  Serves(req[r])'
<1> DEFINE c == req[r].call
           q == [req[r] EXCEPT !.doc = Copy(holds[c.ws]), !.at = "write"]
<1>1. UNCHANGED docs /\ UNCHANGED index /\ UNCHANGED wfaults /\ req[r].at = "projects" /\ c.op # "delete"
  BY DEF ReadProjects
<1>2. wfaults' = 0 => wfaults = 0 /\ Synced /\ req[r].space = {} /\ req[r].link = {}
  BY <1>1, SyncedBefore
<1>3. CASE End(r)
  BY <1>1, <1>2, <1>3, AsStored, EndServes DEF Serves
<1>4. CASE Becomes(r, q)
  <2>1. /\ q.at = "write" /\ q.doc = Copy(holds[c.ws]) /\ q.reg = req[r].reg
        /\ q.space = req[r].space /\ q.link = req[r].link /\ q.call = c
    BY RequestParts DEF Requested
  <2>2. req[r].reg = registry
    BY <1>1 DEF Serves, Latest, Busily, HasRegistry
  <2> HIDE DEF q
  <2>3. req'[r] = q
    BY <1>4, Moved
  <2>4. Latest(req[r])' /\ Busily(req[r])'
    BY <1>1, <2>1, <2>2, <2>3 DEF Latest, Busily, HasRegistry, HasProjects, docs, Copy
  <2>5. wfaults' = 0 => Synced' /\ Due(req[r])'
    <3> SUFFICES ASSUME wfaults' = 0 PROVE Synced' /\ Due(req[r])'
      OBVIOUS
    <3>1. Synced'
      BY <1>1, <1>2, AsStored
    <3>2. req'[r].at # "cascade" /\ req'[r].space = {} /\ req'[r].link = {}
      BY <1>2, <2>1, <2>3
    <3> QED
      BY <3>1, <3>2 DEF Due, Behind, ToShow, ToWithdraw, Synced
  <2> QED
    BY <1>1, <2>4, <2>5, AsStored DEF Serves
<1> QED
  BY <1>3, <1>4 DEF ReadProjects

(* A call that fails is counted.                                           *)
LEMMA FaultCounts == ASSUME WorkspacesInv, Fault PROVE wfaults' # 0
BY RequestParts DEF WorkspacesInv, WTypeOK, Fault

LEMMA NoteProjectsServes ==
    ASSUME WorkspacesInv, NEW r \in Requests, Serves(req[r]), NoteProjects(r)
    PROVE  Serves(req[r])'
<1> DEFINE u == req[r].call.ws
           l == LinksOf(u, holds[u].list)
           q(k) == [req[r] EXCEPT !.link = k, !.at = "cascade"]
<1>1. UNCHANGED docs /\ UNCHANGED index /\ req[r].at = "projects" /\ req[r].call.op = "delete"
  BY DEF NoteProjects
<1>2. PICK k : req'[r] = q(k) /\ (wfaults' = 0 => wfaults = 0 /\ k = l)
  <2>1. CASE NoFault /\ Becomes(r, [req[r] EXCEPT !.link = l, !.at = "cascade"])
    BY <2>1, Moved DEF NoFault
  <2>2. CASE Fault /\ Becomes(r, [req[r] EXCEPT !.at = "cascade"])
    <3>1. [req[r] EXCEPT !.at = "cascade"] = q(req[r].link)
      BY RequestParts DEF Requested
    <3> QED
      BY <2>2, <3>1, Moved, FaultCounts
  <2> QED
    BY <2>1, <2>2 DEF NoteProjects
<1>3. /\ q(k).at = "cascade" /\ q(k).reg = req[r].reg /\ q(k).link = k
      /\ q(k).space = req[r].space /\ q(k).call = req[r].call
  BY RequestParts DEF Requested
<1> HIDE DEF q
<1>4. req[r].reg = registry
  BY <1>1 DEF Serves, Latest, Busily, HasRegistry
<1>5. Latest(req[r])' /\ Busily(req[r])'
  BY <1>1, <1>2, <1>3, <1>4 DEF Latest, Busily, HasRegistry, HasProjects, docs
<1>6. wfaults' = 0 => Due(req[r])'
  <2> SUFFICES ASSUME wfaults' = 0 PROVE Due(req[r])'
    OBVIOUS
  <2>1. Synced /\ req[r].space = {}
    BY <1>1, <1>2, SyncedBefore
  <2>2. Synced'
    BY <1>1, <2>1, AsStored
  <2>3. req'[r].link = LinksOf(u, holds'[u].list) /\ req'[r].call.ws = u
    BY <1>1, <1>2, <1>3 DEF docs
  <2>4. req'[r].at = "cascade" /\ req'[r].space = {} /\ req'[r].call.op = "delete"
    BY <1>1, <1>2, <1>3, <2>1
  <2> QED
    BY <2>2, <2>3, <2>4 DEF Due
<1> QED
  BY <1>1, <1>5, <1>6, AsStored DEF Serves

(* What a link says of a list.                                             *)
LEMMA LinkOf ==
    ASSUME NEW u \in Uids, NEW list \in SUBSET Association, NEW l \in Link
    PROVE  l \in LinksOf(u, list) <=> l.ws = u /\ l.project \in list
BY DEF LinksOf, Link

LEMMA CascadeServes ==
    ASSUME WorkspacesInv, NEW r \in Requests, Serves(req[r]), Cascade(r)
    PROVE  Serves(req[r])'
<1> DEFINE u == req[r].call.ws
           d == [rev |-> holds[u].rev + 1, live |-> FALSE, list |-> {}]
           q == [req[r] EXCEPT !.at = "write"]
<1>1. UNCHANGED registry /\ UNCHANGED index /\ req[r].at = "cascade"
  BY DEF Cascade
<1>2. holds \in [Uids -> Document] /\ u \in Uids /\ holds[u].list \in SUBSET Association
  BY RequestParts, TypedParts DEF WorkspacesInv, Document
<1>3. d.live = FALSE /\ d.list = {}
  OBVIOUS
<1>4. holds' = holds \/ holds' = [holds EXCEPT ![u] = d]
  BY DEF Cascade
<1>5. Cascaded'
  <2> HIDE DEF d
  <2>1. \A v \in Uids : holds'[v].live => holds[v].live
    BY <1>2, <1>3, <1>4
  <2> QED
    BY <1>1, <2>1 DEF Serves, Cascaded
<1>6. CASE End(r) /\ Fault
  BY <1>5, <1>6, EndServes, FaultCounts
<1>7. CASE Becomes(r, q) /\ NoFault /\ holds' = [holds EXCEPT ![u] = d]
  <2>1. q.at = "write" /\ q.reg = req[r].reg /\ q.link = req[r].link /\ q.space = req[r].space /\ q.call = req[r].call
    BY RequestParts DEF Requested
  <2>2. req[r].reg = registry /\ req[r].call.op = "delete"
    BY <1>1 DEF Serves, Latest, Busily, HasRegistry, WorkspacesInv, Asked, CascadeDeletes
  <2> HIDE DEF q, d
  <2>3. req'[r] = q
    BY <1>7, Moved
  <2>4. holds'[u] = d
    BY <1>2, <1>7
  <2>5. Latest(req[r])' /\ Busily(req[r])'
    BY <1>1, <1>3, <2>1, <2>2, <2>3, <2>4 DEF Latest, Busily, HasRegistry, HasProjects, Adding
  <2>6. ASSUME wfaults' = 0 PROVE Due(req[r])'
    <3>1. Due(req[r])
      BY <1>1, <1>7, <2>6 DEF Serves, Busily, NoFault
    <3>2. Synced /\ req[r].space = {} /\ req[r].link = LinksOf(u, holds[u].list)
      BY <1>1, <3>1 DEF Due
    <3>3. \A l \in Link : /\ l \in req[r].link <=> l.ws = u /\ InStock(l)
                          /\ InStock(l)' <=> InStock(l) /\ l.ws # u
      <4>1. \A l \in Link : l.ws \in Uids
        BY DEF Link
      <4>2. \A l \in Link : InStock(l)' <=> IF l.ws = u THEN FALSE ELSE InStock(l)
        BY <1>2, <1>3, <1>7, <2>4, <4>1 DEF InStock
      <4>3. \A l \in Link : l \in req[r].link <=> l.ws = u /\ l.project \in holds[u].list
        BY <1>2, <3>2, LinkOf
      <4> QED
        BY <4>2, <4>3 DEF InStock
    <3>4. req[r].link \subseteq Link
      BY RequestParts DEF Requested
    <3>5. \A l \in Link : l \in links' <=> InStock(l)' \/ l \in req[r].link
      BY <1>1, <3>2, <3>3 DEF Synced, index
    <3>6. \A l \in req[r].link : ~InStock(l)'
      BY <3>3, <3>4
    <3>7. ToWithdraw(req[r])'
      BY <1>1, <2>1, <2>3, <3>2, <3>5, <3>6 DEF ToWithdraw, Synced, index
    <3>8. /\ req'[r].at = "write" /\ req'[r].space = {} /\ req'[r].call.op = "delete"
          /\ req'[r].call.op \notin Showing
      BY <2>1, <2>2, <2>3, <3>2 DEF Showing, Adding, Naming
    <3> QED
      BY <3>7, <3>8 DEF Due, Behind
  <2> QED
    BY <1>5, <2>5, <2>6 DEF Serves
<1> QED
  BY <1>6, <1>7 DEF Cascade

(* Alone, a request writes onto what it has read.                          *)
LEMMA NoConflict ==
    ASSUME WorkspacesInv, NEW r \in Requests, Serves(req[r]), req[r].at = "write"
    PROVE  /\ AcceptsRegistry(req[r].reg) /\ req[r].reg = registry
           /\ HasProjects(req[r]) => /\ AcceptsDocument(req[r].doc, holds[req[r].call.ws])
                                     /\ req[r].doc.list = holds[req[r].call.ws].list
<1>1. Latest(req[r])
  BY DEF Serves, Busily
<1>2. req[r].reg = registry
  BY <1>1 DEF Latest, HasRegistry
<1>3. ASSUME HasProjects(req[r]) PROVE req[r].doc = Copy(holds[req[r].call.ws])
  BY <1>1, <1>3 DEF Latest
<1>4. holds[req[r].call.ws].live => holds[req[r].call.ws].rev # 0
  BY RequestParts DEF WorkspacesInv, DocumentsSane
<1> QED
  BY <1>2, <1>3, <1>4 DEF Copy, AcceptsRegistry, AcceptsDocument

LEMMA WriteRegistryServes ==
    ASSUME WorkspacesInv, NEW r \in Requests, Serves(req[r]), WriteRegistry(r)
    PROVE  Serves(req[r])'
<1> DEFINE c   == req[r].call
           new == [rev |-> registry.rev + 1, list |-> NewRegistry(c, req[r].reg.list)]
           sp  == IF c.op = "delete" THEN {w \in req[r].reg.list : w.uid = c.ws}
                                     ELSE {[uid |-> c.ws, name |-> c.name]}
           q   == [req[r] EXCEPT !.at = "publish", !.space = sp]
<1>1. UNCHANGED holds /\ UNCHANGED index /\ req[r].at = "write" /\ c.op \in Naming \union {"delete"}
  BY DEF WriteRegistry
<1>2. AcceptsRegistry(req[r].reg) /\ req[r].reg = registry /\ WellAsked(c)
  BY <1>1, NoConflict DEF WorkspacesInv, Asked, AllWellAsked
<1>3. registry' = registry \/ registry' = new
  BY DEF WriteRegistry
<1>4. c.op = "delete" => ~holds[c.ws].live
  BY <1>1 DEF Serves, Latest, Busily
<1>5. new.list = NewRegistry(c, registry.list)
  BY <1>2
<1>6. Cascaded'
  <2>1. CASE registry' = registry
    BY <1>1, <2>1 DEF Serves, Cascaded
  <2>2. CASE registry' = new
    <3>1. ASSUME NEW v \in Uids, holds[v].live PROVE Registered(v, NewRegistry(c, registry.list))
      <4>1. PICK w \in registry.list : w.uid = v
        BY <3>1 DEF Serves, Cascaded, Registered
      <4>2. CASE v # c.ws
        BY <4>1, <4>2 DEF NewRegistry, Registered
      <4>3. CASE v = c.ws
        <5>1. c.op \in Naming
          BY <1>1, <1>4, <3>1, <4>3
        <5> DEFINE x == [uid |-> c.ws, name |-> c.name]
        <5>2. x.uid = v /\ x \in NewRegistry(c, registry.list)
          BY <4>3, <5>1 DEF NewRegistry
        <5> QED
          BY <5>2 DEF Registered
      <4> QED
        BY <4>2, <4>3
    <3>2. registry'.list = NewRegistry(c, registry.list)
      BY <1>5, <2>2
    <3> QED
      BY <1>1, <3>1, <3>2 DEF Cascaded, Registered
  <2> QED
    BY <1>3, <2>1, <2>2
<1>7. CASE End(r) /\ Fault
  BY <1>6, <1>7, EndServes, FaultCounts
<1>8. CASE registry' = new /\ Becomes(r, q) /\ NoFault
  <2>1. q.at = "publish" /\ q.space = sp /\ q.link = req[r].link /\ q.call = c
    BY RequestParts DEF Requested
  <2>2. registry'.list = NewRegistry(c, registry.list)
    BY <1>5, <1>8
  <2> HIDE DEF q, new
  <2>3. req'[r] = q
    BY <1>8, Moved
  <2>4. Latest(req[r])' /\ Busily(req[r])'
    BY <2>1, <2>3 DEF Latest, Busily, HasRegistry, HasProjects
  <2>5. registry.list \subseteq Workspace /\ spaces \subseteq Workspace
    BY RequestParts DEF Registry
  <2>6. ASSUME wfaults' = 0 PROVE Due(req[r])'
    <3>1. Due(req[r]) /\ wfaults = 0
      BY <1>1, <1>8, <2>6 DEF Serves, Busily, NoFault
    <3>2. Behind(req[r]) /\ req[r].space = {}
      BY <1>1, <3>1 DEF Due
    <3>3. CASE c.op = "delete"
      <4>1. c.op \notin Showing /\ c.op \notin Naming
        BY <3>3 DEF Showing, Adding, Naming
      <4>2. registry'.list = {w \in registry.list : w.uid # c.ws} /\ sp = {w \in registry.list : w.uid = c.ws}
        BY <1>2, <2>2, <3>3, <4>1 DEF NewRegistry
      <4>3. ToWithdraw(req[r])
        BY <3>2, <4>1 DEF Behind
      <4>4. spaces = registry.list
        BY <3>2, <4>3 DEF ToWithdraw
      <4>5. registry'.list \subseteq spaces /\ spaces \subseteq registry'.list \union sp
        BY <4>2, <4>4
      <4>6. (\A w \in sp : w.uid = c.ws) /\ ~Registered(c.ws, registry'.list)
        BY <4>2 DEF Registered
      <4>7. /\ \A l \in Link : l \in links <=> InStock(l) \/ l \in req[r].link
            /\ \A l \in req[r].link : ~InStock(l)
        BY <4>3 DEF ToWithdraw
      <4> HIDE DEF sp
      <4>8. ToWithdraw(req[r])'
        BY <1>1, <2>1, <2>3, <4>5, <4>6, <4>7 DEF ToWithdraw, index, InStock
      <4> QED
        BY <2>1, <2>3, <4>1, <4>8 DEF Due, Behind
    <3>4. CASE c.op \in Naming
      <4>1. c.op \in Showing /\ c.op # "delete"
        BY <3>4 DEF Showing, Naming
      <4> DEFINE x0 == [uid |-> c.ws, name |-> c.name]
      <4>2. registry'.list = {w \in registry.list : w.uid # c.ws} \union {x0} /\ sp = {x0} /\ x0.uid = c.ws
        BY <2>2, <3>4, <4>1 DEF NewRegistry
      <4> HIDE DEF x0, sp
      <4>3. ToShow(req[r])
        BY <3>2, <4>1 DEF Behind
      <4>4. \A x \in Workspace : x \in registry.list <=> x \in spaces
        BY <3>2, <4>3 DEF ToShow
      <4>5. \A x \in Workspace : IF x.uid = c.ws /\ sp # {} THEN x \in registry'.list <=> x \in sp
                                                            ELSE x \in registry'.list <=> x \in spaces
        BY <4>2, <4>4
      <4>6. \A w, x \in sp : w = x /\ w.uid = c.ws
        BY <4>2
      <4>7. \A l \in Link : InStock(l) <=> l \in links \union req[r].link
        BY <4>3 DEF ToShow
      <4>8. ToShow(req[r])'
        BY <1>1, <2>1, <2>3, <4>5, <4>6, <4>7 DEF ToShow, index, InStock
      <4> QED
        BY <2>1, <2>3, <4>1, <4>8 DEF Due, Behind
    <3> QED
      BY <1>1, <3>3, <3>4
  <2> QED
    BY <1>6, <2>4, <2>6 DEF Serves
<1> QED
  BY <1>2, <1>7, <1>8 DEF WriteRegistry

LEMMA WriteProjectsServes ==
    ASSUME WorkspacesInv, NEW r \in Requests, Serves(req[r]), WriteProjects(r)
    PROVE  Serves(req[r])'
<1> DEFINE c     == req[r].call
           u     == c.ws
           added == Added(r, c, req[r].doc.list)
           d     == [rev  |-> holds[u].rev + 1, live |-> TRUE,
                     list |-> (req[r].doc.list \ c.gone) \union added]
           k     == LinksOf(u, added \union c.gone)
           q     == [req[r] EXCEPT !.at = "publish", !.link = k]
<1>1. UNCHANGED registry /\ UNCHANGED index /\ req[r].at = "write" /\ c.op \in Adding \union {"remove"}
  BY DEF WriteProjects
<1>2. HasProjects(req[r])
  BY <1>1 DEF HasProjects
<1>3. /\ AcceptsDocument(req[r].doc, holds[u]) /\ req[r].reg = registry /\ req[r].doc.list = holds[u].list
      /\ WellAsked(c) /\ RegistryCopy(req[r], registry) /\ ProjectsCopy(req[r], holds[u])
  BY <1>1, <1>2, NoConflict DEF WorkspacesInv, Asked, AllWellAsked, RegistryCopies, ProjectsCopies, HasRegistry
<1>4. holds \in [Uids -> Document] /\ u \in Uids /\ holds[u].list \in SUBSET Association
  BY RequestParts, TypedParts DEF WorkspacesInv, Document
<1>5. holds' = holds \/ holds' = [holds EXCEPT ![u] = d]
  BY DEF WriteProjects
<1>6. Registered(u, registry.list)
  BY <1>1, <1>3 DEF RegistryCopy, Permits, Adding
<1>7. added \in SUBSET Association /\ c.gone \in SUBSET Association
  BY RequestParts, AddedTyped DEF Calls
<1>8. Cascaded'
  <2> HIDE DEF d
  <2>1. \A v \in Uids : v # u => holds'[v] = holds[v]
    BY <1>4, <1>5
  <2> QED
    BY <1>1, <1>6, <2>1 DEF Serves, Cascaded
<1>9. CASE End(r) /\ Fault
  BY <1>8, <1>9, EndServes, FaultCounts
<1>10. CASE holds' = [holds EXCEPT ![u] = d] /\ Becomes(r, q) /\ NoFault
  <2>1. q.at = "publish" /\ q.space = req[r].space /\ q.link = k /\ q.call = c
    BY RequestParts DEF Requested
  <2>2. d.list = (holds[u].list \ c.gone) \union added
    BY <1>3
  <2> HIDE DEF q, d, added
  <2>3. req'[r] = q
    BY <1>10, Moved
  <2>4. Latest(req[r])' /\ Busily(req[r])'
    BY <2>1, <2>3 DEF Latest, Busily, HasRegistry, HasProjects
  <2>5. ASSUME wfaults' = 0 PROVE Due(req[r])'
    <3>1. wfaults = 0
      BY <1>10, <2>5 DEF NoFault
    <3>2. Synced /\ req[r].space = {} /\ req[r].link = {}
      BY <1>1, <3>1, SyncedBefore DEF Adding
    <3>3. \A l \in Link : /\ l \in k <=> l.ws = u /\ (l.project \in added \/ l.project \in c.gone)
                          /\ InStock(l)' <=> IF l.ws = u THEN \/ InStock(l) /\ l.project \notin c.gone
                                                              \/ l.project \in added
                                                         ELSE InStock(l)
      <4>1. \A l \in Link : l.ws \in Uids
        BY DEF Link
      <4>2. \A l \in Link : l \in k <=> l.ws = u /\ l.project \in added \union c.gone
        BY <1>4, <1>7, LinkOf
      <4>3. holds'[u] = d /\ \A v \in Uids : v # u => holds'[v] = holds[v]
        BY <1>4, <1>10
      <4>4. \A l \in Link : InStock(l)' <=> IF l.ws = u THEN l.project \in (holds[u].list \ c.gone) \union added
                                                       ELSE InStock(l)
        BY <2>2, <4>1, <4>3 DEF InStock
      <4> QED
        BY <4>2, <4>4 DEF InStock
    <3>4. k \subseteq Link
      BY <1>4, <1>7 DEF LinksOf, Link
    <3> HIDE DEF k
    <3>5. spaces' = registry'.list /\ req'[r].space = {}
      BY <1>1, <2>1, <2>3, <3>2 DEF Synced, index
    <3>6. CASE c.op \in Adding
      <4>1. c.gone = {} /\ c.op \in Showing
        BY <1>3, <3>6 DEF WellAsked, Showing
      <4>2. \A l \in Link : InStock(l)' <=> l \in links' \union k
        BY <1>1, <3>2, <3>3, <4>1 DEF Synced, index
      <4>3. ToShow(req[r])'
        BY <2>1, <2>3, <3>5, <4>2 DEF ToShow
      <4> QED
        BY <2>1, <2>3, <4>1, <4>3 DEF Due, Behind
    <3>7. CASE c.op = "remove"
      <4>1. c.slugs = {} /\ c.op \notin Showing /\ c.gone \subseteq holds[u].list
        BY <1>3, <3>7 DEF WellAsked, Showing, Adding, Naming, ProjectsCopy
      <4>2. added = {}
        BY <4>1 DEF added, Added
      <4>3. \A l \in Link : /\ l \in k => l.ws = u /\ l.project \in c.gone /\ InStock(l) /\ ~InStock(l)'
                            /\ l \notin k => (InStock(l)' <=> InStock(l))
        BY <3>3, <4>1, <4>2 DEF InStock
      <4>4. /\ \A l \in Link : l \in links' <=> InStock(l)' \/ l \in k
            /\ \A l \in k : ~InStock(l)'
        BY <1>1, <3>2, <3>4, <4>3 DEF Synced, index
      <4>5. ToWithdraw(req[r])'
        BY <2>1, <2>3, <3>5, <4>4 DEF ToWithdraw
      <4> QED
        BY <2>1, <2>3, <4>1, <4>5 DEF Due, Behind
    <3> QED
      BY <1>1, <3>6, <3>7
  <2> QED
    BY <1>8, <2>4, <2>5 DEF Serves
<1> QED
  BY <1>3, <1>9, <1>10 DEF WriteProjects

(* A message goes out: a request that has published everything ends, and   *)
(* the index lacks nothing.                                                *)
LEMMA PublishedServes ==
    ASSUME WorkspacesInv, WorkspacesInv', NEW r \in Requests, NEW q, Published(r, q),
           q.at = "publish", Cascaded',
           wfaults' = 0 =>
             /\ q.call.op \in Showing =>
                  /\ \A l \in Link : InStock(l)' <=> l \in links' \union q.link
                  /\ \A x \in Workspace :
                        IF x.uid = q.call.ws /\ q.space # {}
                          THEN x \in registry'.list <=> x \in q.space
                          ELSE x \in registry'.list <=> x \in spaces'
                  /\ \A w, x \in q.space : w = x /\ w.uid = q.call.ws
             /\ q.call.op \notin Showing =>
                  /\ \A l \in Link : l \in links' <=> InStock(l)' \/ l \in q.link
                  /\ \A l \in q.link : ~InStock(l)'
                  /\ registry'.list \subseteq spaces'
                  /\ spaces' \subseteq registry'.list \union q.space
                  /\ \A w \in q.space : w.uid = q.call.ws
                  /\ q.space # {} => ~Registered(q.call.ws, registry'.list)
    PROVE  Serves(req[r])'
<1>1. CASE q.space = {} /\ q.link = {} /\ End(r)
  <2>1. registry'.list \subseteq Workspace /\ spaces' \subseteq Workspace
    BY TypedParts DEF WorkspacesInv, WTypeOK
  <2>2. ASSUME wfaults' = 0 PROVE Synced'
    <3>1. CASE q.call.op \in Showing
      BY <1>1, <2>1, <2>2, <3>1 DEF Synced
    <3>2. CASE q.call.op \notin Showing
      BY <1>1, <2>1, <2>2, <3>2 DEF Synced
    <3> QED
      BY <3>1, <3>2
  <2> QED
    BY <1>1, <2>2, EndServes
<1>2. CASE Becomes(r, q)
  <2>1. req'[r] = q
    BY <1>2, Moved
  <2>2. Latest(req[r])' /\ Busily(req[r])'
    BY <2>1 DEF Latest, Busily, HasRegistry, HasProjects
  <2>3. ASSUME wfaults' = 0 PROVE Due(req[r])'
    <3>1. CASE q.call.op \in Showing
      <4>1. ToShow(req[r])'
        BY <2>1, <2>3, <3>1 DEF ToShow
      <4> QED
        BY <2>1, <3>1, <4>1 DEF Due, Behind
    <3>2. CASE q.call.op \notin Showing
      <4>1. ToWithdraw(req[r])'
        BY <2>1, <2>3, <3>2 DEF ToWithdraw
      <4> QED
        BY <2>1, <3>2, <4>1 DEF Due, Behind
    <3> QED
      BY <3>1, <3>2
  <2> QED
    BY <2>2, <2>3 DEF Serves
<1> QED
  BY <1>1, <1>2 DEF Published, End

LEMMA PublishWorkspaceServes ==
    ASSUME WorkspacesInv, WorkspacesInv', NEW r \in Requests, Serves(req[r]), PublishWorkspace(r)
    PROVE  Serves(req[r])'
<1>1. UNCHANGED docs /\ UNCHANGED links /\ UNCHANGED wfaults /\ req[r].at = "publish"
  BY DEF PublishWorkspace
<1>2. PICK w \in req[r].space :
        /\ spaces' = {x \in spaces : x.uid # w.uid}
                       \union (IF req[r].call.op \in Showing THEN {w} ELSE {})
        /\ Published(r, [req[r] EXCEPT !.space = @ \ {w}])
  BY DEF PublishWorkspace
<1> DEFINE q == [req[r] EXCEPT !.space = @ \ {w}]
<1>3. /\ q.at = "publish" /\ q.space = req[r].space \ {w}
      /\ q.link = req[r].link /\ q.call = req[r].call
  BY <1>1, RequestParts DEF Requested
<1> HIDE DEF q
<1>4. Cascaded' /\ \A l : InStock(l)' <=> InStock(l)
  BY <1>1 DEF Serves, Cascaded, docs, InStock
<1>5. registry' = registry /\ links' = links /\ wfaults' = wfaults
  BY <1>1 DEF docs
<1>6. spaces \subseteq Workspace /\ registry.list \subseteq Workspace /\ w \in Workspace
  BY RequestParts DEF Registry, Requested
<1>7. ASSUME wfaults = 0 PROVE Behind(req[r])
  BY <1>1, <1>7 DEF Serves, Busily, Due
<1>8. ASSUME wfaults = 0, req[r].call.op \in Showing
      PROVE  /\ \A l \in Link : InStock(l) <=> l \in links \union q.link
             /\ q.space = {}
             /\ \A x \in Workspace : x \in registry.list <=> x \in spaces'
  <2>1. ToShow(req[r])
    BY <1>7, <1>8 DEF Behind
  <2>2. req[r].space = {w} /\ w.uid = req[r].call.ws
    BY <2>1 DEF ToShow
  <2>3. \A x \in Workspace : x \in spaces' <=> (x \in spaces /\ x.uid # w.uid) \/ x = w
    BY <1>2, <1>6, <1>8
  <2>4. \A x \in Workspace : IF x.uid = w.uid THEN x \in registry.list <=> x = w
                                              ELSE x \in registry.list <=> x \in spaces
    BY <2>1, <2>2 DEF ToShow
  <2> QED
    BY <1>3, <2>1, <2>2, <2>3, <2>4 DEF ToShow
<1>9. ASSUME wfaults = 0, req[r].call.op \notin Showing
      PROVE  /\ \A l \in Link : l \in links <=> InStock(l) \/ l \in q.link
             /\ \A l \in q.link : ~InStock(l)
             /\ registry.list \subseteq spaces'
             /\ spaces' \subseteq registry.list \union q.space
             /\ \A x \in q.space : x.uid = q.call.ws
             /\ q.space # {} => ~Registered(q.call.ws, registry.list)
  <2>1. ToWithdraw(req[r])
    BY <1>7, <1>9 DEF Behind
  <2>2. w.uid = req[r].call.ws /\ \A x \in registry.list : x.uid # w.uid
    BY <2>1 DEF ToWithdraw, Registered
  <2>3. spaces' = {x \in spaces : x.uid # w.uid}
    BY <1>2, <1>9
  <2> QED
    BY <1>3, <2>1, <2>2, <2>3 DEF ToWithdraw
<1>10. Published(r, q)
  BY <1>2 DEF q
<1> QED
  BY <1>3, <1>4, <1>5, <1>8, <1>9, <1>10, PublishedServes

LEMMA PublishProjectServes ==
    ASSUME WorkspacesInv, WorkspacesInv', NEW r \in Requests, Serves(req[r]), PublishProject(r)
    PROVE  Serves(req[r])'
<1>1. /\ UNCHANGED docs /\ UNCHANGED spaces /\ UNCHANGED wfaults
      /\ req[r].at = "publish" /\ req[r].space = {}
  BY DEF PublishProject
<1>2. PICK k \in req[r].link :
        /\ links' = (links \ {k}) \union (IF req[r].call.op \in Showing THEN {k} ELSE {})
        /\ Published(r, [req[r] EXCEPT !.link = @ \ {k}])
  BY DEF PublishProject
<1> DEFINE q == [req[r] EXCEPT !.link = @ \ {k}]
<1>3. /\ q.at = "publish" /\ q.space = {}
      /\ q.link = req[r].link \ {k} /\ q.call = req[r].call
  BY <1>1, RequestParts DEF Requested
<1> HIDE DEF q
<1>4. Cascaded' /\ \A l : InStock(l)' <=> InStock(l)
  BY <1>1 DEF Serves, Cascaded, docs, InStock
<1>5. registry' = registry /\ spaces' = spaces /\ wfaults' = wfaults
  BY <1>1 DEF docs
<1>6. k \in Link
  BY RequestParts DEF Requested
<1>7. ASSUME wfaults = 0 PROVE Behind(req[r])
  BY <1>1, <1>7 DEF Serves, Busily, Due
<1>8. ASSUME wfaults = 0, req[r].call.op \in Showing
      PROVE  /\ \A l \in Link : InStock(l) <=> l \in links' \union q.link
             /\ \A x \in Workspace : x \in registry.list <=> x \in spaces
  <2>1. ToShow(req[r])
    BY <1>7, <1>8 DEF Behind
  <2>2. links' \union q.link = links \union req[r].link
    BY <1>2, <1>3, <1>8
  <2> QED
    BY <1>1, <2>1, <2>2 DEF ToShow
<1>9. ASSUME wfaults = 0, req[r].call.op \notin Showing
      PROVE  /\ \A l \in Link : l \in links' <=> InStock(l) \/ l \in q.link
             /\ \A l \in q.link : ~InStock(l)
             /\ registry.list \subseteq spaces
             /\ spaces \subseteq registry.list
  <2>1. ToWithdraw(req[r])
    BY <1>7, <1>9 DEF Behind
  <2>2. links' = links \ {k}
    BY <1>2, <1>9
  <2> QED
    BY <1>1, <1>2, <1>3, <2>1, <2>2 DEF ToWithdraw
<1>10. Published(r, q)
  BY <1>2 DEF q
<1> QED
  BY <1>3, <1>4, <1>5, <1>8, <1>9, <1>10, PublishedServes

(* A lost message, and a request that is abandoned, are failures.          *)
LEMMA FailureServes ==
    ASSUME WorkspacesInv, WorkspacesInv', NEW r \in Requests, Serves(req[r]),
           PublishFails(r) \/ Abandon(r)
    PROVE  Serves(req[r])'
<1>1. UNCHANGED docs /\ UNCHANGED index /\ Fault
  BY DEF PublishFails, Abandon
<1>2. Cascaded' /\ wfaults' # 0
  BY <1>1, AsStored, FaultCounts DEF Serves
<1>3. CASE End(r)
  BY <1>2, <1>3, EndServes
<1>4. ASSUME NEW q, Published(r, q), q.at = "publish" PROVE Serves(req[r])'
  BY <1>2, <1>4, PublishedServes
<1>5. CASE PublishFails(r)
  <2>1. req[r].at = "publish"
    BY <1>5 DEF PublishFails
  <2>2. \A x : /\ [req[r] EXCEPT !.space = @ \ {x}].at = "publish"
               /\ [req[r] EXCEPT !.link = @ \ {x}].at = "publish"
    BY <2>1, RequestParts DEF Requested
  <2> QED
    BY <1>4, <1>5, <2>2 DEF PublishFails
<1> QED
  BY <1>3, <1>5 DEF Abandon

LEMMA StepServes ==
    ASSUME WorkspacesInv, WorkspacesInv', NEW r \in Requests, Serves(req[r]),
           Use(r) \/ Handle(r) \/ Abandon(r)
    PROVE  Serves(req[r])'
BY UseServes, ReadRegistryServes, ReadProjectsServes, NoteProjectsServes, CascadeServes,
   WriteRegistryServes, WriteProjectsServes, PublishWorkspaceServes, PublishProjectServes,
   FailureServes DEF Handle

(* A step is one request's, and only a client's call makes it busy.        *)
LEMMA StepsAlone ==
    ASSUME WorkspacesInv, NEW r \in Requests, Use(r) \/ Handle(r) \/ Abandon(r)
    PROVE  /\ \A p \in Requests \ {r} : req'[p] = req[p]
           /\ ~Busily(req[r]) => Busily(req[r])'
<1>1. ASSUME NEW q, Becomes(r, q) PROVE \A p \in Requests \ {r} : req'[p] = req[p]
  BY <1>1, Moved
<1>2. CASE Use(r)
  <2>1. PICK c \in Calls : Becomes(r, [Rest("registry") EXCEPT !.call = c])
    BY <1>2, UseAsks DEF WorkspacesInv
  <2>2. req'[r] = [Rest("registry") EXCEPT !.call = c]
    BY <2>1, Moved
  <2>3. Busily(req[r])'
    BY <2>2 DEF Rest, Busily
  <2> QED
    BY <1>1, <2>1, <2>3
<1>3. CASE Handle(r)
  <2>1. Busily(req[r])
    BY <1>3 DEF Handle, ReadRegistry, ReadProjects, NoteProjects, Cascade, WriteRegistry,
                WriteProjects, PublishWorkspace, PublishProject, PublishFails, Busily
  <2>2. \E q : Becomes(r, q)
    BY <1>3 DEF Handle, ReadRegistry, ReadProjects, NoteProjects, Cascade, WriteRegistry,
                WriteProjects, PublishWorkspace, PublishProject, PublishFails, Published, End
  <2> QED
    BY <1>1, <2>1, <2>2
<1>4. CASE Abandon(r)
  BY <1>1, <1>4 DEF Abandon, Busily, End
<1> QED
  BY <1>2, <1>3, <1>4

(* Two of a set that counts at most one are the same.                      *)
LEMMA AtMostOne ==
    ASSUME NEW S, IsFiniteSet(S), Cardinality(S) <= 1, NEW p \in S, NEW r \in S
    PROVE  p = r
<1> SUFFICES ASSUME p # r PROVE FALSE
  OBVIOUS
<1>1. IsFiniteSet({p}) /\ Cardinality({p}) = 1
  BY FS_Singleton
<1>2. IsFiniteSet({p} \union {r}) /\ Cardinality({p} \union {r}) = 2
  <2>1. /\ IsFiniteSet({p} \union {r})
        /\ Cardinality({p} \union {r}) = IF r \in {p} THEN Cardinality({p}) ELSE Cardinality({p}) + 1
    BY ONLY <1>1, FS_AddElement
  <2>2. r \notin {p}
    OBVIOUS
  <2> QED
    BY ONLY <1>1, <2>1, <2>2
<1>3. {p} \union {r} \subseteq S
  OBVIOUS
<1>4. Cardinality({p} \union {r}) <= Cardinality(S)
  BY <1>3, FS_Subset
<1>5. Cardinality(S) \in Nat
  BY FS_CardinalityType
<1> QED
  BY <1>2, <1>4, <1>5

LEMMA AloneStep ==
    ASSUME WorkspacesInv, AloneInv, WNext, Cardinality(Busy') <= 1
    PROVE  AloneInv'
<1>1. PICK r \in Requests : Use(r) \/ Handle(r) \/ Abandon(r)
  BY DEF WNext
<1>2. WorkspacesInv'
  BY WorkspacesStep
<1>3. /\ \A p \in Requests \ {r} : req'[p] = req[p]
      /\ ~Busily(req[r]) => Busily(req[r])'
  BY <1>1, StepsAlone
<1>4. \A p \in Requests \ {r} : Busily(req'[p]) <=> Busily(req[p])
  BY <1>3
<1>5. IsFiniteSet(Busy')
  <2>1. \E p \in Requests : Busy' \subseteq {p} \union {r}
    <3>1. CASE \E p \in Requests \ {r} : Busily(req[p])
      <4>1. PICK p \in Requests \ {r} : Busily(req[p])
        BY <3>1
      <4>2. \A x \in Requests : Busily(req'[x]) => x = p \/ x = r
        BY <1>4, <4>1 DEF AloneInv
      <4> QED
        BY <4>2 DEF Busy, Busily
    <3>2. CASE ~ \E p \in Requests \ {r} : Busily(req[p])
      <4>1. \A x \in Requests : Busily(req'[x]) => x = r
        BY <1>4, <3>2
      <4> QED
        BY <4>1 DEF Busy, Busily
    <3> QED
      BY <3>1, <3>2
  <2>2. PICK p \in Requests : Busy' \subseteq {p} \union {r}
    BY <2>1
  <2>3. IsFiniteSet({p}) /\ IsFiniteSet({p} \union {r})
    BY FS_Singleton, FS_AddElement
  <2> QED
    BY <2>2, <2>3, FS_Subset
<1>6. \A p, x \in Requests : Busily(req'[p]) /\ Busily(req'[x]) => p = x
  <2>1. ASSUME NEW p \in Requests, NEW x \in Requests, Busily(req'[p]), Busily(req'[x])
        PROVE  p = x
    <3>1. p \in Busy' /\ x \in Busy'
      BY <2>1 DEF Busy, Busily
    <3> QED
      BY <1>5, <3>1, AtMostOne
  <2> QED
    BY <2>1
<1>7. \A p \in Requests \ {r} : ~Busily(req[p]) /\ ~Busily(req'[p])
  <2> SUFFICES ASSUME NEW p \in Requests \ {r}, Busily(req[p]) PROVE FALSE
    BY <1>4
  <2>1. Busily(req'[p])
    BY <1>4
  <2>2. ~Busily(req[r])
    BY DEF AloneInv
  <2>3. Busily(req'[r])
    BY <1>3, <2>2
  <2> QED
    BY <1>6, <2>1, <2>3
<1>8. Serves(req[r])
  <2>1. CASE Busily(req[r])
    BY <2>1 DEF AloneInv
  <2>2. CASE ~Busily(req[r])
    BY <1>7, <2>2 DEF AloneInv, Serves
  <2> QED
    BY <2>1, <2>2
<1>9. Serves(req[r])'
  BY <1>1, <1>2, <1>8, StepServes
<1>10. Cascaded' /\ (wfaults' = 0 /\ ~Busily(req[r])' => Synced')
  BY <1>9 DEF Serves
<1>11. \A p \in Requests : Busily(req[p])' => Serves(req[p])'
  BY <1>7, <1>9
<1> QED
  BY <1>6, <1>10, <1>11 DEF AloneInv

LEMMA AloneInit == ASSUME WInit PROVE AloneInv
<1>1. \A r \in Requests : ~Busily(req[r])
  BY DEF WInit, Busily, Idle, Rest
<1>2. Cascaded /\ Synced
  <2>1. CASE /\ registry = [rev |-> 0, list |-> {}] /\ holds = [u \in Uids |-> Blank]
             /\ spaces = {} /\ links = {}
    <3>1. \A u \in Uids : ~holds[u].live /\ holds[u].list = {}
      BY <2>1 DEF Blank
    <3> QED
      BY <2>1, <3>1 DEF Cascaded, Synced, InStock, Link
  <2>2. ASSUME NEW n \in Names, NEW s \in Slugs,
               registry = [rev |-> 1, list |-> {[uid |-> Home, name |-> n]}],
               holds = [u \in Uids |-> IF u = Home
                          THEN [rev |-> 1, live |-> TRUE, list |-> {[uid |-> Home, slug |-> s]}]
                          ELSE Blank],
               spaces = registry.list,
               links = LinksOf(Home, {[uid |-> Home, slug |-> s]})
        PROVE  Cascaded /\ Synced
    <3> DEFINE list == {[uid |-> Home, slug |-> s]}
    <3>1. Home \in Uids /\ list \in SUBSET Association
      BY DEF Uids, Association
    <3>2. \A u \in Uids : /\ holds[u].live <=> u = Home
                          /\ holds[u].list = IF u = Home THEN list ELSE {}
      BY <2>2 DEF Blank
    <3>3. Registered(Home, registry.list)
      BY <2>2 DEF Registered
    <3>4. Cascaded
      BY <3>2, <3>3 DEF Cascaded
    <3> HIDE DEF list
    <3>5. links = LinksOf(Home, list)
      BY <2>2 DEF list
    <3>6. \A l \in Link : l \in links <=> l.ws = Home /\ l.project \in list
      BY <3>1, <3>5, LinkOf
    <3>7. \A l \in Link : InStock(l) <=> l.ws = Home /\ l.project \in list
      BY <3>2 DEF InStock, Link
    <3> QED
      BY <2>2, <3>4, <3>6, <3>7 DEF Synced
  <2> QED
    BY <2>1, <2>2 DEF WInit
<1> QED
  BY <1>1, <1>2 DEF AloneInv

(* What the invariant says of the index, in the words of the property.     *)
LEMMA SyncedIndexed ==
    ASSUME WorkspacesInv, AloneInv
    PROVE  Cascaded /\ Indexed
<1>1. Cascaded
  BY DEF AloneInv
<1>2. ASSUME wfaults = 0, \A r \in Requests : req[r].at \in {"idle", "ended"}
      PROVE  /\ spaces = registry.list
             /\ links = UNION {LinksOf(u, holds[u].list) : u \in Uids}
  <2>1. Synced
    BY <1>2 DEF AloneInv, Busily
  <2>2. \A u \in Uids : holds[u].list \in SUBSET Association
    BY TypedParts DEF WorkspacesInv, Document
  <2> DEFINE stored == UNION {LinksOf(u, holds[u].list) : u \in Uids}
  <2>3. \A l : l \in stored <=> \E u \in Uids : l \in LinksOf(u, holds[u].list)
    OBVIOUS
  <2>4. \A u \in Uids : LinksOf(u, holds[u].list) \subseteq Link
    BY <2>2 DEF LinksOf, Link
  <2>5. \A l \in Link : l \in stored <=> InStock(l)
    <3> HIDE DEF stored
    <3>1. ASSUME NEW l \in Link PROVE (\E u \in Uids : l \in LinksOf(u, holds[u].list)) <=> InStock(l)
      <4>1. l.ws \in Uids
        BY DEF Link
      <4>2. \A u \in Uids : l \in LinksOf(u, holds[u].list) <=> l.ws = u /\ l.project \in holds[u].list
        BY <2>2, LinkOf
      <4> QED
        BY <4>1, <4>2 DEF InStock
    <3> QED
      BY <2>3, <3>1
  <2>6. stored \subseteq Link
    BY <2>4
  <2>7. links \subseteq Link /\ \A l \in Link : l \in links <=> InStock(l)
    BY <2>1, TypedParts DEF Synced, WorkspacesInv
  <2> HIDE DEF stored
  <2>8. links = stored
    BY <2>5, <2>6, <2>7
  <2> QED
    BY <2>1, <2>8 DEF Synced, stored
<1> QED
  BY <1>1, <1>2 DEF Indexed

(* The instance that keeps apart the requests that come one after another. *)
LEMMA AloneInductive == MCSpec => [](WorkspacesInv /\ (alone => AloneInv))
<1> DEFINE Inv == WorkspacesInv /\ (alone => AloneInv)
<1>1. MCInit => Inv
  BY WorkspacesInit, AloneInit DEF MCInit
<1>2. ASSUME Inv, [MCNext]_allvars PROVE Inv'
  <2>1. CASE UNCHANGED wvars /\ UNCHANGED alone
    <3>1. WorkspacesInv'
      BY <1>2, <2>1, WorkspacesStep
    <3>2. AloneInv => AloneInv'
      BY <2>1 DEF AloneInv, wvars, docs, index, Serves, Latest, Due, Behind, ToShow, ToWithdraw,
                  Synced, InStock, Cascaded
    <3> QED
      BY <1>2, <2>1, <3>1, <3>2
  <2>2. CASE WorkspacesNext /\ UNCHANGED alone
    <3>1. WorkspacesInv' /\ WNext
      BY <1>2, <2>2, WorkspacesStep DEF WorkspacesNext
    <3>2. ASSUME alone PROVE AloneInv'
      BY <1>2, <2>2, <3>1, <3>2, AloneStep DEF WorkspacesNext
    <3> QED
      BY <2>2, <3>1, <3>2
  <2> QED
    BY <1>2, <2>1, <2>2 DEF MCNext, allvars
<1> QED
  BY <1>1, <1>2, PTL DEF MCSpec

(* When requests come one after another, a workspace that was deleted      *)
(* leaves no projects, whichever call fails (DeleteWorkspace, which        *)
(* cascades before it writes the registry).                                *)
THEOREM DeletedLeavesNothing == MCSpec => []CascadedAlone
<1>1. WorkspacesInv /\ (alone => AloneInv) => CascadedAlone
  BY DEF AloneInv, CascadedAlone
<1> QED
  BY <1>1, AloneInductive, PTL

(* When requests come one after another and no call fails, the index shows *)
(* what is stored as soon as none is under way.                            *)
THEOREM IndexFollows == MCSpec => []IndexedAlone
<1>1. WorkspacesInv /\ (alone => AloneInv) => IndexedAlone
  BY SyncedIndexed DEF IndexedAlone
<1> QED
  BY <1>1, AloneInductive, PTL

----------------------------------------------------------------------------
(***************************************************************************)
(* A cache entry, for any number of overlapping reads and any number of    *)
(* changes: type correctness, that a fetch in flight does not undo an      *)
(* eviction, and that an older value never replaces a newer one.           *)
(*                                                                         *)
(* Every message on the key takes a new revision, so the write of a reader *)
(* matches only when nothing was written since its read; and the bucket    *)
(* drops the message, which makes revision 0 match again, only after every *)
(* fetch that saw the key empty has ended.                                 *)
(***************************************************************************)
Reader == [at : {"idle", "history", "fetch", "write"}, rev : Nat, val : Nat]

(* A value about to be written where it matches is recent enough.          *)
Recent(q) == q.at = "write" /\ q.rev = entry.rev => q.val >= evicted /\ q.val >= cached

CacheInv ==
    /\ CTypeOK
    /\ evicted <= version
    /\ cached <= version
    /\ entry.rev <= seq
    /\ EvictionHolds
    /\ \A r \in Readers : /\ reader[r].rev <= seq
                          /\ reader[r].val <= version
                          /\ Recent(reader[r])

----------------------------------------------------------------------------
LEMMA Typed ==
    CTypeOK <=> /\ version \in Nat /\ seq \in Nat /\ evicted \in Nat /\ cached \in Nat
                /\ entry \in Entries
                /\ reader \in [Readers -> Reader]
BY DEF CTypeOK, Reader

LEMMA EntryTyped == ASSUME CacheInv PROVE entry.kind \in {"none", "put", "marker"} /\ entry.rev \in Nat /\ entry.val \in Nat
BY DEF CacheInv, CTypeOK, Entries

LEMMA ReaderTyped ==
    ASSUME CacheInv, NEW r \in Readers
    PROVE  /\ reader[r] \in Reader /\ reader[r].rev \in Nat /\ reader[r].val \in Nat
           /\ reader[r].rev <= seq /\ reader[r].val <= version /\ Recent(reader[r])
BY Typed DEF CacheInv, Reader

(* One reader moves and the entry stays.                                   *)
LEMMA ReaderMoves ==
    ASSUME CacheInv, NEW r \in Readers, NEW q \in Reader, Reads(r, q),
           q.rev <= seq, q.val <= version, Recent(q),
           UNCHANGED <<version, entry, seq, evicted, cached>>
    PROVE  CacheInv'
<1>1. reader' \in [Readers -> Reader] /\ \A p \in Readers : reader'[p] = IF p = r THEN q ELSE reader[p]
  BY Typed DEF CacheInv, Reads
<1>2. CTypeOK'
  BY <1>1, Typed DEF CacheInv, CTypeOK, Reader
<1>3. ASSUME NEW p \in Readers
      PROVE  reader'[p].rev <= seq' /\ reader'[p].val <= version' /\ Recent(reader[p])'
  BY <1>1, ReaderTyped DEF Recent
<1> QED
  BY <1>2, <1>3 DEF CacheInv, EvictionHolds

(* A new message on the key: no reader has seen its revision.              *)
LEMMA NewerRevision ==
    ASSUME CacheInv, NEW p \in Readers, entry'.rev = seq + 1
    PROVE  reader[p].rev # entry'.rev
<1>1. reader[p].rev \in Nat /\ seq \in Nat /\ reader[p].rev <= seq
  BY ReaderTyped DEF CacheInv, CTypeOK
<1> QED
  BY <1>1

LEMMA RestingTyped == Resting \in Reader /\ Resting.at = "idle" /\ Resting.rev = 0 /\ Resting.val = 0
BY DEF Resting, Reader

LEMMA Changes == ASSUME CacheInv, Change PROVE CacheInv'
<1>1. version \in Nat /\ version' = version + 1 /\ evicted \in Nat /\ cached \in Nat
  BY DEF Change, CacheInv, CTypeOK
<1>2. UNCHANGED <<entry, seq, reader, evicted, cached>>
  BY DEF Change
<1>3. evicted' <= version' /\ cached' <= version'
  BY <1>1, <1>2 DEF CacheInv
<1>4. ASSUME NEW p \in Readers PROVE reader'[p].val <= version'
  BY <1>1, <1>2, ReaderTyped
<1>5. CTypeOK'
  BY <1>1, <1>2 DEF CacheInv, CTypeOK
<1> QED
  BY <1>2, <1>3, <1>4, <1>5 DEF CacheInv, EvictionHolds, Recent

LEMMA Evicts == ASSUME CacheInv, Evict PROVE CacheInv'
<1>1. /\ seq \in Nat /\ seq' = seq + 1 /\ seq' \in Nat
      /\ entry' = [kind |-> "marker", rev |-> seq', val |-> 0, age |-> "expired"]
      /\ evicted' = version /\ UNCHANGED <<version, reader, cached>>
  BY DEF Evict, CacheInv, CTypeOK
<1>2. entry' \in Entries /\ entry'.rev = seq + 1 /\ entry'.kind = "marker"
  BY <1>1 DEF Entries, Ages
<1>3. CTypeOK'
  BY <1>1, <1>2 DEF CacheInv, CTypeOK
<1>4. ASSUME NEW p \in Readers PROVE reader'[p].rev <= seq' /\ Recent(reader[p])'
  BY <1>1, <1>2, NewerRevision, ReaderTyped DEF Recent
<1>5. evicted' <= version' /\ entry'.rev <= seq' /\ EvictionHolds'
  BY <1>1, <1>2 DEF EvictionHolds, CacheInv, CTypeOK
<1> QED
  BY <1>1, <1>3, <1>4, <1>5 DEF CacheInv

LEMMA Agings == ASSUME CacheInv, Age PROVE CacheInv'
<1>1. /\ entry' \in Entries /\ entry'.rev = entry.rev /\ entry'.val = entry.val
      /\ entry'.kind = entry.kind
  BY DEF Age, CacheInv, CTypeOK, Entries, Ages
<1>2. UNCHANGED <<version, seq, reader, evicted, cached>>
  BY DEF Age
<1>3. CTypeOK'
  BY <1>1, <1>2 DEF CacheInv, CTypeOK
<1>4. entry'.rev <= seq' /\ EvictionHolds'
  BY <1>1, <1>2 DEF CacheInv, EvictionHolds
<1>5. ASSUME NEW p \in Readers PROVE Recent(reader[p])'
  BY <1>1, <1>2, ReaderTyped DEF Recent
<1> QED
  BY <1>2, <1>3, <1>4, <1>5 DEF CacheInv

LEMMA Drops == ASSUME CacheInv, Drop PROVE CacheInv'
<1>1. /\ entry' = NoEntry /\ UNCHANGED <<version, seq, reader, evicted, cached>>
      /\ \A r \in Readers : reader[r].at = "idle"
  BY DEF Drop
<1>2. entry' \in Entries /\ entry'.rev = 0 /\ entry'.kind = "none"
  BY <1>1 DEF NoEntry, Entries, Ages
<1>3. CTypeOK'
  BY <1>1, <1>2 DEF CacheInv, CTypeOK
<1>4. entry'.rev <= seq' /\ EvictionHolds'
  BY <1>1, <1>2 DEF CacheInv, CTypeOK, EvictionHolds
<1>5. ASSUME NEW p \in Readers PROVE Recent(reader[p])'
  BY <1>1 DEF Recent
<1> QED
  BY <1>1, <1>3, <1>4, <1>5 DEF CacheInv

LEMMA UnderKeeps ==
    ASSUME CacheInv, NEW r \in Readers, NEW s \in {"history", "fetch"},
           NEW rev \in {0, entry.rev}, Under(r, s, rev),
           UNCHANGED <<version, entry, seq, evicted, cached>>
    PROVE  CacheInv'
<1> DEFINE q == [at |-> s, rev |-> rev, val |-> 0]
<1>1. q \in Reader /\ q.rev <= seq /\ q.val <= version /\ Recent(q)
  BY EntryTyped DEF CacheInv, CTypeOK, Reader, Recent
<1> HIDE DEF q
<1> QED
  BY <1>1, ReaderMoves DEF Under, q

LEMMA Gets == ASSUME CacheInv, NEW r \in Readers, Get(r) \/ History(r) PROVE CacheInv'
<1>1. UNCHANGED <<version, entry, seq, evicted, cached>>
  BY DEF Get, History
<1>2. \E s \in {"history", "fetch"}, rev \in {0, entry.rev} : Under(r, s, rev)
  BY DEF Get, History
<1> QED
  BY <1>1, <1>2, UnderKeeps

LEMMA RestsKeeps ==
    ASSUME CacheInv, NEW r \in Readers, Rests(r),
           UNCHANGED <<version, entry, seq, evicted, cached>>
    PROVE  CacheInv'
<1>1. Resting.rev <= seq /\ Resting.val <= version /\ Recent(Resting)
  BY RestingTyped DEF CacheInv, CTypeOK, Recent
<1> QED
  BY <1>1, RestingTyped, ReaderMoves DEF Rests

LEMMA Fetches == ASSUME CacheInv, NEW r \in Readers, Fetch(r) PROVE CacheInv'
<1> DEFINE q == [reader[r] EXCEPT !.at = "write", !.val = version]
<1>1. UNCHANGED <<version, entry, seq, evicted, cached>>
  BY DEF Fetch
<1>2. CASE Reads(r, q)
  <2>1. q \in Reader /\ q.rev = reader[r].rev /\ q.val = version
    BY ReaderTyped DEF Reader, CacheInv, CTypeOK
  <2>2. q.rev <= seq /\ q.val <= version /\ Recent(q)
    BY <2>1, ReaderTyped DEF CacheInv, CTypeOK, Recent
  <2> HIDE DEF q
  <2> QED
    BY <1>1, <1>2, <2>1, <2>2, ReaderMoves
<1>3. CASE Rests(r)
  BY <1>1, <1>3, RestsKeeps
<1> QED
  BY <1>2, <1>3 DEF Fetch

(* What WriteBack writes.                                                  *)
Writes(r) ==
    /\ Matches(reader[r].rev)
    /\ seq' = seq + 1
    /\ entry' = [kind |-> "put", rev |-> seq', val |-> reader[r].val, age |-> "fresh"]
    /\ cached' = reader[r].val

LEMMA WrittenIsRecent ==
    ASSUME CacheInv, NEW r \in Readers, WriteBack(r), Writes(r)
    PROVE  reader[r].val >= evicted /\ reader[r].val >= cached
BY ReaderTyped DEF WriteBack, Writes, Matches, Recent

LEMMA WritesBack == ASSUME CacheInv, NEW r \in Readers, WriteBack(r) PROVE CacheInv'
<1>1. Rests(r) /\ UNCHANGED <<version, evicted>>
  BY DEF WriteBack
<1>2. CASE Writes(r)
  <2>1. seq \in Nat /\ seq' = seq + 1 /\ seq' \in Nat
    BY <1>2 DEF Writes, CacheInv, CTypeOK
  <2>2. /\ entry' \in Entries /\ entry'.rev = seq + 1 /\ entry'.kind = "put"
        /\ entry'.val = reader[r].val /\ cached' = reader[r].val
    BY <1>2, <2>1, ReaderTyped DEF Writes, Entries, Ages
  <2>3. reader' \in [Readers -> Reader] /\ \A p \in Readers : reader'[p] = IF p = r THEN Resting ELSE reader[p]
    BY <1>1, RestingTyped, Typed DEF Rests, Reads, CacheInv
  <2>4. CTypeOK'
    BY <1>1, <2>1, <2>2, <2>3, ReaderTyped DEF CTypeOK, CacheInv, Reader
  <2>5. entry'.rev <= seq' /\ cached' <= version' /\ evicted' <= version' /\ EvictionHolds'
    BY <1>1, <1>2, <2>1, <2>2, WrittenIsRecent, ReaderTyped DEF EvictionHolds, CacheInv
  <2>6. ASSUME NEW p \in Readers
        PROVE  reader'[p].rev <= seq' /\ reader'[p].val <= version' /\ Recent(reader[p])'
    <3>1. CASE p = r
      BY <1>1, <2>1, <2>3, <3>1, RestingTyped DEF Recent, CacheInv, CTypeOK
    <3>2. CASE p # r
      BY <1>1, <2>1, <2>2, <2>3, <3>2, NewerRevision, ReaderTyped DEF Recent
    <3> QED
      BY <3>1, <3>2
  <2> QED
    BY <2>4, <2>5, <2>6 DEF CacheInv
<1>3. CASE UNCHANGED <<seq, entry, cached>>
  BY <1>1, <1>3, RestsKeeps
<1> QED
  BY <1>2, <1>3 DEF WriteBack, Writes

LEMMA CacheInit == CInit => CacheInv
BY RestingTyped DEF CInit, CacheInv, CTypeOK, NoEntry, Entries, Ages, EvictionHolds, Reader, Recent

LEMMA CacheNext == ASSUME CacheInv, [CNext]_cvars PROVE CacheInv'
<1>1. CASE UNCHANGED cvars
  BY <1>1 DEF cvars, CacheInv, CTypeOK, EvictionHolds, Recent
<1> QED
  BY <1>1, Changes, Evicts, Agings, Drops, Gets, Fetches, WritesBack DEF CNext, Read

LEMMA CacheInductive == CSpec => []CacheInv
BY CacheInit, CacheNext, PTL DEF CSpec

(* The entry, its revisions and the readers keep their shape.              *)
THEOREM CacheTypeCorrect == CSpec => []CTypeOK
<1>1. CacheInv => CTypeOK
  BY DEF CacheInv
<1> QED
  BY <1>1, CacheInductive, PTL

(* storage.go: "a stale in-flight fetch cannot undo a CDC eviction".       *)
THEOREM EvictionsHold == CSpec => []EvictionHolds
<1>1. CacheInv => EvictionHolds
  BY DEF CacheInv
<1> QED
  BY <1>1, CacheInductive, PTL

LEMMA StepNotOlder == ASSUME CacheInv, [CNext]_cvars PROVE NotOlder
<1>1. ASSUME NEW r \in Readers, WriteBack(r), Writes(r)
      PROVE  NotOlder
  BY <1>1, WrittenIsRecent DEF NotOlder, Writes
<1>2. \/ \E r \in Readers : WriteBack(r) /\ Writes(r)
      \/ cached' = cached
  BY DEF CNext, cvars, Change, Evict, Age, Drop, Read, Get, History, Fetch, WriteBack, Writes
<1>3. cached \in Nat
  BY DEF CacheInv, CTypeOK
<1> QED
  BY <1>1, <1>2, <1>3 DEF NotOlder

(* Overlapping refreshes never put an older value over a newer one.        *)
THEOREM WritesNeverOlder == CSpec => NeverOlder
BY CacheInductive, StepNotOlder, PTL DEF CSpec, NeverOlder

----------------------------------------------------------------------------
(***************************************************************************)
(* The lock of a full reindex, for any number of requests: one run at a    *)
(* time holds it as long as nothing is lost.                               *)
(***************************************************************************)
LEMMA LossTyped ==
    ASSUME TypeOK, Loss \/ NoLoss
    PROVE  losses' \in 0..MaxLosses
BY LockAssumption DEF TypeOK, Loss, NoLoss

LEMMA GotoTyped ==
    ASSUME TypeOK, NEW r \in Runs,
           NEW s \in {"create", "inspect", "delete", "recreate"} \union Holding \union Ended,
           Goto(r, s)
    PROVE  pc' \in [Runs -> {"create", "inspect", "delete", "recreate"}
                               \union Holding \union Ended]
BY DEF TypeOK, Goto

LEMMA OwnTyped ==
    ASSUME NEW r \in Runs
    PROVE  Own(r) \in Locks /\ NoLock \in Locks
BY DEF Own, Locks, NoLock

LEMMA ExpireTyped ==
    ASSUME TypeOK, lock # NoLock
    PROVE  [lock EXCEPT !.stale = TRUE] \in Locks
BY DEF TypeOK, Locks, NoLock

LEMMA LockNextTyped == ASSUME TypeOK, [Next]_vars PROVE TypeOK'
<1> USE DEF Holding, Ended
<1>1. ASSUME NEW r \in Runs, Create(r) \/ Recreate(r)
      PROVE  TypeOK'
  <2>1. lock' \in Locks
    BY <1>1, OwnTyped DEF Create, Recreate, TypeOK
  <2>2. losses' \in 0..MaxLosses
    BY <1>1, LossTyped DEF Create, Recreate
  <2> QED
    BY <1>1, <2>1, <2>2, GotoTyped DEF Create, Recreate, TypeOK
<1>2. ASSUME NEW r \in Runs, Delete(r) \/ Release(r) \/ Inspect(r)
      PROVE  TypeOK'
  <2>1. lock' \in Locks
    BY <1>2, OwnTyped DEF Delete, Release, Inspect, TypeOK
  <2>2. losses' \in 0..MaxLosses
    BY <1>2, LossTyped DEF Delete, Release, Inspect
  <2> QED
    BY <1>2, <2>1, <2>2, GotoTyped DEF Delete, Release, Inspect, TypeOK
<1>3. ASSUME NEW r \in Runs, RunType(r) \/ Die(r)
      PROVE  TypeOK'
  BY <1>3, LossTyped, GotoTyped DEF RunType, Die, TypeOK
<1>4. CASE Expire
  BY <1>4, LossTyped, ExpireTyped DEF Expire, TypeOK
<1>5. CASE UNCHANGED vars
  BY <1>5 DEF vars, TypeOK
<1> QED
  BY <1>1, <1>2, <1>3, <1>4, <1>5 DEF Next, Run, AcquireFullRunLock

LEMMA LockInitTyped == Init => TypeOK
BY LockAssumption DEF Init, TypeOK, Locks, NoLock, Holding, Ended

(* The lock and the runs keep their shape, for any number of requests.     *)
THEOREM LockTypeCorrect == Spec => []TypeOK
BY LockInitTyped, LockNextTyped, PTL DEF Spec

----------------------------------------------------------------------------
(***************************************************************************)
(* Until something is lost the lock is exactly the holder's.               *)
(***************************************************************************)

(* The entry names the one run that holds the lock, is never stale, and so *)
(* nobody is on the way to force it.                                       *)
Owned ==
    losses = 0 =>
        /\ ~lock.stale
        /\ \A r \in Runs : /\ pc[r] \in Holding => lock = Own(r)
                           /\ pc[r] \notin {"delete", "recreate"}
        /\ lock # NoLock => pc[lock.run] \in Holding

LockInv == TypeOK /\ Owned

LEMMA NextLockInv == ASSUME LockInv, [Next]_vars PROVE LockInv'
<1> SUFFICES Owned'
  BY LockNextTyped DEF LockInv
<1>1. SUFFICES ASSUME losses' = 0
               PROVE  /\ ~lock'.stale
                      /\ \A r \in Runs : /\ pc'[r] \in Holding => lock' = Own(r)
                                         /\ pc'[r] \notin {"delete", "recreate"}
                      /\ lock' # NoLock => pc'[lock'.run] \in Holding
  BY DEF Owned
<1>2. losses \in 0..MaxLosses /\ MaxLosses \in Nat
  BY LockAssumption DEF LockInv, TypeOK
<1>3. ~Loss
  BY <1>1, <1>2 DEF Loss
<1>4. NoLoss
  BY <1>3 DEF Next, Run, AcquireFullRunLock, Create, Inspect, Delete, Recreate, RunType,
              Release, Die, Expire, NoLoss, vars
<1>5. /\ ~lock.stale
      /\ \A r \in Runs : /\ pc[r] \in Holding => lock = Own(r)
                         /\ pc[r] \notin {"delete", "recreate"}
      /\ lock # NoLock => pc[lock.run] \in Holding
      /\ pc \in [Runs -> {"create", "inspect", "delete", "recreate"}
                             \union Holding \union Ended]
  BY <1>1, <1>4 DEF LockInv, TypeOK, Owned, NoLoss
<1>6. ~NoLock.stale
  BY DEF NoLock
<1>7. ASSUME NEW r \in Runs
      PROVE  Own(r) # NoLock /\ ~Own(r).stale /\ Own(r).run = r
  BY LockAssumption DEF Own, NoLock
<1>8. ASSUME NEW r \in Runs, Create(r)
      PROVE  /\ ~lock'.stale
             /\ \A s \in Runs : /\ pc'[s] \in Holding => lock' = Own(s)
                                /\ pc'[s] \notin {"delete", "recreate"}
             /\ lock' # NoLock => pc'[lock'.run] \in Holding
  <2>1. CASE lock = NoLock /\ lock' = Own(r) /\ Goto(r, "running")
    <3>1. \A s \in Runs : pc[s] \notin Holding
      BY <1>5, <1>7, <2>1
    <3>2. pc' = [pc EXCEPT ![r] = "running"] /\ "running" \in Holding
      BY <2>1 DEF Goto, Holding
    <3> QED
      BY <1>5, <1>7, <2>1, <3>1, <3>2
  <2>2. CASE UNCHANGED lock /\ Goto(r, "inspect")
    <3>1. pc' = [pc EXCEPT ![r] = "inspect"] /\ "inspect" \notin Holding /\ pc[r] \notin Holding
      BY <1>8, <2>2 DEF Create, Goto, Holding
    <3> QED
      BY <1>5, <1>7, <2>2, <3>1
  <2> QED
    BY <1>3, <1>8, <2>1, <2>2 DEF Create
<1>9. ASSUME NEW r \in Runs, Inspect(r)
      PROVE  /\ ~lock'.stale
             /\ \A s \in Runs : /\ pc'[s] \in Holding => lock' = Own(s)
                                /\ pc'[s] \notin {"delete", "recreate"}
             /\ lock' # NoLock => pc'[lock'.run] \in Holding
  <2>1. pc' = [pc EXCEPT ![r] = "ended"] /\ lock' = lock
    BY <1>3, <1>5, <1>9 DEF Inspect, Goto
  <2>2. pc[r] \notin Holding /\ "ended" \notin Holding
    BY <1>9 DEF Inspect, Holding
  <2> QED
    BY <1>5, <1>7, <2>1, <2>2
<1>10. ASSUME NEW r \in Runs, RunType(r)
       PROVE  /\ ~lock'.stale
              /\ \A s \in Runs : /\ pc'[s] \in Holding => lock' = Own(s)
                                 /\ pc'[s] \notin {"delete", "recreate"}
              /\ lock' # NoLock => pc'[lock'.run] \in Holding
  <2>1. /\ pc' = [pc EXCEPT ![r] = "releasing"] /\ lock' = lock
        /\ pc[r] \in Holding /\ "releasing" \in Holding
    BY <1>10 DEF RunType, Goto, Holding
  <2> QED
    BY <1>5, <1>7, <2>1
<1>11. ASSUME NEW r \in Runs, Release(r)
       PROVE  /\ ~lock'.stale
              /\ \A s \in Runs : /\ pc'[s] \in Holding => lock' = Own(s)
                                 /\ pc'[s] \notin {"delete", "recreate"}
              /\ lock' # NoLock => pc'[lock'.run] \in Holding
  <2>1. /\ pc' = [pc EXCEPT ![r] = "ended"] /\ lock' = NoLock
        /\ pc[r] \in Holding /\ "ended" \notin Holding
    BY <1>3, <1>11 DEF Release, Goto, Holding
  <2>2. \A s \in Runs : pc[s] \in Holding => s = r
    BY <1>5, <1>7, <2>1
  <2> QED
    BY <1>5, <1>6, <2>1, <2>2
<1>12. \A r \in Runs : ~Delete(r) /\ ~Recreate(r) /\ ~Die(r)
  BY <1>3, <1>5 DEF Delete, Recreate, Die
<1>13. ~Expire
  BY <1>3, <1>5 DEF Expire
<1>14. CASE UNCHANGED vars
  BY <1>5, <1>14 DEF vars
<1> QED
  BY <1>8, <1>9, <1>10, <1>11, <1>12, <1>13, <1>14 DEF Next, Run, AcquireFullRunLock

(* While nothing was lost, kv.Create alone keeps a second run out: nobody  *)
(* finds a stale lock, so the unconditional delete is never reached.       *)
THEOREM LockIsExclusive == Spec => []ExclusiveUntilLoss
<1>1. Init => LockInv
  BY LockInitTyped, LockAssumption DEF Init, LockInv, Owned, NoLock, Holding
<1>2. LockInv /\ [Next]_vars => LockInv'
  BY NextLockInv
<1>3. ASSUME LockInv
      PROVE  ExclusiveUntilLoss
  <2>1. \A r, s \in Runs : Own(r) = Own(s) => r = s
    BY DEF Own
  <2> QED
    BY <1>3, <2>1 DEF LockInv, Owned, ExclusiveUntilLoss, MutualExclusion
<1> QED
  BY <1>1, <1>2, <1>3, PTL DEF Spec

-----------------------------------------------------------------------------
(***************************************************************************)
(* The updates of an organization and the uploads of its logo, for any     *)
(* number of requests and any clock: type correctness, what the condition  *)
(* of a write protects, the ETag of an upload's answer, and, while nothing *)
(* fails, that the shared key serves the logo the record points at and     *)
(* that no delayed copy lands over it; and, for requests that come one     *)
(* after another, that the index was sent the record as it is and that the *)
(* bytes of a logo are never lost.                                         *)
(*                                                                         *)
(* Those about the shared key rest on one invariant, Smooth.  Dates cannot *)
(* tell two uploads apart that committed in the same instant; what can is  *)
(* who owns the record, and how the generations of the others compare with *)
(* the owner's in each round of the arbiter.                               *)
(***************************************************************************)
(* What a step does to the requests. *)
LEMMA NoneTyped == NoOrg \in Orgs /\ NoJob \in Jobs
<1>1. NoOrg \in Orgs
  BY UpdatesAssumption DEF NoOrg, Orgs, Logos, Earlier, Chosen
<1>2. "none" \in Logos
  BY DEF Logos, Earlier
<1> QED
  BY <1>1, <1>2 DEF NoJob, Jobs, Places

(* The requests other than r stay where they are. *)
Alone(r) == \A x \in Callers \ {r} : job'[x] = job[x]

LEMMA MovesTyped ==
    ASSUME OTypeOK, NEW r \in Callers, NEW j \in Jobs, Moves(r, j)
    PROVE  job' \in [Callers -> Jobs] /\ job'[r] = j /\ Alone(r)
  BY DEF OTypeOK, Moves, Alone

LEMMA TurnsTyped ==
    ASSUME OTypeOK, NEW r \in Callers, NEW p \in Places, Turns(r, p)
    PROVE  /\ job' \in [Callers -> Jobs] /\ Alone(r)
           /\ job'[r].at = p /\ job'[r].cond = job[r].cond /\ job'[r].match = job[r].match
           /\ job'[r].upd = job[r].upd /\ job'[r].gen = job[r].gen
           /\ job'[r].round = job[r].round /\ job'[r].seen = job[r].seen
<1>1. job[r] \in Jobs
  BY DEF OTypeOK
<1>2. [job[r] EXCEPT !.at = p] \in Jobs
  BY <1>1 DEF Jobs
<1>3. /\ job' \in [Callers -> Jobs] /\ Alone(r)
      /\ job'[r] = [job[r] EXCEPT !.at = p]
  BY <1>2, MovesTyped DEF Turns
<1> QED
  BY <1>1, <1>3 DEF Jobs

LEMMA AnswersTyped ==
    ASSUME OTypeOK, NEW r \in Callers, NEW org \in Orgs, Answers(r, org)
    PROVE  /\ job' \in [Callers -> Jobs] /\ Alone(r)
           /\ job'[r].at = "answered" /\ job'[r].cond = FALSE
           /\ job'[r].upd = org /\ job'[r].round = 1
<1>1. [NoJob EXCEPT !.at = "answered", !.upd = org] \in Jobs
  BY NoneTyped DEF Jobs, Places
<1>2. /\ job' \in [Callers -> Jobs] /\ Alone(r)
      /\ job'[r] = [NoJob EXCEPT !.at = "answered", !.upd = org]
  BY <1>1, MovesTyped DEF Answers
<1> QED
  BY <1>2 DEF NoJob

LEMMA FailsTyped ==
    ASSUME OTypeOK, NEW r \in Callers, Fails(r)
    PROVE  /\ job' \in [Callers -> Jobs] /\ Alone(r)
           /\ job'[r].at = "failed" /\ job'[r].cond = FALSE
           /\ job'[r].upd = NoOrg /\ job'[r].round = 1
<1>1. [NoJob EXCEPT !.at = "failed"] \in Jobs
  BY NoneTyped DEF Jobs, Places
<1>2. /\ job' \in [Callers -> Jobs] /\ Alone(r)
      /\ job'[r] = [NoJob EXCEPT !.at = "failed"]
  BY <1>1, MovesTyped DEF Fails
<1> QED
  BY <1>2 DEF NoJob

LEMMA CommittedTyped ==
    ASSUME OTypeOK, NEW r \in Callers, Committed(r)
    PROVE  /\ job' \in [Callers -> Jobs] /\ Alone(r)
           /\ job'[r].at = "head" /\ job'[r].cond = job[r].cond /\ job'[r].match = job[r].match
           /\ job'[r].upd = account /\ job'[r].gen = account.at
           /\ job'[r].round = job[r].round
<1>1. job[r] \in Jobs /\ account \in Orgs /\ account.at \in Nat
  BY DEF OTypeOK, Orgs
<1>2. [job[r] EXCEPT !.at = "head", !.upd = account, !.gen = account.at] \in Jobs
  BY <1>1 DEF Jobs, Places
<1>3. /\ job' \in [Callers -> Jobs] /\ Alone(r)
      /\ job'[r] = [job[r] EXCEPT !.at = "head", !.upd = account, !.gen = account.at]
  BY <1>2, MovesTyped DEF Committed
<1> QED
  BY <1>1, <1>3 DEF Jobs

LEMMA OutagesTyped ==
    ASSUME OTypeOK, Outage \/ NoOutage
    PROVE  /\ outages' \in Nat
           /\ outages' = 0 => outages = 0 /\ ~Outage
<1>1. outages \in Nat
  BY DEF OTypeOK
<1>2. CASE Outage
  <2>1. outages' = outages + 1
    BY <1>2 DEF Outage
  <2> QED
    BY <1>1, <2>1
<1>3. CASE NoOutage /\ ~Outage
  BY <1>1, <1>3 DEF NoOutage
<1> QED
  BY <1>2, <1>3

----------------------------------------------------------------------------
LEMMA InitTyped == ASSUME OInit PROVE OTypeOK
<1>1. PICK l \in Earlier :
         /\ account = [NoOrg EXCEPT !.logo = l, !.at = 1]
         /\ object = [bytes |-> l, gen |-> 0]
  BY DEF OInit
<1>2. account \in Orgs /\ object \in [bytes : Logos, gen : Nat]
  BY <1>1, NoneTyped DEF Orgs, Logos
<1>3. shown \in Orgs
  BY <1>2 DEF OInit, Orgs
<1>4. job \in [Callers -> Jobs]
  BY NoneTyped DEF OInit
<1> QED
  BY <1>2, <1>3, <1>4 DEF OInit, OTypeOK

(* The logo_url a client sends is a logo.                                  *)
LEMMA SendableTyped == ASSUME OTypeOK PROVE Sendable \subseteq Logos
<1>1. account.logo \in Logos /\ promoted \subseteq Logos
  BY DEF OTypeOK, Orgs, Logos
<1>2. "none" \in Logos /\ Chosen \subseteq Logos
  BY DEF Logos, Earlier
<1> QED
  BY <1>1, <1>2 DEF Sendable

LEMMA RequestStarts ==
    ASSUME OTypeOK, NEW r \in Callers, Request(r)
    PROVE  /\ job' \in [Callers -> Jobs] /\ Alone(r)
           /\ job'[r].at = IF r \in Uploads THEN "validate" ELSE "check"
           /\ job'[r].round = 1 /\ job'[r].upd = NoOrg
           /\ job'[r].cond => job'[r].match = account
           /\ job'[r].url \in Sendable
<1>1. PICK c \in BOOLEAN, l \in Sendable \union {"none"} :
         Moves(r, [NoJob EXCEPT !.at = IF r \in Uploads THEN "validate" ELSE "check", !.url = l,
                               !.cond = c, !.match = IF c THEN account ELSE NoOrg])
  BY DEF Request
<1> DEFINE j == [NoJob EXCEPT !.at = IF r \in Uploads THEN "validate" ELSE "check", !.url = l,
                              !.cond = c, !.match = IF c THEN account ELSE NoOrg]
<1>2. l \in Logos /\ l \in Sendable
  BY SendableTyped DEF Sendable
<1>3. j \in Jobs
  BY <1>2, NoneTyped DEF OTypeOK, Jobs, Places
<1>4. /\ j.at = IF r \in Uploads THEN "validate" ELSE "check"
      /\ j.round = 1 /\ j.upd = NoOrg /\ j.url = l
  BY DEF NoJob
<1>7. j.cond => j.match = account
  <2>1. CASE c
    BY <2>1 DEF NoJob
  <2>2. CASE ~c
    <3>1. j.cond = FALSE
      BY <2>2 DEF NoJob
    <3> QED
      BY <3>1
  <2> QED
    BY <2>1, <2>2
<1>5. Moves(r, j)
  BY <1>1
<1> HIDE DEF j
<1>6. job' \in [Callers -> Jobs] /\ job'[r] = j /\ Alone(r)
  BY <1>3, <1>5, MovesTyped
<1> QED
  BY <1>2, <1>4, <1>6, <1>7

LEMMA RequestTyped == ASSUME OTypeOK, NEW r \in Callers, Request(r) PROVE OTypeOK'
<1>1. job' \in [Callers -> Jobs]
  BY RequestStarts
<1> QED
  BY <1>1 DEF Request, NoOutage, OTypeOK, objects, world

LEMMA ValidateTyped == ASSUME OTypeOK, NEW r \in Callers, ValidatePrecondition(r) PROVE OTypeOK'
<1>1. [job[r] EXCEPT !.at = "store", !.cur = account] \in Jobs
  BY DEF OTypeOK, Jobs, Places
<1>2. job' \in [Callers -> Jobs]
  BY <1>1, MovesTyped, FailsTyped DEF ValidatePrecondition
<1> QED
  BY <1>2, OutagesTyped DEF ValidatePrecondition, OTypeOK, objects, world

LEMMA StoreTyped ==
    ASSUME OTypeOK, NEW r \in Uploads, Store(r)
    PROVE  OTypeOK'
<1>1. job' \in [Callers -> Jobs]
  BY TurnsTyped, FailsTyped DEF Store, Places, Callers
<1> QED
  BY <1>1, OutagesTyped DEF Store, OTypeOK, objects, world

LEMMA CheckTyped == ASSUME OTypeOK, NEW r \in Callers, Check(r) PROVE OTypeOK'
<1>1. account \in Orgs
  BY DEF OTypeOK
<1>2. job' \in [Callers -> Jobs]
  BY <1>1, TurnsTyped, FailsTyped, AnswersTyped DEF Check, Refused, Places
<1> QED
  BY <1>2, OutagesTyped DEF Check, OTypeOK, objects, world

LEMMA PatchTyped == ASSUME OTypeOK, NEW r \in Callers, Patch(r) PROVE OTypeOK'
<1>1. Written(r) \in Orgs
  <2>1. job[r].url \in Logos /\ account \in Orgs /\ clock \in Nat
    BY DEF OTypeOK, Jobs
  <2>2. r \in Uploads => r \in Logos
    BY DEF Logos
  <2> QED
    BY <2>1, <2>2 DEF Written, Orgs, Callers
<1>2. job' \in [Callers -> Jobs]
  BY TurnsTyped, FailsTyped DEF Patch, Refused, Places
<1>3. account' \in Orgs
  BY <1>1 DEF Patch, OTypeOK
<1>4. by' \in {"upload", "edit", "rollback"}
  BY DEF Patch, OTypeOK
<1> QED
  BY <1>2, <1>3, <1>4, OutagesTyped DEF Patch, OTypeOK, objects

LEMMA RefetchTyped == ASSUME OTypeOK, NEW r \in Callers, Refetch(r) PROVE OTypeOK'
<1>1. account \in Orgs
  BY DEF OTypeOK
<1>2. [job[r] EXCEPT !.at = "publish", !.upd = account] \in Jobs
  BY <1>1 DEF OTypeOK, Jobs, Places
<1>3. job' \in [Callers -> Jobs]
  BY <1>1, <1>2, MovesTyped, CommittedTyped, AnswersTyped, TurnsTyped, FailsTyped
  DEF Refetch, Refused, Places
<1> QED
  BY <1>3, OutagesTyped DEF Refetch, OTypeOK, objects, world, Discard

LEMMA RereadTyped == ASSUME OTypeOK, NEW r \in Callers, Reread(r) PROVE OTypeOK'
<1>1. job' \in [Callers -> Jobs]
  BY CommittedTyped, FailsTyped DEF Reread
<1> QED
  BY <1>1, OutagesTyped DEF Reread, OTypeOK, objects, world, Discard

LEMMA HeadTyped == ASSUME OTypeOK, NEW r \in Callers, HeadObject(r) PROVE OTypeOK'
<1> DEFINE found == object.gen + 1
<1>1. job[r] \in Jobs /\ found \in Nat /\ object.bytes \in Logos
  BY DEF OTypeOK
<1> HIDE DEF found
<1>3. [job[r] EXCEPT !.at = "arbiter", !.gen = found] \in Jobs
  BY <1>1 DEF Jobs, Places
<1>4. [job[r] EXCEPT !.at = "copy", !.seen = object.bytes] \in Jobs
  BY <1>1 DEF Jobs, Places
<1>5. [job[r] EXCEPT !.at = "arbiter", !.gen = object.gen + 1] \in Jobs
  BY <1>3 DEF found
<1>2. job' \in [Callers -> Jobs]
  BY <1>4, <1>5, MovesTyped, TurnsTyped DEF HeadObject, Retry, Places
<1> QED
  BY <1>2, OutagesTyped DEF HeadObject, OTypeOK, objects, world

LEMMA CopyTyped ==
    ASSUME OTypeOK, NEW r \in Uploads, CopyObject(r)
    PROVE  OTypeOK'
<1>1. r \in Callers /\ r \in Logos
  BY DEF Callers, Logos
<1>2. job' \in [Callers -> Jobs]
  BY <1>1, TurnsTyped DEF CopyObject, Retry, Places
<1>3. object' \in [bytes : Logos, gen : Nat]
  BY <1>1 DEF CopyObject, OTypeOK, Jobs
<1> QED
  BY <1>2, <1>3, OutagesTyped DEF CopyObject, OTypeOK, world

LEMMA ArbiterTyped == ASSUME OTypeOK, NEW r \in Callers, Arbiter(r) PROVE OTypeOK'
<1>1. job[r] \in Jobs /\ job[r].upd \in Orgs
  BY DEF OTypeOK, Jobs
<1> DEFINE next == job[r].round + 1
<1>4. job[r].round \in 1 .. 3
  BY <1>1 DEF Jobs
<1>5. job[r].round < 3 => next \in 1 .. 3
  BY <1>4
<1> HIDE DEF next
<1>6. job[r].round < 3 => [job[r] EXCEPT !.at = "head", !.round = next] \in Jobs
  BY <1>1, <1>5 DEF Jobs, Places
<1>2. job[r].round < 3 => [job[r] EXCEPT !.at = "head", !.round = @ + 1] \in Jobs
  BY <1>6 DEF next
<1>3. job' \in [Callers -> Jobs]
  BY <1>1, <1>2, MovesTyped, AnswersTyped, TurnsTyped DEF Arbiter, Places
<1> QED
  BY <1>3, OutagesTyped DEF Arbiter, OTypeOK, objects, world, Discard

LEMMA UndoTyped == ASSUME OTypeOK, NEW r \in Callers, Undo(r) PROVE OTypeOK'
<1>1. job' \in [Callers -> Jobs]
  BY TurnsTyped, FailsTyped DEF Undo, Places
<1> QED
  BY <1>1, OutagesTyped DEF Undo, OTypeOK, objects, world

LEMMA UndoPatchTyped == ASSUME OTypeOK, NEW r \in Callers, UndoPatch(r) PROVE OTypeOK'
<1>1. job' \in [Callers -> Jobs]
  BY FailsTyped DEF UndoPatch
<1>2. job[r].cur \in Orgs
  BY DEF OTypeOK, Jobs
<1>3. Restored(job[r].cur.logo) \in Logos
  BY <1>2 DEF Restored, Orgs, Logos, Earlier
<1>4. account' \in Orgs
  BY <1>3 DEF UndoPatch, OTypeOK, Orgs
<1>5. by' \in {"upload", "edit", "rollback"}
  BY DEF UndoPatch, OTypeOK
<1> QED
  BY <1>1, <1>4, <1>5, OutagesTyped DEF UndoPatch, OTypeOK, objects, Discard

LEMMA PublishTyped == ASSUME OTypeOK, NEW r \in Callers, PublishOrg(r) PROVE OTypeOK'
<1>1. job[r].upd \in Orgs /\ children \in BOOLEAN
  BY DEF OTypeOK, Jobs
<1>2. Parented(r) \in Orgs
  BY <1>1 DEF Parented, Orgs
<1>3. Response(r) \in Orgs
  BY <1>1, <1>2 DEF Response
<1>4. job' \in [Callers -> Jobs]
  BY <1>1, <1>3, AnswersTyped DEF PublishOrg
<1>5. shown' \in Orgs
  BY <1>1, <1>2 DEF PublishOrg, Sends, OTypeOK
<1> QED
  BY <1>4, <1>5, OutagesTyped DEF PublishOrg, OTypeOK, objects, world, Discard

LEMMA VanishTyped == ASSUME OTypeOK, NEW r \in Callers, Vanish(r) PROVE OTypeOK'
<1>1. job' \in [Callers -> Jobs]
  BY FailsTyped DEF Vanish
<1> QED
  BY <1>1, OutagesTyped DEF Vanish, OTypeOK, objects, world
----------------------------------------------------------------------------
(* A request moves alone, and an edit is never where only an upload goes.  *)
Step(r)   == Request(r) \/ Update(r) \/ Upload(r) \/ Vanish(r)
Editing   == {"new", "check", "patch", "refetch", "publish", "answered", "failed"}
Placed    == \A r \in Edits : job[r].at \in Editing

LEMMA EditSteps ==
    ASSUME Placed, NEW r \in Edits, Step(r)
    PROVE  /\ Request(r) \/ Check(r) \/ Patch(r) \/ Refetch(r) \/ PublishOrg(r) \/ Vanish(r)
           /\ r \in Callers /\ r \notin Uploads
<1>1. r \in Callers /\ r \notin Uploads
  BY UpdatesAssumption DEF Callers
<1>2. job[r].at \in Editing
  BY DEF Placed
<1>3. ~Upload(r)
  BY <1>2 DEF Upload, Promote, ValidatePrecondition, Store, Reread, HeadObject, CopyObject,
              Arbiter, Undo, UndoPatch, Editing
<1> QED
  BY <1>1, <1>3 DEF Step, Update

LEMMA MovesAlone == ASSUME OTypeOK, NEW r \in Callers, Step(r) PROVE Alone(r)
<1>1. \A j : Moves(r, j) => Alone(r)
  BY DEF Moves, Alone, OTypeOK
<1>2. CASE Request(r)
  BY <1>1, <1>2 DEF Request
<1>3. CASE Update(r)
  BY <1>1, <1>3 DEF Update, Check, Patch, Refetch, PublishOrg, Refused, Committed, Turns, Answers, Fails
<1>4. CASE Upload(r)
  BY <1>1, <1>4 DEF Upload, Promote, ValidatePrecondition, Store, Reread, HeadObject, CopyObject,
                    Arbiter, Undo, UndoPatch, Retry, Committed, Turns, Answers, Fails
<1>5. CASE Vanish(r)
  BY <1>1, <1>5 DEF Vanish, Fails
<1> QED
  BY <1>2, <1>3, <1>4, <1>5 DEF Step

LEMMA EditPlaced ==
    ASSUME OTypeOK, Placed, NEW r \in Edits, Step(r)
    PROVE  job'[r].at \in Editing
<1>1. r \in Callers /\ r \notin Uploads
  BY EditSteps
<1>2. job[r] \in Jobs
  BY <1>1 DEF OTypeOK
<1>3. \A p \in Places : Turns(r, p) => job'[r].at = p
  BY <1>1, TurnsTyped
<1>4. \A org \in Orgs : Answers(r, org) => job'[r].at = "answered"
  BY <1>1, AnswersTyped
<1>5. Fails(r) => job'[r].at = "failed"
  BY <1>1, FailsTyped
<1>6. account \in Orgs /\ Response(r) \in Orgs /\ job[r].upd \in Orgs
  BY <1>1, <1>2 DEF OTypeOK, Response, Parented, Jobs, Orgs
<1>7. CASE Request(r)
  BY <1>1, <1>7, RequestStarts DEF Editing
<1>8. CASE Check(r)
  BY <1>1, <1>3, <1>4, <1>5, <1>6, <1>8 DEF Check, Refused, Editing, Places
<1>9. CASE Patch(r)
  BY <1>1, <1>3, <1>5, <1>9 DEF Patch, Refused, Editing, Places
<1>10. CASE Refetch(r)
  <2>1. job' = [job EXCEPT ![r] = [job[r] EXCEPT !.at = "publish", !.upd = account]] \/ Fails(r)
    BY <1>1, <1>10 DEF Refetch, Refused, Moves
  <2>2. [job[r] EXCEPT !.at = "publish", !.upd = account].at = "publish"
    BY <1>2 DEF Jobs
  <2>3. CASE job' = [job EXCEPT ![r] = [job[r] EXCEPT !.at = "publish", !.upd = account]]
    <3>1. job'[r] = [job[r] EXCEPT !.at = "publish", !.upd = account]
      BY <1>1, <2>3 DEF OTypeOK
    <3> QED
      BY <2>2, <3>1 DEF Editing
  <2>4. CASE Fails(r)
    BY <1>5, <2>4 DEF Editing
  <2> QED
    BY <2>1, <2>3, <2>4
<1>11. CASE PublishOrg(r)
  BY <1>1, <1>4, <1>6, <1>11 DEF PublishOrg, Editing
<1>12. CASE Vanish(r)
  BY <1>5, <1>12 DEF Vanish, Editing
<1> QED
  BY <1>7, <1>8, <1>9, <1>10, <1>11, <1>12, EditSteps

LEMMA PlacedKept == ASSUME OTypeOK, Placed, [ONext]_ovars PROVE Placed'
<1>1. ASSUME NEW r \in Callers, Step(r) PROVE Placed'
  <2>1. SUFFICES ASSUME NEW x \in Edits PROVE job'[x].at \in Editing
    BY DEF Placed
  <2>2. CASE x = r
    BY <1>1, <2>2, EditPlaced
  <2>3. CASE x # r
    BY <1>1, <2>3, MovesAlone DEF Placed, Alone, Callers
  <2> QED
    BY <2>2, <2>3
<1>2. CASE UNCHANGED job
  BY <1>2 DEF Placed
<1> QED
  BY <1>1, <1>2 DEF ONext, Step, Tick, ovars

LEMMA NextTyped == ASSUME OTypeOK, Placed, [ONext]_ovars PROVE OTypeOK'
<1>1. ASSUME NEW r \in Callers, Step(r) PROVE OTypeOK'
  <2>1. Store(r) \/ CopyObject(r) => r \in Uploads
    BY <1>1, EditSteps DEF Store, CopyObject, Placed, Editing, Callers
  <2>2. CASE Request(r)
    BY <1>1, <2>2, RequestTyped
  <2>3. CASE Update(r)
    BY <1>1, <2>3, CheckTyped, PatchTyped, RefetchTyped, PublishTyped DEF Update
  <2>4. CASE Upload(r)
    BY <1>1, <2>1, <2>4, ValidateTyped, StoreTyped, RereadTyped, HeadTyped, CopyTyped, ArbiterTyped,
       UndoTyped, UndoPatchTyped DEF Upload, Promote
  <2>5. CASE Vanish(r)
    BY <1>1, <2>5, VanishTyped
  <2> QED
    BY <1>1, <2>2, <2>3, <2>4, <2>5 DEF Step
<1>2. CASE Tick
  BY <1>2 DEF Tick, OTypeOK, objects
<1>3. CASE UNCHANGED ovars
  BY <1>3 DEF ovars, objects, world, OTypeOK
<1> QED
  BY <1>1, <1>2, <1>3 DEF ONext, Step

(* The shape of the state is kept: UpdatesTypeCorrect. *)
THEOREM UpdatesTypeCorrect == OSpec => [](OTypeOK /\ Placed)
<1>1. OInit => OTypeOK /\ Placed
  <2> SUFFICES ASSUME OInit PROVE OTypeOK /\ Placed
    OBVIOUS
  <2>1. Placed
    BY DEF OInit, NoJob, Placed, Editing, Callers
  <2> QED
    BY <2>1, InitTyped
<1>2. OTypeOK /\ Placed /\ [ONext]_ovars => (OTypeOK /\ Placed)'
  BY NextTyped, PlacedKept
<1> QED
  BY <1>1, <1>2, PTL DEF OSpec

----------------------------------------------------------------------------
(* The record is never younger than the clock, and what a request has read *)
(* never younger than the record; a read does not tell IsParent.           *)
Promoting == {"head", "copy", "arbiter"}
Undoing   == {"undo", "undoPatch"}

DatedJob(r) ==
    /\ job[r].cond => job[r].match.at <= account.at
    /\ job[r].at \in Promoting \union Undoing => job[r].upd.at <= account.at
    /\ r \in Uploads => job[r].upd.parent = FALSE
Dated ==
    /\ account.at <= clock
    /\ account.parent = FALSE
    /\ \A r \in Callers : DatedJob(r)

(* How a step changes the record. *)
LEMMA AccountMoves ==
    ASSUME OTypeOK, Placed, Dated, NEW r \in Callers, Step(r)
    PROVE  /\ account'.at \in Nat /\ account.at <= account'.at /\ account'.at <= clock
           /\ account'.parent = FALSE
           /\ clock' = clock
<1>1. account \in Orgs /\ account.at \in Nat /\ clock \in Nat /\ account.at <= clock /\ account.parent = FALSE
  BY DEF OTypeOK, Orgs, Dated
<1>2. clock' = clock
  BY DEF Step, Update, Upload, Promote, Request, Check, Patch, Refetch, PublishOrg, ValidatePrecondition,
         Store, Reread, HeadObject, CopyObject, Arbiter, Undo, UndoPatch, Vanish, world
<1>3. CASE account' = account
  BY <1>1, <1>2, <1>3
<1>4. CASE account' = Written(r)
  BY <1>1, <1>2, <1>4 DEF Written, Orgs
<1>5. CASE account' = [account EXCEPT !.logo = Restored(job[r].cur.logo), !.at = clock]
  BY <1>1, <1>2, <1>5 DEF Orgs
<1>6. \/ account' = account
      \/ account' = Written(r)
      \/ account' = [account EXCEPT !.logo = Restored(job[r].cur.logo), !.at = clock]
  BY DEF Step, Update, Upload, Promote, Request, Check, Patch, Refetch, PublishOrg, ValidatePrecondition,
         Store, Reread, HeadObject, CopyObject, Arbiter, Undo, UndoPatch, Vanish
<1> QED
  BY <1>3, <1>4, <1>5, <1>6

(* What a step makes of its request, as far as Dated is concerned. *)
LEMMA JobDated ==
    ASSUME OTypeOK, Placed, Dated, NEW r \in Callers, Step(r)
    PROVE  DatedJob(r)'
<1>1. /\ job[r] \in Jobs /\ DatedJob(r)
      /\ account \in Orgs /\ account.at \in Nat /\ account'.at \in Nat /\ account.at <= account'.at
      /\ account.parent = FALSE
  BY AccountMoves DEF OTypeOK, Orgs, Dated
<1>2. job[r].match.at \in Nat /\ job[r].upd.at \in Nat /\ job[r].upd \in Orgs
  BY <1>1 DEF Jobs, Orgs
<1>3. ASSUME NEW p \in Places, Turns(r, p), p \in Promoting \union Undoing => job[r].at \in Promoting \union Undoing
      PROVE  DatedJob(r)'
  BY <1>1, <1>2, <1>3, TurnsTyped DEF DatedJob
<1>4. ASSUME NEW org \in Orgs, Answers(r, org), r \in Uploads => org.parent = FALSE
      PROVE  DatedJob(r)'
  BY <1>4, AnswersTyped DEF DatedJob, Promoting, Undoing
<1>5. Fails(r) => DatedJob(r)'
  <2>1. NoOrg.parent = FALSE
    BY DEF NoOrg
  <2> QED
    BY <2>1, FailsTyped DEF DatedJob, Promoting, Undoing
<1>6. Committed(r) => DatedJob(r)'
  BY <1>1, <1>2, CommittedTyped DEF DatedJob
<1>7. Refused(r) => DatedJob(r)'
  BY <1>3, <1>5 DEF Refused, Promoting, Undoing, Places
<1>8. CASE Request(r)
  <2>1. /\ job'[r].upd = NoOrg
        /\ job'[r].cond => job'[r].match = account
        /\ job'[r].at = IF r \in Uploads THEN "validate" ELSE "check"
    BY <1>8, RequestStarts
  <2>2. account' = account /\ NoOrg.parent = FALSE
    BY <1>8 DEF Request, NoOrg
  <2> QED
    BY <1>1, <2>1, <2>2 DEF DatedJob, Promoting, Undoing
<1>9. CASE Update(r)
  <2>1. CASE Check(r)
    BY <1>1, <1>3, <1>4, <1>7, <2>1, UpdatesAssumption DEF Check, Places, Promoting, Undoing
  <2>2. CASE Patch(r)
    BY <1>3, <1>7, <2>2 DEF Patch, Places, Promoting, Undoing
  <2>3. CASE Refetch(r)
    <3>1. CASE r \in Edits /\ Moves(r, [job[r] EXCEPT !.at = "publish", !.upd = account])
      <4>1. job'[r] = [job[r] EXCEPT !.at = "publish", !.upd = account]
        BY <3>1 DEF Moves, OTypeOK
      <4>2. job'[r].at = "publish" /\ job'[r].cond = job[r].cond /\ job'[r].match = job[r].match
        BY <1>1, <4>1 DEF Jobs
      <4> QED
        BY <1>1, <1>2, <3>1, <4>2, UpdatesAssumption DEF DatedJob, Promoting, Undoing
    <3> QED
      BY <1>1, <1>4, <1>6, <1>7, <2>3, <3>1 DEF Refetch
  <2>4. CASE PublishOrg(r)
    <3>1. Response(r) \in Orgs
      BY <1>2 DEF Response, Parented, OTypeOK, Orgs
    <3>2. r \in Uploads => Response(r).parent = FALSE /\ job[r].upd.parent = FALSE
      BY <1>1 DEF Response, DatedJob
    <3> QED
      BY <1>2, <1>4, <2>4, <3>1, <3>2 DEF PublishOrg
  <2> QED
    BY <1>9, <2>1, <2>2, <2>3, <2>4 DEF Update
<1>10. CASE Upload(r)
  <2>1. CASE ValidatePrecondition(r)
    <3>1. CASE Moves(r, [job[r] EXCEPT !.at = "store", !.cur = account])
      <4>1. job'[r] = [job[r] EXCEPT !.at = "store", !.cur = account]
        BY <3>1 DEF Moves, OTypeOK
      <4>2. /\ job'[r].at = "store" /\ job'[r].cond = job[r].cond
            /\ job'[r].match = job[r].match /\ job'[r].upd = job[r].upd
        BY <1>1, <4>1 DEF Jobs
      <4> QED
        BY <1>1, <1>2, <4>2 DEF DatedJob, Promoting, Undoing
    <3> QED
      BY <1>5, <2>1, <3>1 DEF ValidatePrecondition
  <2>2. CASE Store(r)
    BY <1>3, <1>5, <2>2 DEF Store, Places, Promoting, Undoing
  <2>3. CASE Reread(r)
    BY <1>5, <1>6, <2>3 DEF Reread
  <2>4. CASE HeadObject(r)
    <3>1. CASE \/ Moves(r, [job[r] EXCEPT !.at = "arbiter", !.gen = object.gen + 1])
               \/ Moves(r, [job[r] EXCEPT !.at = "copy", !.seen = object.bytes])
      <4>1. \/ job'[r] = [job[r] EXCEPT !.at = "arbiter", !.gen = object.gen + 1]
            \/ job'[r] = [job[r] EXCEPT !.at = "copy", !.seen = object.bytes]
        BY <3>1 DEF Moves, OTypeOK
      <4>2. /\ job'[r].cond = job[r].cond
            /\ job'[r].match = job[r].match /\ job'[r].upd = job[r].upd
        BY <1>1, <4>1 DEF Jobs
      <4> QED
        BY <1>1, <1>2, <2>4, <4>2 DEF DatedJob, HeadObject, Promoting
    <3> QED
      BY <1>3, <2>4, <3>1 DEF HeadObject, Retry, Places, Promoting, Undoing
  <2>5. CASE CopyObject(r)
    BY <1>3, <2>5 DEF CopyObject, Retry, Places, Promoting, Undoing
  <2>6. CASE Arbiter(r)
    <3>1. CASE Moves(r, [job[r] EXCEPT !.at = "head", !.round = @ + 1])
      <4>1. job'[r] = [job[r] EXCEPT !.at = "head", !.round = @ + 1]
        BY <3>1 DEF Moves, OTypeOK
      <4>2. /\ job'[r].cond = job[r].cond
            /\ job'[r].match = job[r].match /\ job'[r].upd = job[r].upd
        BY <1>1, <4>1 DEF Jobs
      <4> QED
        BY <1>1, <1>2, <2>6, <4>2 DEF DatedJob, Arbiter, Promoting
    <3> QED
      BY <1>1, <1>2, <1>3, <1>4, <2>6, <3>1 DEF Arbiter, Places, Promoting, Undoing, DatedJob
  <2>7. CASE Undo(r)
    BY <1>3, <1>5, <2>7 DEF Undo, Places, Undoing
  <2>8. CASE UndoPatch(r)
    BY <1>5, <2>8 DEF UndoPatch
  <2> QED
    BY <1>10, <2>1, <2>2, <2>3, <2>4, <2>5, <2>6, <2>7, <2>8 DEF Upload, Promote
<1>11. CASE Vanish(r)
  BY <1>5, <1>11 DEF Vanish
<1> QED
  BY <1>8, <1>9, <1>10, <1>11 DEF Step

LEMMA DatedKept == ASSUME OTypeOK, Placed, Dated, [ONext]_ovars PROVE Dated'
<1>1. ASSUME NEW r \in Callers, Step(r) PROVE Dated'
  <2>1. /\ account'.at \in Nat /\ account.at <= account'.at /\ account'.at <= clock
        /\ account'.parent = FALSE
        /\ clock' = clock
    BY <1>1, AccountMoves
  <2>2. ASSUME NEW x \in Callers PROVE DatedJob(x)'
    <3>1. CASE x = r
      BY <1>1, <3>1, JobDated
    <3>2. CASE x # r
      <4>1. job'[x] = job[x]
        BY <1>1, <3>2, MovesAlone DEF Alone
      <4>2. account.at \in Nat /\ job[x].match.at \in Nat /\ job[x].upd.at \in Nat
        BY DEF OTypeOK, Orgs, Jobs
      <4> QED
        BY <2>1, <4>1, <4>2 DEF Dated, DatedJob
    <3> QED
      BY <3>1, <3>2
  <2> QED
    BY <2>1, <2>2 DEF Dated
<1>2. CASE Tick
  <2>1. account.at \in Nat /\ clock \in Nat
    BY DEF OTypeOK, Orgs
  <2>2. /\ account' = account /\ job' = job /\ clock' = clock + 1
    BY <1>2 DEF Tick
  <2> QED
    BY <2>1, <2>2 DEF Dated, DatedJob
<1>3. CASE UNCHANGED ovars
  BY <1>3 DEF ovars, world, Dated, DatedJob
<1> QED
  BY <1>1, <1>2, <1>3 DEF ONext, Step

LEMMA InitDated == ASSUME OInit PROVE Dated
<1>1. account.at = 1 /\ account.parent = FALSE /\ clock = 1
  BY DEF OInit, NoOrg
<1>2. \A r \in Callers : job[r] = NoJob
  BY DEF OInit
<1> QED
  BY <1>1, <1>2 DEF Dated, DatedJob, NoJob, NoOrg, Promoting, Undoing

----------------------------------------------------------------------------
(* A later date is not in an earlier second. *)
LEMMA Seconds ==
    ASSUME NEW a \in Nat, NEW b \in Nat, a <= b
    PROVE  Second(a) \in Nat /\ Second(a) <= Second(b)
<1>1. PerSecond \in Nat /\ PerSecond > 0
  BY UpdatesAssumption
<1> QED
  BY <1>1 DEF Second

LEMMA SameSecond ==
    ASSUME OTypeOK, NEW org \in Orgs, org.at <= account.at, NotAfter(org)
    PROVE  Second(account.at) = Second(org.at)
<1>1. account.at \in Nat /\ org.at \in Nat
  BY DEF OTypeOK, Orgs
<1>2. /\ Second(org.at) <= Second(account.at)
      /\ Second(org.at) \in Nat /\ Second(account.at) \in Nat
  BY <1>1, Seconds
<1> QED
  BY <1>2 DEF NotAfter

LEMMA StepConditions ==
    ASSUME OTypeOK, Placed, Dated, NEW r \in Callers, Step(r)
    PROVE  ConditionHeld
<1>1. CASE Patch(r)
  <2>1. job[r].at = "patch" /\ (account' # account => Unmodified(r))
    BY <1>1 DEF Patch
  <2>2. job'[r].at # "patch"
    BY <1>1, TurnsTyped, FailsTyped DEF Patch, Refused, Places
  <2>3. account' # account /\ job[r].cond => Second(account.at) = Second(job[r].match.at)
    <3>1. SUFFICES ASSUME account' # account, job[r].cond
                   PROVE  Second(account.at) = Second(job[r].match.at)
      OBVIOUS
    <3>2. job[r].match \in Orgs /\ job[r].match.at <= account.at
      BY <3>1 DEF OTypeOK, Jobs, Dated, DatedJob
    <3> QED
      BY <2>1, <3>1, <3>2, SameSecond DEF Unmodified
  <2> QED
    BY <2>1, <2>2, <2>3 DEF ConditionHeld, Expected
<1>2. CASE UndoPatch(r)
  <2>1. job[r].at = "undoPatch" /\ job'[r].at = "failed"
    BY <1>2, FailsTyped DEF UndoPatch
  <2>2. account' # account => NotAfter(job[r].upd)
    BY <1>2 DEF UndoPatch
  <2>3. job[r].upd \in Orgs /\ job[r].upd.at <= account.at
    BY <2>1 DEF OTypeOK, Jobs, Dated, DatedJob, Undoing
  <2>4. account' # account => Second(account.at) = Second(job[r].upd.at)
    BY <2>2, <2>3, SameSecond
  <2> QED
    BY <2>1, <2>4 DEF ConditionHeld, Expected
<1>3. CASE ~Patch(r) /\ ~UndoPatch(r)
  <2>1. UNCHANGED account
    BY <1>3 DEF Step, Update, Upload, Promote, Request, Check, Refetch, PublishOrg, ValidatePrecondition,
                Store, Reread, HeadObject, CopyObject, Arbiter, Undo, Vanish
  <2> QED
    BY <2>1 DEF ConditionHeld
<1> QED
  BY <1>1, <1>2, <1>3

LEMMA NextConditions ==
    ASSUME OTypeOK, Placed, Dated, [ONext]_ovars
    PROVE  [ConditionHeld]_ovars
<1>1. CASE UNCHANGED account
  BY <1>1 DEF ConditionHeld
<1>2. CASE \E r \in Callers : Step(r)
  BY <1>2, StepConditions
<1> QED
  BY <1>1, <1>2 DEF ONext, Step, Tick, ovars

(* The dates a request compares with are not younger than the record's.    *)
THEOREM DatedAlways == OSpec => [](OTypeOK /\ Placed /\ Dated)
<1>1. OInit => Dated
  BY InitDated
<1>2. OTypeOK /\ Placed /\ Dated /\ [ONext]_ovars => Dated'
  BY DatedKept
<1> QED
  BY <1>1, <1>2, UpdatesTypeCorrect, PTL DEF OSpec

(* A write under an If-Match, and a rollback, replace the record that was  *)
(* compared or one of the same second: the dates in Dated only grow.       *)
THEOREM ConditionsAlwaysHeld == OSpec => ConditionsHeld
<1>1. OTypeOK /\ Placed /\ Dated /\ [ONext]_ovars => [ConditionHeld]_ovars
  BY NextConditions
<1> QED
  BY <1>1, DatedAlways, PTL DEF OSpec, ConditionsHeld

(* The ETag of an upload's answer is the one its next update compares with:*)
(* the record it answers with is a record as it is read.                   *)
THEOREM EtagAlwaysUsable == OSpec => []EtagUsable
<1>1. OTypeOK /\ Placed /\ Dated => EtagUsable
  <2>1. SUFFICES ASSUME OTypeOK, Placed, Dated, NEW r \in Uploads, job[r].at = "answered",
                        [job[r].upd EXCEPT !.parent = FALSE] = account
                 PROVE  job[r].upd = account
    BY DEF EtagUsable
  <2>2. job[r].upd \in Orgs /\ job[r].upd.parent = FALSE
    BY <2>1 DEF OTypeOK, Jobs, Dated, DatedJob, Callers
  <2> QED
    BY <2>1, <2>2 DEF Orgs
<1> QED
  BY <1>1, DatedAlways, PTL

----------------------------------------------------------------------------
(* While nothing fails.                                                    *)
(*                                                                         *)
(* An upload owns the logo when the record points at it.  Off it has not   *)
(* committed or is out of the way; from its commit on it is promoting, or  *)
(* done.                                                                   *)
Copying == {"head", "copy"}
Through    == {"publish", "answered"}
Off(r)  == job[r].at \notin {"refetch"} \union Promoting \union Through \union Undoing

(* The bytes at the shared key are a logo's that is done.  While the URL   *)
(* is an upload's own, that owner does not roll back, and has its bytes    *)
(* there once it is done.                                                  *)
Standing(r) ==
    /\ object.bytes = r => job[r].at \in Through
    /\ Off(r) \/ job[r].at = "refetch" => job[r].round = 1
    /\ by = "upload" =>
         /\ account.logo = r => ~Off(r) /\ job[r].at \notin Undoing
         /\ job[r].at \in Through /\ account.logo = r => object.bytes = r
         /\ job[r].at \in Promoting \union {"refetch"} \/ object.bytes = r => account.logo \in Uploads

(* The generation an upload would stamp is the date of a commit, or one    *)
(* above a stamp that was at the shared key; a copy that still finds the   *)
(* bytes it saw is above their stamp.                                      *)
Stamped(r) ==
    /\ job[r].at \in Copying => job[r].gen <= account.at \/ job[r].gen <= object.gen + 1
    /\ job[r].at = "arbiter" => job[r].gen <= object.gen + 1
    /\ job[r].at = "copy" /\ object.bytes = job[r].seen => object.gen < job[r].gen

(* No bytes come back to the shared key. *)
Unseen(r, x) == job[r].at = "copy" /\ job[r].seen = x => job[x].at \in Through

(* The arbiter's answer in round n sends its upload into round n + 1.      *)
InRound(u, n) ==
    \/ job[u].at = "arbiter" /\ job[u].round = n
    \/ job[u].at \in Copying /\ job[u].round = n + 1

(* The other uploads still copying, against the owner: the first time the  *)
(* owner is refused it comes level with them, the second time above.       *)
Ordered(u, r) ==
    by = "upload" /\ account.logo = u /\ u # r /\ job[r].at \in Copying =>
        /\ job[u].at \in Promoting => job[r].gen <= job[u].gen \/ job[r].gen <= object.gen + 1
        /\ job[u].at \in Through => job[r].gen <= object.gen
        /\ InRound(u, 1) => job[r].gen <= job[u].gen
        /\ InRound(u, 2) => job[r].gen <= object.gen

Settling(u) ==
    by = "upload" /\ account.logo = u =>
        /\ InRound(u, 2) => object.gen < job[u].gen
        /\ job[u].at = "arbiter" => job[u].round < 3

First == by = "upload" /\ account.logo \notin Uploads => object.bytes = account.logo

Smooth ==
    /\ First
    /\ \A r \in Uploads : Standing(r) /\ Stamped(r) /\ Settling(r)
    /\ \A r, x \in Uploads : Unseen(r, x) /\ Ordered(r, x)

LEMMA Numbers ==
    ASSUME OTypeOK
    PROVE  /\ account.at \in Nat /\ object.gen \in Nat
           /\ \A x \in Uploads : /\ x \in Callers /\ x \notin Earlier
                                 /\ job[x].gen \in Nat /\ job[x].round \in 1 .. 3
<1>1. \A x \in Uploads : x \in Callers /\ x \notin Earlier
  BY UpdatesAssumption DEF Callers
<1>2. \A x \in Uploads : job[x] \in Jobs
  BY <1>1 DEF OTypeOK
<1> QED
  BY <1>1, <1>2 DEF OTypeOK, Orgs, Jobs

LEMMA Unmoved ==
    ASSUME OTypeOK, Smooth, account'.at \in Nat, account.at <= account'.at,
           by' = "upload" => by = "upload" /\ account'.logo = account.logo,
           object' = object, \A x \in Uploads : job'[x] = job[x]
    PROVE  Smooth'
<1>1. First'
  BY DEF Smooth, First
<1>2. ASSUME NEW x \in Uploads PROVE Standing(x)' /\ Stamped(x)' /\ Settling(x)'
  BY Numbers DEF Smooth, Standing, Stamped, Settling, InRound, Off
<1>3. ASSUME NEW x \in Uploads, NEW y \in Uploads PROVE Unseen(x, y)' /\ Ordered(x, y)'
  BY DEF Smooth, Unseen, Ordered, InRound
<1> QED
  BY <1>1, <1>2, <1>3 DEF Smooth

(* An upload that does not own the logo moves, fails or rolls back. *)
LEMMA OffStep ==
    ASSUME OTypeOK, Smooth, NEW r \in Uploads, Alone(r), object' = object,
           account'.at \in Nat, account.at <= account'.at,
           by' = "upload" => by = "upload" /\ account'.logo = account.logo,
           by = "upload" => account.logo # r, job[r].at \notin Through,
           \/ Off(r)' /\ job'[r].round = 1
           \/ job'[r].at \in Undoing
    PROVE  Smooth'
<1> USE DEF Promoting, Undoing, Copying, Through
<1>1. object.bytes # r /\ \A x \in Uploads : ~(job[x].at = "copy" /\ job[x].seen = r)
  BY DEF Smooth, Standing, Unseen
<1>2. \A x \in Uploads : x # r => job'[x] = job[x]
  BY DEF Alone, Callers
<1>3. job'[r].at \notin {"refetch"} \union Promoting \union Through
  BY DEF Off
<1>4. First'
  BY DEF Smooth, First
<1>5. ASSUME NEW x \in Uploads PROVE Standing(x)' /\ Stamped(x)' /\ Settling(x)'
  BY <1>1, <1>2, <1>3, Numbers DEF Smooth, Standing, Stamped, Settling, InRound, Off
<1>6. ASSUME NEW x \in Uploads, NEW y \in Uploads PROVE Unseen(x, y)' /\ Ordered(x, y)'
  BY <1>1, <1>2, <1>3 DEF Smooth, Unseen, Ordered, InRound
<1> QED
  BY <1>4, <1>5, <1>6 DEF Smooth

(* An upload is answered: it owns the logo no more, or it has published.   *)
LEMMA AnswerStep ==
    ASSUME OTypeOK, Smooth, NEW r \in Uploads, Alone(r), account' = account, by' = by, object' = object,
           account.logo # r \/ job[r].at = "publish", job'[r].at = "answered"
    PROVE  Smooth'
<1> USE DEF Promoting, Undoing, Copying, Through
<1>1. \A x \in Uploads : x # r => job'[x] = job[x]
  BY DEF Alone, Callers
<1>2. First'
  BY DEF Smooth, First
<1>3. ASSUME NEW x \in Uploads PROVE Standing(x)' /\ Stamped(x)' /\ Settling(x)'
  BY <1>1 DEF Smooth, Standing, Stamped, Settling, InRound, Off
<1>4. ASSUME NEW x \in Uploads, NEW y \in Uploads PROVE Unseen(x, y)' /\ Ordered(x, y)'
  BY <1>1 DEF Smooth, Unseen, Ordered, InRound
<1> QED
  BY <1>2, <1>3, <1>4 DEF Smooth

LEMMA CommitStep ==
    ASSUME OTypeOK, Smooth, NEW r \in Uploads, Alone(r), object' = object,
           account'.logo = r, account'.at \in Nat, account.at <= account'.at,
           job[r].at = "patch", job'[r].at = "refetch", job'[r].round = job[r].round
    PROVE  Smooth'
<1> USE DEF Promoting, Undoing, Copying, Through
<1>1. \A x \in Uploads : x # r => job'[x] = job[x]
  BY DEF Alone, Callers
<1>2. object.bytes # r /\ job[r].round = 1 /\ \A x \in Uploads : ~(job[x].at = "copy" /\ job[x].seen = r)
  BY DEF Smooth, Standing, Unseen, Off
<1>3. First'
  BY Numbers DEF Smooth, First
<1>4. ASSUME NEW x \in Uploads PROVE Standing(x)' /\ Stamped(x)' /\ Settling(x)'
  BY <1>1, <1>2, Numbers DEF Smooth, Standing, Stamped, Settling, InRound, Off
<1>5. ASSUME NEW x \in Uploads, NEW y \in Uploads PROVE Unseen(x, y)' /\ Ordered(x, y)'
  BY <1>1, <1>2 DEF Smooth, Unseen, Ordered, InRound
<1> QED
  BY <1>3, <1>4, <1>5 DEF Smooth

LEMMA RefetchStep ==
    ASSUME OTypeOK, Smooth, NEW r \in Uploads, Alone(r), account' = account, by' = by, object' = object,
           by = "upload" => account.logo = r, job[r].at \in {"refetch", "reread"},
           job'[r].at = "head", job'[r].gen = account.at, job'[r].round = job[r].round
    PROVE  Smooth'
<1> USE DEF Promoting, Undoing, Copying, Through
<1>1. \A x \in Uploads : x # r => job'[x] = job[x]
  BY DEF Alone, Callers
<1>2. object.bytes # r /\ job[r].round = 1 /\ \A x \in Uploads : ~(job[x].at = "copy" /\ job[x].seen = r)
  BY DEF Smooth, Standing, Unseen, Off
<1>3. First'
  BY DEF Smooth, First
<1>4. ASSUME NEW x \in Uploads PROVE Standing(x)' /\ Stamped(x)' /\ Settling(x)'
  BY <1>1, <1>2, Numbers DEF Smooth, Standing, Stamped, Settling, InRound, Off
<1>5. ASSUME NEW x \in Uploads, NEW y \in Uploads PROVE Unseen(x, y)' /\ Ordered(x, y)'
  BY <1>1, <1>2 DEF Smooth, Unseen, Ordered, InRound, Stamped
<1> QED
  BY <1>3, <1>4, <1>5 DEF Smooth

LEMMA StaleStep ==
    ASSUME OTypeOK, Smooth, NEW r \in Uploads, Alone(r), account' = account, by' = by, object' = object,
           job[r].at = "head", Stale(r),
           job'[r].at = "arbiter", job'[r].gen = object.gen + 1, job'[r].round = job[r].round
    PROVE  Smooth'
<1> USE DEF Promoting, Undoing, Copying, Through
<1>1. \A x \in Uploads : x # r => job'[x] = job[x]
  BY DEF Alone, Callers
<1>2. object.bytes # r /\ job[r].gen <= object.gen /\ \A x \in Uploads : ~(job[x].at = "copy" /\ job[x].seen = r)
  BY Numbers DEF Smooth, Standing, Unseen, Stale
<1>3. First'
  BY DEF Smooth, First
<1>4. ASSUME NEW x \in Uploads PROVE Standing(x)' /\ Stamped(x)' /\ Settling(x)'
  BY <1>1, <1>2, Numbers DEF Smooth, Standing, Stamped, Settling, InRound, Off
<1>5. ASSUME NEW x \in Uploads, NEW y \in Uploads PROVE Unseen(x, y)' /\ Ordered(x, y)'
  BY <1>1, <1>2, Numbers DEF Smooth, Unseen, Ordered, InRound
<1> QED
  BY <1>3, <1>4, <1>5 DEF Smooth

LEMMA FreshStep ==
    ASSUME OTypeOK, Smooth, NEW r \in Uploads, Alone(r), account' = account, by' = by, object' = object,
           job[r].at = "head", ~Stale(r), job'[r].at = "copy", job'[r].seen = object.bytes,
           job'[r].gen = job[r].gen, job'[r].round = job[r].round
    PROVE  Smooth'
<1> USE DEF Promoting, Undoing, Copying, Through
<1>1. \A x \in Uploads : x # r => job'[x] = job[x]
  BY DEF Alone, Callers
<1>2. object.bytes # r /\ object.gen < job[r].gen /\ \A x \in Uploads : ~(job[x].at = "copy" /\ job[x].seen = r)
  BY Numbers DEF Smooth, Standing, Unseen, Stale
<1>3. First'
  BY DEF Smooth, First
<1>4. ASSUME NEW x \in Uploads PROVE Standing(x)' /\ Stamped(x)' /\ Settling(x)'
  BY <1>1, <1>2, Numbers DEF Smooth, Standing, Stamped, Settling, InRound, Off
<1>5. ASSUME NEW x \in Uploads, NEW y \in Uploads PROVE Unseen(x, y)' /\ Ordered(x, y)'
  BY <1>1, <1>2, Numbers DEF Smooth, Unseen, Ordered, InRound, Standing
<1> QED
  BY <1>3, <1>4, <1>5 DEF Smooth

(* The bytes change hands only before the owner is done. *)
LEMMA CopyNotOver ==
    ASSUME OTypeOK, Smooth, NEW r \in Uploads, job[r].at = "copy", object.bytes = job[r].seen
    PROVE  /\ object.gen < job[r].gen
           /\ by = "upload" =>
                /\ account.logo \in Uploads
                /\ account.logo # r => job[account.logo].at \notin Through /\ ~InRound(account.logo, 2)
                /\ object.bytes # account.logo
<1> USE DEF Promoting, Undoing, Copying, Through
<1>1. object.gen < job[r].gen /\ (by = "upload" => account.logo \in Uploads) /\ object.bytes # r
  BY DEF Smooth, Standing, Stamped
<1>2. by = "upload" => Ordered(account.logo, r)
  BY <1>1 DEF Smooth
<1>3. object.gen \in Nat /\ job[r].gen \in Nat
  BY Numbers
<1>4. by = "upload" /\ account.logo # r => job[account.logo].at \notin Through /\ ~InRound(account.logo, 2)
  BY <1>1, <1>2, <1>3 DEF Ordered
<1> QED
  BY <1>1, <1>4 DEF Smooth, Standing

LEMMA CopyStep ==
    ASSUME OTypeOK, Smooth, NEW r \in Uploads, Alone(r), account' = account, by' = by,
           job[r].at = "copy", object.bytes = job[r].seen,
           object' = [bytes |-> r, gen |-> job[r].gen], job'[r].at = "publish"
    PROVE  Smooth'
<1> USE DEF Promoting, Undoing, Copying, Through
<1>1. \A x \in Uploads : x # r => job'[x] = job[x]
  BY DEF Alone, Callers
<1>2. /\ object.gen < job[r].gen /\ (by = "upload" => account.logo \in Uploads)
      /\ by = "upload" /\ account.logo # r => job[account.logo].at \notin Through /\ ~InRound(account.logo, 2)
  BY CopyNotOver
<1>3. object'.bytes = r /\ object'.gen = job[r].gen
  OBVIOUS
<1>4. \A x \in Uploads : ~(job[x].at = "copy" /\ job[x].seen = r)
  BY DEF Smooth, Unseen
<1>5. First'
  BY <1>2, Numbers DEF First
<1>6. ASSUME NEW x \in Uploads PROVE Standing(x)' /\ Stamped(x)' /\ Settling(x)'
  <2>1. CASE x = r
    BY <1>2, <1>3, <2>1, Numbers DEF Standing, Stamped, Settling, InRound, Off
  <2>2. CASE x # r
    <3>1. job'[x] = job[x] /\ object'.bytes # x
      BY <1>1, <1>3, <2>2
    <3>2. Standing(x)'
      BY <1>2, <2>2, <3>1 DEF Smooth, Standing, Off
    <3>3. Stamped(x)'
      BY <1>2, <1>3, <1>4, <2>2, <3>1, Numbers DEF Smooth, Stamped
    <3>4. Settling(x)'
      BY <1>2, <1>3, <2>2, <3>1, Numbers DEF Smooth, Settling, InRound
    <3> QED
      BY <3>2, <3>3, <3>4
  <2> QED
    BY <2>1, <2>2
<1>7. ASSUME NEW x \in Uploads, NEW y \in Uploads PROVE Unseen(x, y)' /\ Ordered(x, y)'
  <2>1. Unseen(x, y)'
    BY <1>1, <1>4 DEF Smooth, Unseen
  <2>2. CASE x = r
    BY <1>1, <1>2, <1>3, <2>1, <2>2, Numbers DEF Smooth, Ordered, InRound
  <2>3. CASE x # r
    BY <1>1, <1>2, <1>3, <2>1, <2>3, Numbers DEF Smooth, Ordered, InRound
  <2> QED
    BY <2>2, <2>3
<1> QED
  BY <1>5, <1>6, <1>7 DEF Smooth

LEMMA MissStep ==
    ASSUME OTypeOK, Smooth, NEW r \in Uploads, Alone(r), account' = account, by' = by, object' = object,
           job[r].at = "copy", job'[r].at = "head",
           job'[r].gen = job[r].gen, job'[r].round = job[r].round
    PROVE  Smooth'
<1> USE DEF Promoting, Undoing, Copying, Through
<1>1. \A x \in Uploads : x # r => job'[x] = job[x]
  BY DEF Alone, Callers
<1>2. object.bytes # r /\ \A x \in Uploads : ~(job[x].at = "copy" /\ job[x].seen = r)
  BY DEF Smooth, Standing, Unseen
<1>3. First'
  BY DEF Smooth, First
<1>4. ASSUME NEW x \in Uploads PROVE Standing(x)' /\ Stamped(x)' /\ Settling(x)'
  BY <1>1, <1>2, Numbers DEF Smooth, Standing, Stamped, Settling, InRound, Off
<1>5. ASSUME NEW x \in Uploads, NEW y \in Uploads PROVE Unseen(x, y)' /\ Ordered(x, y)'
  BY <1>1, <1>2, Numbers DEF Smooth, Unseen, Ordered, InRound
<1> QED
  BY <1>3, <1>4, <1>5 DEF Smooth

LEMMA AgainStep ==
    ASSUME OTypeOK, Smooth, NEW r \in Uploads, Alone(r), account' = account, by' = by, object' = object,
           account.logo = r, job[r].at = "arbiter", job'[r].at = "head",
           job'[r].gen = job[r].gen, job'[r].round = job[r].round + 1
    PROVE  Smooth'
<1> USE DEF Promoting, Undoing, Copying, Through
<1>1. \A x \in Uploads : x # r => job'[x] = job[x]
  BY DEF Alone, Callers
<1>2. object.bytes # r /\ \A x \in Uploads : ~(job[x].at = "copy" /\ job[x].seen = r)
  BY DEF Smooth, Standing, Unseen
<1>3. First'
  BY DEF Smooth, First
<1>4. ASSUME NEW x \in Uploads PROVE Standing(x)' /\ Stamped(x)' /\ Settling(x)'
  BY <1>1, <1>2, Numbers DEF Smooth, Standing, Stamped, Settling, InRound, Off
<1>5. ASSUME NEW x \in Uploads, NEW y \in Uploads PROVE Unseen(x, y)' /\ Ordered(x, y)'
  BY <1>1, <1>2, Numbers DEF Smooth, Unseen, Ordered, InRound
<1> QED
  BY <1>3, <1>4, <1>5 DEF Smooth

(* A step of an upload in which nothing fails. *)
LEMMA UploadSmooth ==
    ASSUME OTypeOK, Placed, Dated, Smooth, NEW r \in Uploads, Step(r), ~Outage, ~Vanish(r)
    PROVE  Smooth'
<1> USE DEF Promoting, Undoing, Copying, Through
<1>1. /\ r \in Callers /\ r \notin Earlier /\ r \notin Edits /\ Alone(r)
      /\ Standing(r) /\ Settling(r) /\ job[r].round \in 1 .. 3
  BY Numbers, MovesAlone, UpdatesAssumption DEF Smooth
<1>2. account.at \in Nat /\ account'.at \in Nat /\ account.at <= account'.at
  BY <1>1, AccountMoves DEF OTypeOK, Orgs
<1>3. /\ Off(r) => (by = "upload" => account.logo # r) /\ job[r].round = 1
      /\ job[r].at \in Undoing => (by = "upload" => account.logo # r)
  BY <1>1 DEF Standing
<1>4. Fails(r) => Off(r)' /\ job'[r].round = 1
  BY <1>1, FailsTyped DEF Off
<1>5. \A p \in Places : Turns(r, p) => /\ job'[r].at = p /\ job'[r].gen = job[r].gen
                                       /\ job'[r].round = job[r].round
  BY <1>1, TurnsTyped
<1>6. job[r] \in Jobs /\ job[r].upd \in Orgs /\ account \in Orgs
  BY <1>1 DEF OTypeOK, Jobs
<1>7. CASE Request(r)
  <2>1. job'[r].at = "validate" /\ job'[r].round = 1
    BY <1>1, <1>7, RequestStarts
  <2>2. account' = account /\ by' = by /\ object' = object /\ job[r].at = "new"
    BY <1>7 DEF Request, objects, world
  <2> QED
    BY <1>1, <1>2, <1>3, <2>1, <2>2, OffStep DEF Off
<1>8. CASE ValidatePrecondition(r)
  <2>1. account' = account /\ by' = by /\ object' = object /\ job[r].at = "validate"
    BY <1>8 DEF ValidatePrecondition, objects, world
  <2>2. CASE Fails(r)
    BY <1>1, <1>2, <1>3, <1>4, <2>1, <2>2, OffStep DEF Off
  <2>3. CASE job' = [job EXCEPT ![r] = [job[r] EXCEPT !.at = "store", !.cur = account]]
    <3>1. job'[r].at = "store" /\ job'[r].round = job[r].round
      BY <1>1, <1>6, <2>3 DEF OTypeOK, Jobs
    <3> QED
      BY <1>1, <1>2, <1>3, <2>1, <3>1, OffStep DEF Off
  <2> QED
    BY <1>8, <2>2, <2>3 DEF ValidatePrecondition, Moves
<1>9. CASE Store(r)
  <2>1. account' = account /\ by' = by /\ object' = object /\ job[r].at = "store" /\ Turns(r, "check")
    BY <1>9 DEF Store, world
  <2>2. job'[r].at = "check" /\ job'[r].round = job[r].round
    BY <1>5, <2>1 DEF Places
  <2> QED
    BY <1>1, <1>2, <1>3, <2>1, <2>2, OffStep DEF Off
<1>10. CASE Check(r)
  <2>1. account' = account /\ by' = by /\ object' = object /\ job[r].at = "check"
    BY <1>10 DEF Check, objects, world
  <2>2. Turns(r, "patch") \/ Turns(r, "reread")
    BY <1>1, <1>10 DEF Check, Refused
  <2>3. job'[r].at \in {"patch", "reread"} /\ job'[r].round = job[r].round
    BY <1>5, <2>2 DEF Places
  <2> QED
    BY <1>1, <1>2, <1>3, <2>1, <2>3, OffStep DEF Off
<1>11. CASE Patch(r)
  <2>1. object' = object /\ job[r].at = "patch"
    BY <1>11 DEF Patch, objects
  <2>2. CASE account' = Written(r) /\ Turns(r, "refetch")
    <3>1. job'[r].at = "refetch" /\ job'[r].round = job[r].round
      BY <1>5, <2>2 DEF Places
    <3>2. account'.logo = r
      BY <1>6, <2>2 DEF Written, Orgs
    <3> QED
      BY <1>1, <1>2, <2>1, <3>1, <3>2, CommitStep
  <2>3. CASE UNCHANGED <<account, by>> /\ Turns(r, "reread")
    <3>1. job'[r].at = "reread" /\ job'[r].round = job[r].round
      BY <1>5, <2>3 DEF Places
    <3> QED
      BY <1>1, <1>2, <1>3, <2>1, <2>3, <3>1, OffStep DEF Off
  <2> QED
    BY <1>11, <2>2, <2>3 DEF Patch, Refused
<1>12. CASE Refetch(r)
  <2>1. account' = account /\ by' = by /\ object' = object /\ job[r].at = "refetch"
    BY <1>12 DEF Refetch, world
  <2>2. CASE account.logo = r /\ Committed(r)
    <3>1. job'[r].at = "head" /\ job'[r].gen = account.at /\ job'[r].round = job[r].round
      BY <1>1, <2>2, CommittedTyped
    <3> QED
      BY <1>1, <2>1, <2>2, <3>1, RefetchStep
  <2>3. CASE account.logo # r /\ Answers(r, account)
    <3>1. job'[r].at = "answered"
      BY <1>1, <1>6, <2>3, AnswersTyped
    <3> QED
      BY <1>1, <2>1, <2>3, <3>1, AnswerStep
  <2> QED
    BY <1>1, <1>12, <2>2, <2>3 DEF Refetch
<1>13. CASE Reread(r)
  <2>1. account' = account /\ by' = by /\ object' = object /\ job[r].at = "reread"
    BY <1>13 DEF Reread, world
  <2>2. job[r].round = 1 /\ (by = "upload" => account.logo # r)
    BY <1>3, <2>1 DEF Off
  <2>3. CASE Fails(r)
    BY <1>1, <1>2, <1>4, <2>1, <2>2, <2>3, OffStep
  <2>4. CASE account.logo = r /\ Committed(r)
    <3>1. job'[r].at = "head" /\ job'[r].gen = account.at /\ job'[r].round = job[r].round
      BY <1>1, <2>4, CommittedTyped
    <3> QED
      BY <1>1, <2>1, <2>4, <3>1, RefetchStep
  <2> QED
    BY <1>13, <2>3, <2>4 DEF Reread
<1>14. CASE HeadObject(r)
  <2>1. account' = account /\ by' = by /\ object' = object /\ job[r].at = "head"
    BY <1>14 DEF HeadObject, objects, world
  <2>2. CASE Stale(r) /\ job' = [job EXCEPT ![r] = [job[r] EXCEPT !.at = "arbiter", !.gen = object.gen + 1]]
    <3>1. job'[r].at = "arbiter" /\ job'[r].gen = object.gen + 1 /\ job'[r].round = job[r].round
      BY <1>1, <1>6, <2>2 DEF OTypeOK, Jobs
    <3> QED
      BY <1>1, <2>1, <2>2, <3>1, StaleStep
  <2>3. CASE ~Stale(r) /\ job' = [job EXCEPT ![r] = [job[r] EXCEPT !.at = "copy", !.seen = object.bytes]]
    <3>1. /\ job'[r].at = "copy" /\ job'[r].seen = object.bytes
          /\ job'[r].gen = job[r].gen /\ job'[r].round = job[r].round
      BY <1>1, <1>6, <2>3 DEF OTypeOK, Jobs
    <3> QED
      BY <1>1, <2>1, <2>3, <3>1, FreshStep
  <2> QED
    BY <1>14, <2>2, <2>3 DEF HeadObject, Moves
<1>15. CASE CopyObject(r)
  <2>1. account' = account /\ by' = by /\ job[r].at = "copy"
    BY <1>15 DEF CopyObject, world
  <2>2. CASE /\ object.bytes = job[r].seen /\ Turns(r, "publish")
             /\ object' = [bytes |-> r, gen |-> job[r].gen]
    <3>1. job'[r].at = "publish"
      BY <1>5, <2>2 DEF Places
    <3> QED
      BY <1>1, <2>1, <2>2, <3>1, CopyStep
  <2>3. CASE object' = object /\ Turns(r, "head")
    <3>1. job'[r].at = "head" /\ job'[r].gen = job[r].gen /\ job'[r].round = job[r].round
      BY <1>5, <2>3 DEF Places
    <3> QED
      BY <1>1, <2>1, <2>3, <3>1, MissStep
  <2> QED
    BY <1>15, <2>2, <2>3 DEF CopyObject
<1>16. CASE Arbiter(r)
  <2>1. account' = account /\ by' = by /\ object' = object /\ job[r].at = "arbiter"
    BY <1>16 DEF Arbiter, world
  <2>2. CASE account.logo # r /\ Answers(r, job[r].upd)
    <3>1. job'[r].at = "answered"
      BY <1>1, <1>6, <2>2, AnswersTyped
    <3> QED
      BY <1>1, <2>1, <2>2, <3>1, AnswerStep
  <2>3. CASE account.logo = r /\ job[r].round < 3
    <3>1. job' = [job EXCEPT ![r] = [job[r] EXCEPT !.at = "head", !.round = @ + 1]]
      BY <1>16, <2>3 DEF Arbiter, Moves
    <3>2. job'[r].at = "head" /\ job'[r].gen = job[r].gen /\ job'[r].round = job[r].round + 1
      BY <1>1, <1>6, <3>1 DEF OTypeOK, Jobs
    <3> QED
      BY <1>1, <2>1, <2>3, <3>2, AgainStep
  <2>4. CASE account.logo = r /\ ~(job[r].round < 3)
    <3>1. by # "upload"
      BY <1>1, <2>1, <2>4 DEF Settling
    <3>2. Turns(r, "undo")
      BY <1>16, <2>4 DEF Arbiter
    <3>3. job'[r].at = "undo"
      BY <1>5, <3>2 DEF Places
    <3> QED
      BY <1>1, <1>2, <2>1, <3>1, <3>3, OffStep
  <2> QED
    BY <1>16, <2>2, <2>3, <2>4 DEF Arbiter
<1>17. CASE PublishOrg(r)
  <2>1. account' = account /\ by' = by /\ object' = object /\ job[r].at = "publish" /\ Answers(r, job[r].upd)
    BY <1>17 DEF PublishOrg, Response, world
  <2>2. job'[r].at = "answered"
    BY <1>1, <1>6, <2>1, AnswersTyped
  <2> QED
    BY <1>1, <2>1, <2>2, AnswerStep
<1>18. CASE Undo(r)
  <2>1. account' = account /\ by' = by /\ object' = object /\ job[r].at = "undo"
    BY <1>18 DEF Undo, objects, world
  <2>2. CASE Turns(r, "undoPatch")
    <3>1. job'[r].at = "undoPatch"
      BY <1>5, <2>2 DEF Places
    <3> QED
      BY <1>1, <1>2, <1>3, <2>1, <3>1, OffStep
  <2>3. CASE Fails(r)
    BY <1>1, <1>2, <1>3, <1>4, <2>1, <2>3, OffStep
  <2> QED
    BY <1>18, <2>2, <2>3 DEF Undo
<1>19. CASE UndoPatch(r)
  <2>1. object' = object /\ job[r].at = "undoPatch" /\ Fails(r)
    BY <1>19 DEF UndoPatch
  <2>2. by = "upload" => account.logo # r
    BY <1>3, <2>1
  <2>3. by' = "upload" => by = "upload" /\ account'.logo = account.logo
    BY <1>19, <2>2 DEF UndoPatch
  <2> QED
    BY <1>1, <1>2, <1>4, <2>1, <2>2, <2>3, OffStep
<1> QED
  BY <1>7, <1>8, <1>9, <1>10, <1>11, <1>12, <1>13, <1>14, <1>15, <1>16, <1>17, <1>18, <1>19
  DEF Step, Update, Upload, Promote

LEMMA EditSmooth ==
    ASSUME OTypeOK, Placed, Dated, Smooth, NEW r \in Edits, Step(r)
    PROVE  Smooth'
<1>1. r \in Callers /\ r \notin Uploads /\ Alone(r)
  BY EditSteps, MovesAlone
<1>2. account'.at \in Nat /\ account.at <= account'.at
  BY <1>1, AccountMoves
<1>3. \/ account' = account /\ by' = by
      \/ by' = "upload" => by = "upload" /\ account'.logo = account.logo
  BY <1>1, EditSteps DEF Request, Check, Patch, Refetch, PublishOrg, Vanish, world
<1>4. by' = "upload" => by = "upload" /\ account'.logo = account.logo
  BY <1>3
<1>5. object' = object
  BY EditSteps DEF Request, Check, Patch, Refetch, PublishOrg, Vanish, objects
<1>6. \A x \in Uploads : job'[x] = job[x]
  BY <1>1 DEF Alone, Callers
<1> QED
  BY <1>2, <1>4, <1>5, <1>6, Unmoved

LEMMA StepOutages == ASSUME NEW r \in Callers, Step(r) PROVE Outage \/ NoOutage
  BY DEF Step, Update, Upload, Promote, Request, Check, Patch, Refetch, PublishOrg, ValidatePrecondition,
         Store, Reread, HeadObject, CopyObject, Arbiter, Undo, UndoPatch, Vanish

Quiet == outages = 0 => Smooth

LEMMA QuietKept == ASSUME OTypeOK, Placed, Dated, Quiet, [ONext]_ovars PROVE Quiet'
<1>1. ASSUME NEW r \in Callers, Step(r), outages' = 0 PROVE Smooth'
  <2>1. outages = 0 /\ ~Outage
    BY <1>1, StepOutages, OutagesTyped
  <2>2. Smooth /\ ~Vanish(r)
    BY <2>1 DEF Quiet, Vanish
  <2> QED
    BY <1>1, <2>1, <2>2, UploadSmooth, EditSmooth DEF Callers
<1>2. ASSUME UNCHANGED <<account, by, objects, job, outages>> PROVE Quiet'
  <2>1. account.at \in Nat /\ object' = object
    BY <1>2 DEF OTypeOK, Orgs, objects
  <2> QED
    BY <1>2, <2>1, Unmoved DEF Quiet
<1> QED
  BY <1>1, <1>2 DEF ONext, Step, Tick, ovars, world, Quiet

LEMMA InitSmooth == ASSUME OInit PROVE Smooth
<1> USE DEF Promoting, Undoing, Copying, Through
<1>1. PICK l \in Earlier :
         /\ account = [NoOrg EXCEPT !.logo = l, !.at = 1]
         /\ object = [bytes |-> l, gen |-> 0]
  BY DEF OInit
<1>2. account.logo = l /\ object.bytes = l
  BY <1>1 DEF NoOrg
<1>3. \A x \in Uploads : x \notin Earlier /\ job[x].at = "new" /\ job[x].round = 1
  BY UpdatesAssumption DEF Callers, OInit, NoJob
<1> QED
  BY <1>2, <1>3 DEF Smooth, First, Standing, Stamped, Settling, InRound, Unseen, Ordered, Off

(* While nothing has failed, the uploads stand as Smooth says.             *)
THEOREM QuietAlways == OSpec => [](OTypeOK /\ Placed /\ Dated /\ Quiet)
<1>1. OInit => Quiet
  BY InitSmooth DEF Quiet
<1>2. OTypeOK /\ Placed /\ Dated /\ Quiet /\ [ONext]_ovars => Quiet'
  BY QuietKept
<1> QED
  BY <1>1, <1>2, DatedAlways, PTL DEF OSpec

----------------------------------------------------------------------------
LEMMA NextOwner ==
    ASSUME OTypeOK, Placed, Dated, Quiet, [ONext]_ovars
    PROVE  [OwnerKept]_ovars
<1>1. ASSUME NEW r \in Callers, Step(r), outages' = 0, by = "upload", object.bytes = account.logo
      PROVE  object' = object
  <2>1. outages = 0
    BY <1>1, StepOutages, OutagesTyped
  <2>2. CASE CopyObject(r)
    <3>1. r \in Uploads /\ job[r].at = "copy"
      BY <2>2 DEF CopyObject, Placed, Editing, Callers
    <3>2. object.bytes # job[r].seen
      BY <1>1, <2>1, <3>1, CopyNotOver DEF Quiet
    <3> QED
      BY <2>2, <3>2 DEF CopyObject
  <2>3. CASE ~CopyObject(r)
    BY <1>1, <2>3 DEF Step, Update, Upload, Promote, Request, Check, Patch, Refetch, PublishOrg,
       ValidatePrecondition, Store, Reread, HeadObject, Arbiter, Undo, UndoPatch, Vanish, objects
  <2> QED
    BY <2>2, <2>3
<1>2. CASE UNCHANGED object
  BY <1>2 DEF OwnerKept
<1>3. CASE \E r \in Callers : Step(r)
  BY <1>1, <1>3 DEF OwnerKept
<1> QED
  BY <1>2, <1>3 DEF ONext, Step, Tick, ovars, objects

(* Once the bytes at the shared key are those of the logo the record       *)
(* points at, no delayed copy lands over them, whatever the dates of the   *)
(* commits, whatever edits wrote before the last of them, and however many *)
(* uploads there are; as long as no edit moves the URL by hand.            *)
THEOREM OwnersAlwaysKept == OSpec => OwnersKept
<1>1. OTypeOK /\ Placed /\ Dated /\ Quiet /\ [ONext]_ovars => [OwnerKept]_ovars
  BY NextOwner
<1> QED
  BY <1>1, QuietAlways, PTL DEF OSpec, OwnersKept

(* Without failures, once every request has ended the shared key holds the *)
(* logo the record points at, unless an edit has moved the URL since the   *)
(* last commit: the three rounds of the arbiter are enough, also after     *)
(* edits that brought back the URLs of uploads still under way.            *)
THEOREM LogoAlwaysServed == OSpec => []LogoServed
<1>1. OTypeOK /\ Quiet => LogoServed
  <2>1. SUFFICES ASSUME OTypeOK, Quiet, outages = 0, by = "upload", \A r \in Callers : job[r].at \notin Ongoing
                 PROVE  object.bytes = account.logo
    BY DEF LogoServed
  <2>2. Smooth
    BY <2>1 DEF Quiet
  <2>3. CASE account.logo \notin Uploads
    BY <2>1, <2>2, <2>3 DEF Smooth, First
  <2>4. CASE account.logo \in Uploads
    <3>1. PICK u \in Uploads : u = account.logo
      BY <2>4
    <3>2. Standing(u) /\ u \in Callers
      BY <2>2 DEF Smooth, Callers
    <3>3. job[u].at \in Through
      BY <2>1, <3>1, <3>2 DEF Standing, Off, Ongoing, Places, Promoting, Undoing, Through
    <3> QED
      BY <2>1, <3>1, <3>2, <3>3 DEF Standing
  <2> QED
    BY <2>3, <2>4
<1> QED
  BY <1>1, QuietAlways, PTL

----------------------------------------------------------------------------
(***************************************************************************)
(* Requests that come one after another.                                   *)
(*                                                                         *)
(* Whatever fails, a logo the record points at has its bytes somewhere: an *)
(* upload drops its scratch object only when the record does not point at  *)
(* it, or the bytes are at the shared key; and the logo a rollback puts    *)
(* back is the one found at first, whose bytes nobody has touched since.   *)
(***************************************************************************)
Before == {"new", "validate", "store", "check", "patch"}

(* An upload whose URL was written has its bytes somewhere.                *)
Landed(l) == l \in Uploads => job[l].at \notin Before /\ l \in promoted \union scratch

(* What an upload under way holds.                                         *)
Holds(r) ==
    /\ job[r].at \in Ongoing \ {"validate"} => Landed(job[r].cur.logo) /\ job[r].cur.logo # r
    /\ job[r].at \in Ongoing \ {"validate", "store", "publish"} => r \in scratch
    /\ job[r].at = "publish" => r \in promoted

(* An edit sends a URL the record has had, or one that is no upload's. *)
Sending(r) == job[r].at \in Ongoing => Landed(job[r].url)

Safe ==
    /\ Landed(account.logo)
    /\ \A r \in promoted : job[r].at \notin Before
    /\ \A r \in Uploads : Holds(r)
    /\ \A r \in Edits : Sending(r)

(* The other requests are not under way.                                   *)
Others(r) == \A x \in Callers \ {r} : job[x].at \notin Ongoing

LEMMA TurnsKeep ==
    ASSUME OTypeOK, NEW r \in Callers, NEW p \in Places, Turns(r, p)
    PROVE  job'[r].at = p /\ job'[r].cur = job[r].cur /\ job'[r].url = job[r].url /\ Alone(r)
<1>1. job[r] \in Jobs
  BY DEF OTypeOK
<1>2. [job[r] EXCEPT !.at = p].cur = job[r].cur /\ [job[r] EXCEPT !.at = p].url = job[r].url
  BY <1>1 DEF Jobs
<1>3. job'[r] = [job[r] EXCEPT !.at = p]
  BY DEF Turns, Moves, OTypeOK
<1> QED
  BY <1>2, <1>3, TurnsTyped

(* A logo that is not the request's own stays where it is.                 *)
LEMMA LandedStays ==
    ASSUME NEW r \in Callers, Alone(r), promoted \subseteq promoted', scratch \ {r} \subseteq scratch',
           NEW l, Landed(l), l # r
    PROVE  l \in Uploads => job'[l].at \notin Before /\ l \in promoted' \union scratch'
BY DEF Landed, Alone, Callers

(* What a step of a request has to show.                                   *)
LEMMA SafeStep ==
    ASSUME OTypeOK, Safe, NEW r \in Callers, Others(r), Alone(r),
           promoted \subseteq promoted', scratch \ {r} \subseteq scratch',
           \/ account'.logo = account.logo
           \/ account'.logo = r
           \/ r \in Uploads /\ job[r].at = "undoPatch" /\ account'.logo = job[r].cur.logo
           \/ r \in Edits /\ job[r].at \in Ongoing /\ account'.logo = job[r].url
           \/ account'.logo \notin Callers,
           promoted' \subseteq promoted \union {r},
           job'[r].at \in Before => job[r].at \in Before /\ promoted' = promoted,
           r \in Edits /\ job'[r].at \in Ongoing =>
             job'[r].url \in Sendable \/ (job[r].at \in Ongoing /\ job'[r].url = job[r].url),
           account'.logo = r /\ r \in Uploads => job'[r].at \notin Before /\ r \in promoted' \union scratch',
           r \in Uploads =>
             /\ job'[r].at \in Ongoing \ {"validate"} =>
                  \/ job'[r].cur = account /\ job[r].at = "validate"
                  \/ job'[r].cur = job[r].cur /\ job[r].at \in Ongoing \ {"validate"}
             /\ job'[r].at \in Ongoing \ {"validate", "store", "publish"} => r \in scratch'
             /\ job'[r].at = "publish" => r \in promoted'
    PROVE  Safe'
<1>1. \A l : Landed(l) /\ l # r => (l \in Uploads => job'[l].at \notin Before /\ l \in promoted' \union scratch')
  BY LandedStays
<1>4. promoted \subseteq Uploads /\ Uploads \subseteq Callers /\ Uploads \intersect Edits = {}
  BY UpdatesAssumption DEF OTypeOK, Callers
<1>5. ASSUME NEW l \in Sendable PROVE Landed(l)
  <2>1. CASE l \in promoted
    BY <1>4, <2>1 DEF Safe, Landed
  <2>2. CASE l = account.logo
    BY <2>2 DEF Safe
  <2>3. CASE l \notin Uploads
    BY <2>3 DEF Landed
  <2> QED
    BY <1>4, <2>1, <2>2, <2>3, UpdatesAssumption DEF Sendable, Earlier, Callers
<1>6. ASSUME NEW x \in promoted' PROVE job'[x].at \notin Before
  <2>1. CASE x = r
    BY <1>6, <2>1 DEF Safe
  <2>2. CASE x # r
    BY <1>4, <1>6, <2>2 DEF Safe, Alone
  <2> QED
    BY <2>1, <2>2
<1>7. ASSUME NEW x \in Edits PROVE Sending(x)'
  <2>1. CASE x # r
    <3>1. job'[x].at \notin Ongoing
      BY <2>1 DEF Others, Alone, Callers
    <3> QED
      BY <3>1 DEF Sending
  <2>2. CASE x = r /\ job'[r].at \in Ongoing
    <3>1. PICK l : l = job'[r].url
      OBVIOUS
    <3>2. Landed(l) /\ (l \in Uploads => l # r)
      <4>1. CASE l \in Sendable
        BY <1>4, <1>5, <2>2, <4>1
      <4>2. CASE job[r].at \in Ongoing /\ l = job[r].url
        BY <1>4, <2>2, <4>2 DEF Safe, Sending
      <4> QED
        BY <2>2, <3>1, <4>1, <4>2
    <3>3. l \in Uploads => job'[l].at \notin Before /\ l \in promoted' \union scratch'
      BY <1>1, <3>2
    <3> QED
      BY <2>2, <3>1, <3>3 DEF Sending, Landed
  <2> QED
    BY <2>1, <2>2 DEF Sending
<1>2. CASE r \notin Uploads
  <2>1. account'.logo \in Uploads => Landed(account'.logo) /\ account'.logo # r
    <3>1. r \in Edits
      BY <1>2 DEF Callers
    <3>2. job[r].at \in Ongoing => Landed(job[r].url)
      BY <3>1 DEF Safe, Sending
    <3>3. PICK l : l = account'.logo
      OBVIOUS
    <3>4. l \in Uploads => Landed(l) /\ l # r
      BY <1>2, <1>4, <3>1, <3>2, <3>3 DEF Safe
    <3> QED
      BY <3>3, <3>4
  <2>2. \A x \in Uploads : job'[x].at \notin Ongoing
    BY <1>2 DEF Others, Alone, Callers
  <2>3. Landed(account.logo)'
    <3>1. PICK l : l = account'.logo
      OBVIOUS
    <3>2. l \in Uploads => Landed(l) /\ l # r
      BY <2>1, <3>1
    <3>3. l \in Uploads => job'[l].at \notin Before /\ l \in promoted' \union scratch'
      BY <1>1, <3>2
    <3> QED
      BY <3>1, <3>3 DEF Landed
  <2>4. \A x \in Uploads : Holds(x)'
    BY <2>2 DEF Holds, Ongoing, Places
  <2> QED
    BY <1>6, <1>7, <2>3, <2>4 DEF Safe
<1>3. CASE r \in Uploads
  <2>1. Holds(r) /\ Landed(account.logo)
    BY <1>3 DEF Safe
  <2>2. Landed(account.logo)'
    <3>1. CASE account'.logo = r
      BY <1>3, <3>1 DEF Landed
    <3>2. CASE account'.logo = account.logo /\ account'.logo # r
      BY <1>1, <2>1, <3>2 DEF Landed
    <3>3. CASE account'.logo = job[r].cur.logo /\ account'.logo # r /\ job[r].at = "undoPatch"
      <4>1. Landed(job[r].cur.logo)
        BY <2>1, <3>3 DEF Holds, Ongoing, Places
      <4> QED
        BY <1>1, <3>3, <4>1 DEF Landed
    <3>4. CASE account'.logo \notin Callers
      BY <1>4, <3>4 DEF Landed
    <3> QED
      BY <1>3, <1>4, <3>1, <3>2, <3>3, <3>4
  <2>3. ASSUME job'[r].at \in Ongoing \ {"validate"} PROVE Landed(job[r].cur.logo)' /\ job'[r].cur.logo # r
    <3>1. PICK l : l = job'[r].cur.logo
      OBVIOUS
    <3>2. Landed(l) /\ l # r
      <4>1. CASE job'[r].cur = account /\ job[r].at = "validate"
        <5>1. account.logo # r
          BY <1>3, <2>1, <4>1 DEF Landed, Before
        <5> QED
          BY <2>1, <3>1, <4>1, <5>1
      <4>2. CASE job'[r].cur = job[r].cur /\ job[r].at \in Ongoing \ {"validate"}
        BY <2>1, <3>1, <4>2 DEF Holds
      <4> QED
        BY <1>3, <2>3, <4>1, <4>2
    <3>3. l \in Uploads => job'[l].at \notin Before /\ l \in promoted' \union scratch'
      BY <1>1, <3>2
    <3> QED
      BY <3>1, <3>2, <3>3 DEF Landed
  <2>4. Holds(r)'
    BY <1>3, <2>3 DEF Holds
  <2>5. \A x \in Uploads \ {r} : Holds(x)'
    <3>1. \A x \in Uploads \ {r} : job'[x].at \notin Ongoing
      BY DEF Others, Alone, Callers
    <3> QED
      BY <3>1 DEF Holds, Ongoing, Places
  <2> QED
    BY <1>6, <1>7, <2>2, <2>4, <2>5 DEF Safe
<1> QED
  BY <1>2, <1>3

(* A request that ends.                                                    *)
LEMMA EndSafe ==
    ASSUME OTypeOK, Safe, NEW r \in Callers, Others(r), Alone(r),
           job'[r].at \in {"answered", "failed"},
           promoted \subseteq promoted', scratch \ {r} \subseteq scratch',
           \/ account'.logo = account.logo
           \/ r \in Uploads /\ job[r].at = "undoPatch" /\ account'.logo = job[r].cur.logo
           \/ r \in Edits /\ job[r].at \in Ongoing /\ account'.logo = job[r].url
           \/ account'.logo \notin Callers,
           promoted' \subseteq promoted \union {r},
           account'.logo = r /\ r \in Uploads => r \in promoted' \union scratch'
    PROVE  Safe'
<1>1. job'[r].at \notin Ongoing /\ job'[r].at \notin Before
  BY DEF Ongoing, Places, Before
<1> QED
  BY <1>1, SafeStep

(* An edit leaves the logo alone, or puts the URL it sends in its place.   *)
LEMMA EditSafe ==
    ASSUME OTypeOK, Placed, Safe, NEW r \in Edits, Others(r), Step(r)
    PROVE  Safe'
<1> USE DEF Ongoing, Places, Before
<1>0. r \in Callers /\ r \notin Uploads /\ Alone(r) /\ job[r] \in Jobs
  BY EditSteps, MovesAlone DEF OTypeOK
<1>1. scratch' = scratch /\ promoted' = promoted
  BY <1>0, EditSteps DEF Request, Check, Patch, Refetch, PublishOrg, Vanish, objects
<1>2. \A p \in Places : Turns(r, p) => job'[r].at = p /\ job'[r].url = job[r].url
  BY <1>0, TurnsKeep
<1>3. \A org \in Orgs : Answers(r, org) => job'[r].at = "answered"
  BY <1>0, AnswersTyped
<1>4. Fails(r) => job'[r].at = "failed"
  BY <1>0, FailsTyped
<1>5. account \in Orgs /\ job[r].upd \in Orgs /\ Response(r) \in Orgs
  BY <1>0 DEF OTypeOK, Response, Parented, Jobs, Orgs
<1>6. CASE Request(r)
  <2>1. account' = account /\ job[r].at = "new"
    BY <1>6 DEF Request
  <2>2. job'[r].at = "check" /\ job'[r].url \in Sendable
    BY <1>0, <1>6, RequestStarts
  <2> QED
    BY <1>0, <1>1, <2>1, <2>2, SafeStep
<1>7. CASE Check(r)
  <2>1. account' = account /\ job[r].at = "check"
    BY <1>7 DEF Check
  <2>2. job'[r].at \in {"answered", "failed"} \/ (job'[r].at = "patch" /\ job'[r].url = job[r].url)
    BY <1>0, <1>2, <1>3, <1>4, <1>5, <1>7 DEF Check, Refused
  <2> QED
    BY <1>0, <1>1, <2>1, <2>2, EndSafe, SafeStep
<1>8. CASE Patch(r)
  <2>1. job[r].at = "patch"
    BY <1>8 DEF Patch
  <2>2. account'.logo \in {account.logo, job[r].url}
    BY <1>0, <1>5, <1>8 DEF Patch, Written, Orgs
  <2>3. job'[r].at = "failed" \/ (job'[r].at = "refetch" /\ job'[r].url = job[r].url)
    BY <1>0, <1>2, <1>4, <1>8 DEF Patch, Refused
  <2> QED
    BY <1>0, <1>1, <2>1, <2>2, <2>3, SafeStep
<1>9. CASE Refetch(r)
  <2>1. account' = account /\ job[r].at = "refetch"
    BY <1>9 DEF Refetch
  <2>2. job'[r].at = "failed" \/ (job'[r].at = "publish" /\ job'[r].url = job[r].url)
    <3>1. CASE Moves(r, [job[r] EXCEPT !.at = "publish", !.upd = account])
      <4>1. job'[r] = [job[r] EXCEPT !.at = "publish", !.upd = account]
        BY <1>0, <3>1 DEF Moves, OTypeOK
      <4> QED
        BY <1>0, <4>1 DEF Jobs
    <3> QED
      BY <1>0, <1>4, <1>9, <3>1 DEF Refetch, Refused
  <2> QED
    BY <1>0, <1>1, <2>1, <2>2, SafeStep
<1>10. CASE PublishOrg(r) \/ Vanish(r)
  <2>1. account' = account /\ job'[r].at \in {"answered", "failed"}
    BY <1>3, <1>4, <1>5, <1>10 DEF PublishOrg, Vanish
  <2> QED
    BY <1>0, <1>1, <2>1, EndSafe
<1> QED
  BY <1>6, <1>7, <1>8, <1>9, <1>10, EditSteps

(* The record does not point at an upload that has not written.            *)
LEMMA NotYet ==
    ASSUME Safe, NEW r \in Uploads, job[r].at \in Before
    PROVE  account.logo # r
BY DEF Safe, Landed

LEMMA UploadSafe ==
    ASSUME OTypeOK, Safe, NEW r \in Uploads, Others(r), Step(r)
    PROVE  Safe'
<1> USE DEF Ongoing, Places, Before
<1>0. r \in Callers /\ Alone(r) /\ job[r] \in Jobs /\ Holds(r) /\ Landed(account.logo) /\ r \notin Edits
  BY MovesAlone, UpdatesAssumption DEF Callers, OTypeOK, Safe
<1>1. \A p \in Places : Turns(r, p) => job'[r].at = p /\ job'[r].cur = job[r].cur
  BY <1>0, TurnsKeep
<1>2. \A org \in Orgs : Answers(r, org) => job'[r].at = "answered"
  BY <1>0, AnswersTyped
<1>3. Fails(r) => job'[r].at = "failed"
  BY <1>0, FailsTyped
<1>4. Committed(r) => job'[r].at = "head" /\ job'[r].cur = job[r].cur
  <2>1. ASSUME Committed(r) PROVE job'[r] = [job[r] EXCEPT !.at = "head", !.upd = account, !.gen = account.at]
    BY <1>0, <2>1 DEF Committed, Moves, OTypeOK
  <2> QED
    BY <1>0, <2>1 DEF Jobs
<1>5. account \in Orgs /\ job[r].upd \in Orgs /\ Response(r) \in Orgs
  BY <1>0 DEF OTypeOK, Response, Parented, Jobs, Orgs
<1>6. job[r].at \in Before => account.logo # r
  BY NotYet
<1>7. CASE Request(r)
  <2>2. job'[r].at = "validate"
    BY <1>0, <1>7, RequestStarts
  <2>3. /\ account' = account /\ scratch' = scratch /\ promoted' = promoted /\ account.logo # r
        /\ job[r].at = "new"
    BY <1>6, <1>7 DEF Request, objects
  <2> QED
    BY <1>0, <2>2, <2>3, SafeStep
<1>8. CASE ValidatePrecondition(r)
  <2>1. account' = account /\ scratch' = scratch /\ promoted' = promoted /\ account.logo # r /\ job[r].at = "validate"
    BY <1>6, <1>8 DEF ValidatePrecondition, objects
  <2>2. CASE Moves(r, [job[r] EXCEPT !.at = "store", !.cur = account])
    <3>1. job'[r] = [job[r] EXCEPT !.at = "store", !.cur = account]
      BY <1>0, <2>2 DEF Moves, OTypeOK
    <3>2. job'[r].at = "store" /\ job'[r].cur = account
      BY <1>0, <3>1 DEF Jobs
    <3> QED
      BY <1>0, <2>1, <3>2, SafeStep
  <2>3. CASE Fails(r)
    BY <1>0, <1>3, <2>1, <2>3, EndSafe
  <2> QED
    BY <1>8, <2>2, <2>3 DEF ValidatePrecondition
<1>9. CASE Store(r)
  <2>1. account' = account /\ promoted' = promoted /\ account.logo # r /\ job[r].at = "store"
    BY <1>6, <1>9 DEF Store
  <2>2. CASE scratch' = scratch \union {r} /\ Turns(r, "check")
    <3>1. job'[r].at = "check" /\ job'[r].cur = job[r].cur
      BY <1>1, <2>2
    <3> QED
      BY <1>0, <2>1, <2>2, <3>1, SafeStep
  <2>3. CASE UNCHANGED scratch /\ Fails(r)
    BY <1>0, <1>3, <2>1, <2>3, EndSafe
  <2> QED
    BY <1>9, <2>2, <2>3 DEF Store
<1>10. CASE Check(r)
  <2>1. /\ account' = account /\ scratch' = scratch /\ promoted' = promoted /\ account.logo # r
        /\ job[r].at = "check" /\ r \in scratch
    BY <1>0, <1>6, <1>10 DEF Check, objects, Holds
  <2>2. job'[r].at \in {"patch", "reread"} /\ job'[r].cur = job[r].cur
    BY <1>0, <1>1, <1>10 DEF Check, Refused
  <2> QED
    BY <1>0, <2>1, <2>2, SafeStep
<1>11. CASE Patch(r)
  <2>1. /\ scratch' = scratch /\ promoted' = promoted /\ account.logo # r
        /\ job[r].at = "patch" /\ r \in scratch
    BY <1>0, <1>6, <1>11 DEF Patch, objects, Holds
  <2>2. account'.logo \in {account.logo, r}
    BY <1>11 DEF Patch, Written, OTypeOK, Orgs
  <2>3. job'[r].at \in {"refetch", "reread"} /\ job'[r].cur = job[r].cur
    BY <1>0, <1>1, <1>11 DEF Patch, Refused
  <2> QED
    BY <1>0, <2>1, <2>2, <2>3, SafeStep
<1>12. CASE Refetch(r)
  <2>1. account' = account /\ promoted' = promoted /\ job[r].at = "refetch" /\ r \in scratch
    BY <1>0, <1>12 DEF Refetch, Holds
  <2>2. CASE Committed(r) /\ UNCHANGED scratch
    BY <1>0, <1>4, <2>1, <2>2, SafeStep
  <2>3. CASE account.logo # r /\ Answers(r, account) /\ Discard(r)
    BY <1>0, <1>2, <1>5, <2>1, <2>3, EndSafe DEF Discard
  <2>4. CASE Refused(r) /\ UNCHANGED scratch
    <3>1. job'[r].at = "reread" /\ job'[r].cur = job[r].cur
      BY <1>1, <2>4 DEF Refused
    <3> QED
      BY <1>0, <2>1, <2>4, <3>1, SafeStep
  <2> QED
    BY <1>0, <1>12, <2>2, <2>3, <2>4 DEF Refetch
<1>13. CASE Reread(r)
  <2>1. account' = account /\ promoted' = promoted /\ job[r].at = "reread" /\ r \in scratch
    BY <1>0, <1>13 DEF Reread, Holds
  <2>2. CASE Committed(r) /\ UNCHANGED scratch
    BY <1>0, <1>4, <2>1, <2>2, SafeStep
  <2>3. CASE account.logo # r /\ Fails(r) /\ Discard(r)
    BY <1>0, <1>3, <2>1, <2>3, EndSafe DEF Discard
  <2>4. CASE Fails(r) /\ UNCHANGED scratch
    BY <1>0, <1>3, <2>1, <2>4, EndSafe
  <2> QED
    BY <1>13, <2>2, <2>3, <2>4 DEF Reread
<1>14. CASE HeadObject(r)
  <2>1. /\ account' = account /\ scratch' = scratch /\ promoted' = promoted
        /\ job[r].at = "head" /\ r \in scratch
    BY <1>0, <1>14 DEF HeadObject, objects, Holds
  <2>2. job'[r].at \in {"head", "arbiter", "copy", "undo"} /\ job'[r].cur = job[r].cur
    <3>1. CASE Retry(r)
      BY <1>1, <3>1 DEF Retry
    <3>2. CASE \/ Moves(r, [job[r] EXCEPT !.at = "arbiter", !.gen = object.gen + 1])
               \/ Moves(r, [job[r] EXCEPT !.at = "copy", !.seen = object.bytes])
      <4>1. \/ job'[r] = [job[r] EXCEPT !.at = "arbiter", !.gen = object.gen + 1]
            \/ job'[r] = [job[r] EXCEPT !.at = "copy", !.seen = object.bytes]
        BY <1>0, <3>2 DEF Moves, OTypeOK
      <4> QED
        BY <1>0, <4>1 DEF Jobs
    <3> QED
      BY <1>14, <3>1, <3>2 DEF HeadObject
  <2> QED
    BY <1>0, <2>1, <2>2, SafeStep
<1>15. CASE CopyObject(r)
  <2>1. /\ account' = account /\ scratch' = scratch
        /\ promoted \subseteq promoted' /\ promoted' \subseteq promoted \union {r}
        /\ job[r].at = "copy" /\ r \in scratch
    BY <1>0, <1>15 DEF CopyObject, Holds
  <2>2. /\ job'[r].at \in {"head", "undo", "publish"} /\ job'[r].cur = job[r].cur
        /\ job'[r].at = "publish" => r \in promoted'
    BY <1>1, <1>15 DEF CopyObject, Retry
  <2> QED
    BY <1>0, <2>1, <2>2, SafeStep
<1>16. CASE Arbiter(r)
  <2>1. account' = account /\ promoted' = promoted /\ job[r].at = "arbiter" /\ r \in scratch
    BY <1>0, <1>16 DEF Arbiter, Holds
  <2>2. CASE account.logo # r /\ Answers(r, job[r].upd) /\ Discard(r)
    BY <1>0, <1>2, <1>5, <2>1, <2>2, EndSafe DEF Discard
  <2>3. CASE UNCHANGED scratch /\ (Turns(r, "undo") \/ Moves(r, [job[r] EXCEPT !.at = "head", !.round = @ + 1]))
    <3>1. job'[r].at \in {"undo", "head"} /\ job'[r].cur = job[r].cur
      <4>1. CASE Turns(r, "undo")
        BY <1>1, <4>1
      <4>2. CASE Moves(r, [job[r] EXCEPT !.at = "head", !.round = @ + 1])
        <5>1. job'[r] = [job[r] EXCEPT !.at = "head", !.round = @ + 1]
          BY <1>0, <4>2 DEF Moves, OTypeOK
        <5> QED
          BY <1>0, <5>1 DEF Jobs
      <4> QED
        BY <2>3, <4>1, <4>2
    <3> QED
      BY <1>0, <2>1, <2>3, <3>1, SafeStep
  <2> QED
    BY <1>16, <2>2, <2>3 DEF Arbiter
<1>17. CASE Undo(r)
  <2>1. /\ account' = account /\ scratch' = scratch /\ promoted' = promoted
        /\ job[r].at = "undo" /\ r \in scratch
    BY <1>0, <1>17 DEF Undo, objects, Holds
  <2>2. CASE Turns(r, "undoPatch")
    <3>1. job'[r].at = "undoPatch" /\ job'[r].cur = job[r].cur
      BY <1>1, <2>2
    <3> QED
      BY <1>0, <2>1, <3>1, SafeStep
  <2>3. CASE Fails(r)
    BY <1>0, <1>3, <2>1, <2>3, EndSafe
  <2> QED
    BY <1>17, <2>2, <2>3 DEF Undo
<1>18. CASE UndoPatch(r)
  <2>1. promoted' = promoted /\ job[r].at = "undoPatch" /\ r \in scratch /\ Fails(r) /\ job[r].cur.logo # r
    BY <1>0, <1>18 DEF UndoPatch, Holds
  <2>2. CASE /\ account' = [account EXCEPT !.logo = Restored(job[r].cur.logo), !.at = clock]
             /\ Discard(r) \/ UNCHANGED scratch
    <3>1. account'.logo = Restored(job[r].cur.logo) /\ scratch \ {r} \subseteq scratch'
      BY <1>5, <2>2 DEF Orgs, Discard
    <3>2. account'.logo = job[r].cur.logo \/ account'.logo = "none"
      BY <3>1 DEF Restored
    <3>3. "none" \notin Callers
      BY UpdatesAssumption DEF Earlier
    <3> QED
      BY <1>0, <1>3, <2>1, <3>1, <3>2, <3>3, EndSafe
  <2>3. CASE UNCHANGED <<account, scratch>>
    BY <1>0, <1>3, <2>1, <2>3, EndSafe
  <2> QED
    BY <1>18, <2>2, <2>3 DEF UndoPatch
<1>19. CASE PublishOrg(r)
  <2>1. account' = account /\ promoted' = promoted /\ job[r].at = "publish" /\ r \in promoted /\ Discard(r)
    BY <1>0, <1>19 DEF PublishOrg, Holds
  <2>2. job'[r].at = "answered"
    BY <1>2, <1>5, <1>19 DEF PublishOrg
  <2> QED
    BY <1>0, <2>1, <2>2, EndSafe DEF Discard
<1>20. CASE Vanish(r)
  <2>1. account' = account /\ scratch' = scratch /\ promoted' = promoted /\ Fails(r) /\ job[r].at \in Ongoing
    BY <1>20 DEF Vanish, objects
  <2>2. account.logo = r => r \in promoted \union scratch
    BY <1>0 DEF Landed
  <2> QED
    BY <1>0, <1>3, <2>1, <2>2, EndSafe
<1> QED
  BY <1>7, <1>8, <1>9, <1>10, <1>11, <1>12, <1>13, <1>14, <1>15, <1>16, <1>17, <1>18, <1>19, <1>20
     DEF Step, Update, Upload, Promote

----------------------------------------------------------------------------
(***************************************************************************)
(* ... and while nothing fails, the search index was sent the record as it *)
(* is.  From its commit until it publishes, the record is the request's;   *)
(* that an upload never has to roll back is Smooth's.                      *)
(***************************************************************************)
Current == account.logo # "scratch" => shown = [account EXCEPT !.parent = children]

Shows(r) ==
    /\ job[r].at \notin {"refetch", "publish"} \union Promoting => Current
    /\ job[r].at \in {"publish"} \union Promoting => job[r].upd = account
    /\ job[r].at \in {"refetch"} \union Promoting /\ r \in Uploads => account.logo = r /\ by = "upload"
    /\ job[r].at \notin Undoing
    /\ job[r].at = "reread" => account.logo # r

(* One request at most is under way.                                       *)
Single   == \A p, r \in Callers : job[p].at \in Ongoing /\ job[r].at \in Ongoing => p = r
AllEnded    == \A r \in Callers : job[r].at \notin Ongoing
Followed == outages = 0 =>
              /\ AllEnded => Current
              /\ \A r \in Callers : job[r].at \in Ongoing => Shows(r)

Follows(r) == IF job[r].at \in Ongoing THEN Shows(r) ELSE Current

(* A step that leaves the record as it was shown.                          *)
LEMMA CurrentStays ==
    ASSUME UNCHANGED <<account, shown, world>>, Current
    PROVE  Current'
BY DEF Current, world

LEMMA FollowStep ==
    ASSUME OTypeOK, Placed, Smooth, Safe, NEW r \in Callers, Follows(r), Step(r), ~Outage
    PROVE  Follows(r)'
<1> USE DEF Ongoing, Places, Promoting, Undoing
<1>0. /\ job[r] \in Jobs /\ account \in Orgs
      /\ job[r].at \notin Undoing
      /\ r \in Uploads /\ job[r].at \in Before => account.logo # r
  BY NotYet DEF OTypeOK, Follows, Shows
<1>1. \A p \in Places : Turns(r, p) => job'[r].at = p /\ job'[r].upd = job[r].upd
  BY TurnsTyped
<1>2. \A org \in Orgs : Answers(r, org) => job'[r].at = "answered"
  BY AnswersTyped
<1>3. Fails(r) => job'[r].at = "failed"
  BY FailsTyped
<1>4. Committed(r) => job'[r].at = "head" /\ job'[r].upd = account
  BY CommittedTyped
<1>5. Response(r) \in Orgs /\ Parented(r) \in Orgs
  BY <1>0 DEF OTypeOK, Response, Parented, Jobs, Orgs
<1>6. ASSUME UNCHANGED <<account, shown, world>>, Current, job'[r].at = "reread" => account.logo # r,
             job'[r].at \notin {"publish", "refetch"} \union Promoting \union Undoing
      PROVE  Follows(r)'
  <2>1. Current'
    BY <1>6, CurrentStays
  <2> QED
    BY <1>6, <2>1 DEF Follows, Shows
<1>7. ASSUME UNCHANGED <<account, world>>, job'[r].at \in Promoting, job'[r].upd = account,
             account.logo = r, by = "upload"
      PROVE  Follows(r)'
  BY <1>7 DEF Follows, Shows, world
<1>8. CASE Request(r)
  <2>1. UNCHANGED <<account, shown, world>> /\ Current
    BY <1>8 DEF Request, Follows
  <2>3. job'[r].at \in {"validate", "check"}
    BY <1>8, RequestStarts
  <2> QED
    BY <1>6, <2>1, <2>3
<1>9. CASE ValidatePrecondition(r)
  <2>1. UNCHANGED <<account, shown, world>> /\ Current
    BY <1>9 DEF ValidatePrecondition, Follows, Shows
  <2>2. job'[r].at \in {"store", "failed"}
    <3>1. CASE Moves(r, [job[r] EXCEPT !.at = "store", !.cur = account])
      <4>1. job'[r] = [job[r] EXCEPT !.at = "store", !.cur = account]
        BY <3>1 DEF Moves, OTypeOK
      <4> QED
        BY <1>0, <4>1 DEF Jobs
    <3> QED
      BY <1>3, <1>9, <3>1 DEF ValidatePrecondition
  <2> QED
    BY <1>6, <2>1, <2>2
<1>10. CASE Store(r)
  <2>1. UNCHANGED <<account, shown, world>> /\ Current
    BY <1>10 DEF Store, Follows, Shows
  <2>2. job'[r].at \in {"check", "failed"}
    BY <1>1, <1>3, <1>10 DEF Store
  <2> QED
    BY <1>6, <2>1, <2>2
<1>11. CASE Check(r)
  <2>1. UNCHANGED <<account, shown, world>> /\ Current /\ job[r].at = "check"
    BY <1>11 DEF Check, Follows, Shows
  <2>2. job'[r].at \in {"patch", "answered", "reread", "failed"}
    BY <1>0, <1>1, <1>2, <1>3, <1>11 DEF Check, Refused
  <2>3. r \notin Uploads => job'[r].at # "reread"
    BY <1>0, <1>1, <1>2, <1>3, <1>11 DEF Check, Refused
  <2> QED
    BY <1>0, <1>6, <2>1, <2>2, <2>3 DEF Before
<1>12. CASE Patch(r)
  <2>1. UNCHANGED <<shown, clock, children>> /\ Current /\ job[r].at = "patch"
    BY <1>12 DEF Patch, Follows, Shows
  <2>2. CASE account' = Written(r) /\ Turns(r, "refetch") /\ (r \in Uploads => by' = "upload")
    <3>1. job'[r].at = "refetch"
      BY <1>1, <2>2
    <3>2. r \in Uploads => account'.logo = r
      BY <1>0, <2>2 DEF Written, Orgs
    <3> QED
      BY <2>2, <3>1, <3>2 DEF Follows, Shows
  <2>3. CASE UNCHANGED <<account, by>> /\ Refused(r)
    <3>1. job'[r].at \in {"reread", "failed"} /\ (r \notin Uploads => job'[r].at # "reread")
      BY <1>1, <1>3, <2>3 DEF Refused
    <3>2. UNCHANGED world
      BY <2>1, <2>3 DEF world
    <3> QED
      BY <1>0, <1>6, <2>1, <2>3, <3>1, <3>2 DEF Before
  <2> QED
    BY <1>12, <2>2, <2>3 DEF Patch
<1>13. CASE Refetch(r)
  <2>1. /\ UNCHANGED <<account, shown, world>> /\ job[r].at = "refetch"
        /\ r \in Uploads => account.logo = r /\ by = "upload"
    BY <1>13 DEF Refetch, Follows, Shows
  <2>2. CASE Moves(r, [job[r] EXCEPT !.at = "publish", !.upd = account])
    <3>1. job'[r] = [job[r] EXCEPT !.at = "publish", !.upd = account]
      BY <2>2 DEF Moves, OTypeOK
    <3>2. job'[r].at = "publish" /\ job'[r].upd = account
      BY <1>0, <3>1 DEF Jobs
    <3> QED
      BY <2>1, <3>2 DEF Follows, Shows
  <2>3. CASE r \in Uploads /\ Committed(r)
    BY <1>4, <1>7, <2>1, <2>3
  <2> QED
    BY <1>13, <2>1, <2>2, <2>3 DEF Refetch
<1>14. CASE Reread(r)
  <2>1. UNCHANGED <<account, shown, world>> /\ Current /\ account.logo # r
    BY <1>14 DEF Reread, Follows, Shows
  <2>2. Fails(r)
    BY <1>14, <2>1 DEF Reread
  <2> QED
    BY <1>3, <1>6, <2>1, <2>2
<1>15. ASSUME HeadObject(r) \/ CopyObject(r) \/ Arbiter(r)
       PROVE  /\ UNCHANGED <<account, shown, world>> /\ job[r].upd = account /\ r \in Uploads
              /\ account.logo = r /\ by = "upload"
  <2>1. job[r].at \in Promoting
    BY <1>15 DEF HeadObject, CopyObject, Arbiter
  <2>2. r \in Uploads
    BY <2>1 DEF Placed, Editing, Callers
  <2> QED
    BY <1>15, <2>1, <2>2 DEF HeadObject, CopyObject, Arbiter, Follows, Shows
<1>16. CASE HeadObject(r)
  <2>1. \/ job'[r] = [job[r] EXCEPT !.at = "arbiter", !.gen = object.gen + 1]
        \/ job'[r] = [job[r] EXCEPT !.at = "copy", !.seen = object.bytes]
    BY <1>16 DEF HeadObject, Moves, OTypeOK
  <2>2. job'[r].at \in Promoting /\ job'[r].upd = job[r].upd
    BY <1>0, <2>1 DEF Jobs
  <2> QED
    BY <1>7, <1>15, <1>16, <2>2
<1>17. CASE CopyObject(r)
  <2>1. job'[r].at \in {"publish", "head"} /\ job'[r].upd = account
    BY <1>1, <1>15, <1>17 DEF CopyObject
  <2> QED
    BY <1>15, <1>17, <2>1 DEF Follows, Shows, world
<1>18. CASE Arbiter(r)
  <2>1. CASE Moves(r, [job[r] EXCEPT !.at = "head", !.round = @ + 1])
    <3>1. job'[r] = [job[r] EXCEPT !.at = "head", !.round = @ + 1]
      BY <2>1 DEF Moves, OTypeOK
    <3>2. job'[r].at = "head" /\ job'[r].upd = job[r].upd
      BY <1>0, <3>1 DEF Jobs
    <3> QED
      BY <1>7, <1>15, <1>18, <3>2
  <2>2. job[r].round < 3
    BY <1>15, <1>18 DEF Arbiter, Smooth, Settling
  <2> QED
    BY <1>15, <1>18, <2>1, <2>2 DEF Arbiter
<1>19. CASE PublishOrg(r)
  <2>1. UNCHANGED <<account, world>> /\ Sends(Parented(r)) /\ Answers(r, Response(r)) /\ job[r].upd = account
    BY <1>19 DEF PublishOrg, Follows, Shows
  <2>2. Current'
    <3>1. Parented(r).logo = account.logo /\ Parented(r) = [account EXCEPT !.parent = children]
      BY <1>0, <2>1 DEF Parented, Orgs
    <3> QED
      BY <2>1, <3>1 DEF Current, Sends, world
  <2>3. job'[r].at = "answered"
    BY <1>2, <1>5, <2>1
  <2> QED
    BY <2>2, <2>3 DEF Follows
<1>20. ~Undo(r) /\ ~UndoPatch(r) /\ ~Vanish(r)
  BY <1>0 DEF Undo, UndoPatch, Vanish
<1> QED
  BY <1>8, <1>9, <1>10, <1>11, <1>12, <1>13, <1>14, <1>16, <1>17, <1>18, <1>19, <1>20
     DEF Step, Update, Upload, Promote

----------------------------------------------------------------------------
(* Only a client's call puts a request under way.                          *)
LEMMA StartsAlone ==
    ASSUME OTypeOK, NEW r \in Callers, Step(r), job[r].at \notin Ongoing
    PROVE  job'[r].at \in Ongoing
<1>1. Request(r)
  BY DEF Step, Update, Upload, Promote, Check, Patch, Refetch, PublishOrg, ValidatePrecondition,
         Store, Reread, HeadObject, CopyObject, Arbiter, Undo, UndoPatch, Vanish, Ongoing, Places
<1> QED
  BY <1>1, RequestStarts DEF Ongoing, Places

(* Alone, the others rest before and after a step.                         *)
LEMMA OthersRest ==
    ASSUME OTypeOK, Single, NEW r \in Callers, Step(r), Cardinality(Updating') <= 1
    PROVE  Others(r) /\ Single'
<1>1. Alone(r)
  BY MovesAlone
<1>2. IsFiniteSet(Updating')
  <2>1. \E p \in Callers : Updating' \subseteq {p} \union {r}
    <3>1. CASE \E p \in Callers \ {r} : job[p].at \in Ongoing
      <4>1. PICK p \in Callers \ {r} : job[p].at \in Ongoing
        BY <3>1
      <4>2. \A x \in Callers : job'[x].at \in Ongoing => x = p \/ x = r
        BY <1>1, <4>1 DEF Single, Alone
      <4> QED
        BY <4>2 DEF Updating
    <3>2. CASE ~ \E p \in Callers \ {r} : job[p].at \in Ongoing
      <4>1. \A x \in Callers : job'[x].at \in Ongoing => x = r
        BY <1>1, <3>2 DEF Alone
      <4> QED
        BY <4>1 DEF Updating
    <3> QED
      BY <3>1, <3>2
  <2>2. PICK p \in Callers : Updating' \subseteq {p} \union {r}
    BY <2>1
  <2>3. IsFiniteSet({p}) /\ IsFiniteSet({p} \union {r})
    BY FS_Singleton, FS_AddElement
  <2> QED
    BY <2>2, <2>3, FS_Subset
<1>3. Single'
  <2>1. ASSUME NEW p \in Callers, NEW x \in Callers, job'[p].at \in Ongoing, job'[x].at \in Ongoing
        PROVE  p = x
    <3>1. p \in Updating' /\ x \in Updating'
      BY <2>1 DEF Updating
    <3> QED
      BY <1>2, <3>1, AtMostOne
  <2> QED
    BY <2>1 DEF Single
<1>4. Others(r)
  <2> SUFFICES ASSUME NEW x \in Callers \ {r}, job[x].at \in Ongoing PROVE FALSE
    BY DEF Others
  <2>1. job'[x].at \in Ongoing
    BY <1>1 DEF Alone
  <2>2. job[r].at \notin Ongoing
    BY DEF Single
  <2>3. job'[r].at \in Ongoing
    BY <2>2, StartsAlone
  <2> QED
    BY <1>3, <2>1, <2>3 DEF Single
<1> QED
  BY <1>3, <1>4

(* Nothing the invariant speaks of changes.                                *)
LEMMA ByStands ==
    ASSUME Single, Safe, Followed, UNCHANGED <<account, objects, shown, children, by, job, outages>>
    PROVE  (Single /\ Safe /\ Followed)'
<1>1. UNCHANGED objects
  OBVIOUS
<1>2. UNCHANGED scratch /\ UNCHANGED promoted
  BY <1>1 DEF objects
<1>3. Single'
  BY DEF Single
<1>4. Safe'
  BY <1>2 DEF Safe, Landed, Holds, Sending
<1>5. Followed'
  BY DEF Followed, AllEnded, Current, Shows
<1> QED
  BY <1>3, <1>4, <1>5

LEMMA OneAfterAnother ==
    ASSUME OTypeOK, Placed, Quiet, Quiet', Single, Safe, Followed,
           ONext, Cardinality(Updating') <= 1
    PROVE  (Single /\ Safe /\ Followed)'
<1>1. ASSUME NEW r \in Callers, Step(r) PROVE (Single /\ Safe /\ Followed)'
  <2>1. Others(r) /\ Single' /\ Alone(r)
    BY <1>1, OthersRest, MovesAlone
  <2>2. Safe'
    BY <1>1, <2>1, UploadSafe, EditSafe DEF Callers
  <2>3. ASSUME outages' = 0
        PROVE  /\ AllEnded' => Current'
               /\ \A x \in Callers : job'[x].at \in Ongoing => Shows(x)'
    <3>1. outages = 0 /\ ~Outage
      BY <1>1, <2>3, StepOutages, OutagesTyped
    <3>2. Smooth
      BY <3>1 DEF Quiet
    <3>3. Follows(r)
      <4>1. CASE job[r].at \in Ongoing
        BY <3>1, <4>1 DEF Followed, Follows
      <4>2. CASE job[r].at \notin Ongoing
        BY <2>1, <3>1, <4>2 DEF Followed, Follows, AllEnded, Others
      <4> QED
        BY <4>1, <4>2
    <3>4. Follows(r)'
      BY <1>1, <3>1, <3>2, <3>3, FollowStep
    <3>5. \A x \in Callers \ {r} : job'[x].at \notin Ongoing
      BY <2>1 DEF Alone, Others
    <3> QED
      BY <3>4, <3>5 DEF Follows, AllEnded
  <2> QED
    BY <2>1, <2>2, <2>3 DEF Followed
<1>2. CASE Tick
  BY <1>2, ByStands DEF Tick
<1> QED
  BY <1>1, <1>2 DEF ONext, Step

LEMMA AloneFromInit == ASSUME OInit PROVE Single /\ Safe /\ Followed
<1>1. \A r \in Callers : job[r].at = "new"
  BY DEF OInit, NoJob
<1>2. Single /\ \A r \in Callers : job[r].at \notin Ongoing
  BY <1>1 DEF Single, Ongoing
<1>3. account.logo \in Earlier
  BY DEF OInit, NoOrg
<1>4. account.logo \notin Uploads
  BY <1>3, UpdatesAssumption DEF Callers
<1>5. Safe
  BY <1>1, <1>4 DEF OInit, Safe, Landed, Holds, Sending, Ongoing, Callers
<1>6. Followed
  BY <1>2 DEF OInit, Followed, Current
<1> QED
  BY <1>2, <1>5, <1>6

(* The instance that keeps apart the requests that come one after another. *)
LEMMA AloneAlways ==
    MCSpec => [](OTypeOK /\ Placed /\ Dated /\ Quiet /\ (alone => Single /\ Safe /\ Followed))
<1> DEFINE Base == OTypeOK /\ Placed /\ Dated /\ Quiet
           Inv  == Base /\ (alone => Single /\ Safe /\ Followed)
<1>1. MCInit => Inv
  <2> SUFFICES ASSUME MCInit PROVE Inv
    OBVIOUS
  <2>1. OInit
    BY DEF MCInit
  <2>2. OTypeOK
    BY <2>1, InitTyped
  <2>3. Placed
    BY <2>1 DEF OInit, NoJob, Placed, Editing, Callers
  <2>4. Dated /\ Quiet
    BY <2>1, <2>2, InitDated, InitSmooth DEF Quiet
  <2> QED
    BY <2>1, <2>2, <2>3, <2>4, AloneFromInit
<1>2. ASSUME Inv, [MCNext]_allvars PROVE Inv'
  <2>1. [ONext]_ovars /\ alone' = alone
    BY <1>2 DEF MCNext, OrgNext, allvars
  <2>2. Base'
    BY <1>2, <2>1, NextTyped, PlacedKept, DatedKept, QuietKept
  <2>3. ASSUME alone PROVE (Single /\ Safe /\ Followed)'
    <3>1. CASE UNCHANGED ovars
      BY <1>2, <2>3, <3>1, ByStands DEF ovars, world
    <3>2. CASE OrgNext
      BY <1>2, <2>2, <2>3, <3>2, OneAfterAnother DEF OrgNext
    <3> QED
      BY <1>2, <3>1, <3>2 DEF MCNext, allvars
  <2> QED
    BY <2>1, <2>2, <2>3
<1> QED
  BY <1>1, <1>2, PTL DEF MCSpec

(* When requests come one after another and nothing fails, the index was   *)
(* sent the organization as it is as soon as none is under way             *)
(* (PublishOrgUpdated, after the promotion).                               *)
THEOREM ShownIsLast == MCSpec => []ShownAlone
<1>1. (alone => Single /\ Safe /\ Followed) => ShownAlone
  BY DEF Followed, AllEnded, Current, ShownAlone, ShownLast
<1> QED
  BY <1>1, AloneAlways, PTL

(* When requests come one after another, whichever call fails or is cut    *)
(* short, the record never points at bytes that are nowhere                *)
(* (UploadB2bOrgLogo, rereadAfterFailedUpdate and the rollback).           *)
THEOREM LogoNeverLost == MCSpec => []RecoverableAlone
<1>1. (alone => Single /\ Safe /\ Followed) => RecoverableAlone
  BY DEF Safe, Landed, RecoverableAlone, Recoverable
<1> QED
  BY <1>1, AloneAlways, PTL

=============================================================================
