----------------------------- MODULE MCBuckets -----------------------------
(***************************************************************************)
(* The smaller components that keep their state in buckets of the service, *)
(* each on its own in one instance: the run lock, the documents of the     *)
(* workspaces, the read cache, and the record of an organization with its  *)
(* logo.  The part that is explored is chosen at the start, and the others *)
(* stay in their initial state.                                            *)
(***************************************************************************)
EXTENDS BackfillLock, Workspaces, ReadCache, OrgUpdates, FiniteSets

VARIABLES
    part,      \* the component explored
    alone      \* requests of workspaces, of organizations, come one after another

allvars == <<vars, wvars, cvars, ovars, part, alone>>

MCInit ==
    /\ Init /\ WInit /\ CInit /\ OInit
    /\ part \in {"lock", "workspaces", "cache", "org"}
    /\ alone \in BOOLEAN
    /\ part \notin {"workspaces", "org"} => alone
    /\ part # "workspaces" => wfaults = 0 /\ registry.rev = 0
    /\ part # "org" => ~children /\ account.logo = "none"

(* Requests of the workspaces one after another, or two beside each other. *)
Busy  == {r \in Requests : req[r].at \notin {"idle", "ended"}}
Begun == {r \in Requests : req[r].at # "idle"}

WorkspacesNext ==
    /\ WNext
    /\ IF alone THEN Cardinality(Busy') <= 1 ELSE Cardinality(Begun') <= 2

(* Updates of an organization one after another; two beside each other, of *)
(* which one call may fail; or three of the same date, none of which fails.*)
(* Uploads are alike, so they are called in one order.                     *)
Rank == CHOOSE f \in [Uploads -> 1 .. Cardinality(Uploads)] :
            \A u, v \in Uploads : u # v => f[u] # f[v]
Updating == {r \in Callers : job[r].at \in Ongoing}
Called   == {r \in Callers : job[r].at # "new"}

OrgNext ==
    /\ ONext
    /\ \A u \in Uploads, v \in Uploads \intersect Called' : Rank[u] < Rank[v] => u \in Called'
    /\ IF alone THEN Cardinality(Updating') <= 1 /\ clock' <= 2
                ELSE \/ Cardinality(Called') <= 2 /\ outages' <= 1
                     \/ /\ Cardinality(Called') <= 3
                        /\ ~children /\ object.bytes # "old"
                        /\ outages' = 0 /\ clock' = 1

MCNext ==
    /\ \/ part = "lock" /\ Next /\ UNCHANGED <<wvars, cvars, ovars>>
       \/ part = "workspaces" /\ WorkspacesNext /\ UNCHANGED <<vars, cvars, ovars>>
       \/ part = "cache" /\ CNext /\ UNCHANGED <<vars, wvars, ovars>>
       \/ part = "org" /\ OrgNext /\ UNCHANGED <<vars, wvars, cvars>>
    /\ UNCHANGED <<part, alone>>

MCSpec ==
    /\ MCInit
    /\ [][MCNext]_allvars
    /\ \A r \in Runs : WF_vars(part = "lock" /\ Run(r))
    /\ WF_vars(part = "lock" /\ Expire)

----------------------------------------------------------------------------
(* When requests come one after another, a workspace that was deleted      *)
(* leaves no projects (workspace_writer.go, DeleteWorkspace).              *)
CascadedAlone == alone => Cascaded

(* When requests come one after another, the index shows what is stored    *)
(* (persistAndPublishRegistry, persistAndPublishProjects).                 *)
IndexedAlone  == alone => Indexed

(* When requests come one after another, the index was sent the            *)
(* organization as it is (PublishOrgUpdated, after the promotion).         *)
ShownAlone == alone => ShownLast

(* When requests come one after another, whichever call fails or is cut    *)
(* short, the record never points at bytes that are nowhere                *)
(* (logo_uploader.go, rereadAfterFailedUpdate).                            *)
RecoverableAlone == alone => Recoverable
=============================================================================
