----------------------------- MODULE OrgUpdates -----------------------------
(***************************************************************************)
(* Updates of an organization's Account through the API, and uploads of    *)
(* its logo.                                                               *)
(*                                                                         *)
(* An update reads the record, compares it with the If-Match of the client,*)
(* and writes it on the condition that it has not been modified since; but *)
(* that condition counts in seconds.  An upload stores its bytes at a      *)
(* scratch key, commits the URL of the shared key to Salesforce, copies    *)
(* the bytes to the shared key unless newer ones are there, and only then  *)
(* publishes.  An upload that cannot finish puts the previous URL back.    *)
(*                                                                         *)
(* The URL an upload commits names the upload by its version token, and so *)
(* does its scratch key: a logo is the upload it comes from.  An update of *)
(* the other fields may carry a logo_url too: the one its client has read, *)
(* or any other, and then the record points where the client says.         *)
(***************************************************************************)
EXTENDS Naturals

CONSTANTS
    Uploads, Edits,    \* requests: UploadB2bOrgLogo, UpdateB2bOrg
    PerSecond,         \* dates LastModifiedDate tells apart in a second
    MaxTicks,          \* bound: Salesforce's clock
    MaxOutages         \* bound: calls that fail or time out, requests that die

Callers == Uploads \union Edits

(* What an organization may have before: no logo, or an earlier one.       *)
Earlier == {"none", "old"}

(* What a client may write that no upload serves: another site's URL, or   *)
(* that of a scratch object.                                               *)
Chosen == {"other", "scratch"}

ASSUME UpdatesAssumption ==
    /\ Uploads \intersect Edits = {}
    /\ Callers \intersect (Earlier \union Chosen) = {}
    /\ PerSecond \in Nat \ {0}
    /\ MaxTicks \in Nat
    /\ MaxOutages \in Nat

VARIABLES
    account,     \* the record in Salesforce
    clock,       \* Salesforce's, as far as LastModifiedDate shows it
    object,      \* the shared key: whose bytes, and the generation stamped on them
    scratch,     \* the uploads whose scratch object exists
    promoted,    \* the uploads whose bytes have been at the shared key
    shown,       \* the record the search index was sent last
    children,    \* the organization has children, which a read does not tell
    by,          \* history: what decided the record's URL last, of the commit
                 \* of an upload, an edit, and a rollback that found another
                 \* upload's URL there
    job,         \* each request
    outages

objects == <<object, scratch, promoted>>
world   == <<clock, children, by>>
ovars  == <<account, objects, shown, world, job, outages>>

Logos == Uploads \union Earlier \union Chosen
Orgs  == [logo : Logos, edit : Edits \union {"none"}, at : Nat, parent : BOOLEAN]

Places  == {"new", "validate", "store", "check", "patch", "refetch", "reread",
            "head", "copy", "arbiter", "undo", "undoPatch", "publish",
            "answered", "failed"}
Ongoing == Places \ {"new", "answered", "failed"}
Jobs    == [at : Places, cond : BOOLEAN, match : Orgs, url : Logos, cur : Orgs, upd : Orgs,
            gen : Nat, round : 1 .. 3, seen : Logos]

NoOrg == [logo |-> "none", edit |-> "none", at |-> 0, parent |-> FALSE]
NoJob == [at |-> "new", cond |-> FALSE, match |-> NoOrg, url |-> "none", cur |-> NoOrg,
          upd |-> NoOrg, gen |-> 0, round |-> 1, seen |-> "none"]

Outage   == outages < MaxOutages /\ outages' = outages + 1
NoOutage == UNCHANGED outages

Moves(r, j) == job' = [job EXCEPT ![r] = j]
Turns(r, p) == Moves(r, [job[r] EXCEPT !.at = p])
Answers(r, org) == Moves(r, [NoJob EXCEPT !.at = "answered", !.upd = org])
Fails(r)    == Moves(r, [NoJob EXCEPT !.at = "failed"])
Discard(r)  == scratch' = scratch \ {r}

----------------------------------------------------------------------------
(* The logo_url of an update: none, which keeps the record's; the one its  *)
(* client has read or once saw served; or one that no upload serves.       *)
Sendable == {"none", account.logo} \union promoted \union Chosen

(* The client calls with the ETag of the record it has read, which an      *)
(* update, though not an upload, may leave out.                            *)
Request(r) ==
    /\ job[r].at = "new"
    /\ \E c \in IF r \in Uploads THEN {TRUE} ELSE BOOLEAN,
          l \in IF r \in Uploads THEN {"none"} ELSE Sendable :
         Moves(r, [NoJob EXCEPT !.at = IF r \in Uploads THEN "validate" ELSE "check", !.url = l,
                                !.cond = c, !.match = IF c THEN account ELSE NoOrg])
    /\ NoOutage
    /\ UNCHANGED <<account, objects, shown, world>>

(* validateForUpdate: the ETag is a hash of the whole record.              *)
Agrees(r) == job[r].cond => account = job[r].match

(* An upload is checked before any bytes are stored, and remembers the     *)
(* record it found.                                                        *)
ValidatePrecondition(r) ==
    /\ job[r].at = "validate"
    /\ \/ Agrees(r) /\ Moves(r, [job[r] EXCEPT !.at = "store", !.cur = account]) /\ NoOutage
       \/ ~Agrees(r) /\ Fails(r) /\ NoOutage
       \/ Fails(r) /\ Outage
    /\ UNCHANGED <<account, objects, shown, world>>

(* Put at the scratch key. *)
Store(r) ==
    /\ job[r].at = "store"
    /\ \/ scratch' = scratch \union {r} /\ Turns(r, "check") /\ NoOutage
       \/ UNCHANGED scratch /\ Fails(r) /\ Outage
    /\ UNCHANGED <<account, object, promoted, shown, world>>

(* An update that returns an error: an upload reads the record again to    *)
(* learn whether the write landed.                                         *)
Refused(r) == IF r \in Uploads THEN Turns(r, "reread") ELSE Fails(r)

(* update: the record is read and compared; an edit without a change is    *)
(* answered with it.                                                       *)
Check(r) ==
    /\ job[r].at = "check"
    /\ \/ Agrees(r) /\ Turns(r, "patch") /\ NoOutage
       \/ Agrees(r) /\ r \in Edits /\ job[r].url = "none" /\ Answers(r, account) /\ NoOutage
       \/ ~Agrees(r) /\ Refused(r) /\ NoOutage
       \/ Refused(r) /\ Outage
    /\ UNCHANGED <<account, objects, shown, world>>

(* If-Unmodified-Since is a date without fractions of a second.            *)
Second(t) == t \div PerSecond
NotAfter(org) == Second(account.at) <= Second(org.at)

(* Mutant: the PATCH is sent without its condition.                        *)
UnmodifiedAlways(r) == TRUE

(* The PATCH carries the date of the record that matched.                  *)
Unmodified(r) == job[r].cond => NotAfter(job[r].match)

(* A logo_url that is empty is left out of the PATCH.                      *)
Written(r) ==
    IF r \in Uploads THEN [account EXCEPT !.logo = r, !.at = clock]
    ELSE [account EXCEPT !.logo = IF job[r].url = "none" THEN @ ELSE job[r].url,
                         !.edit = r, !.at = clock]

(* UpdateB2BOrg: the PATCH. A call that fails may have been carried out.   *)
Patch(r) ==
    /\ job[r].at = "patch"
    /\ \/ /\ Unmodified(r)
          /\ account' = Written(r)
          /\ by' = IF r \in Uploads THEN "upload"
                   ELSE IF account'.logo = account.logo THEN by ELSE "edit"
          /\ \/ Turns(r, "refetch") /\ NoOutage
             \/ Refused(r) /\ Outage
       \/ /\ UNCHANGED <<account, by>>
          /\ Refused(r)
          /\ (~Unmodified(r) /\ NoOutage) \/ Outage
    /\ UNCHANGED <<objects, shown, clock, children>>

(* The upload goes on with the record its commit made. *)
Committed(r) == Moves(r, [job[r] EXCEPT !.at = "head", !.upd = account, !.gen = account.at])

(* UpdateB2BOrg: the record is read again; it may be another request's by  *)
(* now, and then an upload leaves the shared key to that one.              *)
Refetch(r) ==
    /\ job[r].at = "refetch"
    /\ \/ /\ r \in Edits
          /\ Moves(r, [job[r] EXCEPT !.at = "publish", !.upd = account])
          /\ NoOutage /\ UNCHANGED scratch
       \/ /\ r \in Uploads /\ account.logo = r
          /\ Committed(r) /\ NoOutage /\ UNCHANGED scratch
       \/ /\ r \in Uploads /\ account.logo # r
          /\ Answers(r, account) /\ Discard(r) /\ NoOutage
       \/ Refused(r) /\ Outage /\ UNCHANGED scratch
    /\ UNCHANGED <<account, object, promoted, shown, world>>

(* Mutant: the scratch object goes with every failed update.               *)
RereadDiscards(r) ==
    /\ job[r].at = "reread"
    /\ \/ account.logo # r /\ Fails(r) /\ Discard(r) /\ NoOutage
       \/ account.logo = r /\ Committed(r) /\ UNCHANGED scratch /\ NoOutage
       \/ Fails(r) /\ Discard(r) /\ Outage
    /\ UNCHANGED <<account, object, promoted, shown, world>>

(* After a failed update: the scratch object goes only when the record     *)
(* shows that the write did not land.                                      *)
Reread(r) ==
    /\ job[r].at = "reread"
    /\ \/ account.logo # r /\ Fails(r) /\ Discard(r) /\ NoOutage
       \/ account.logo = r /\ Committed(r) /\ UNCHANGED scratch /\ NoOutage
       \/ Fails(r) /\ UNCHANGED scratch /\ Outage
    /\ UNCHANGED <<account, object, promoted, shown, world>>

----------------------------------------------------------------------------
(* Mutant: bytes of the same date are replaced.                            *)
StaleOlder(r) == object.gen > job[r].gen

(* The shared key already carries a generation at least as new.            *)
Stale(r) == object.gen >= job[r].gen

(* promote: an outage costs one of its three attempts, or all of them.     *)
Retry(r) == Turns(r, "head") \/ Turns(r, "undo")

(* CopyIfNewer: what is at the shared key. *)
HeadObject(r) ==
    /\ job[r].at = "head"
    /\ \/ /\ Stale(r)
          /\ Moves(r, [job[r] EXCEPT !.at = "arbiter", !.gen = object.gen + 1])
          /\ NoOutage
       \/ /\ ~Stale(r)
          /\ Moves(r, [job[r] EXCEPT !.at = "copy", !.seen = object.bytes])
          /\ NoOutage
       \/ Retry(r) /\ Outage
    /\ UNCHANGED <<account, objects, shown, world>>

(* CopyIfNewer: the copy, if the object is still the one seen.             *)
CopyObject(r) ==
    /\ job[r].at = "copy"
    /\ \/ /\ object.bytes = job[r].seen
          /\ object' = [bytes |-> r, gen |-> job[r].gen]
          /\ promoted' = promoted \union {r}
          /\ \/ Turns(r, "publish") /\ NoOutage
             \/ Retry(r) /\ Outage
       \/ /\ UNCHANGED <<object, promoted>>
          /\ \/ object.bytes # job[r].seen /\ Turns(r, "head") /\ NoOutage
             \/ Retry(r) /\ Outage
    /\ UNCHANGED <<account, scratch, shown, world>>

(* Mutant: an upload that finds newer bytes leaves without asking.         *)
ArbiterLeaves(r) ==
    /\ job[r].at = "arbiter"
    /\ Answers(r, job[r].upd) /\ Discard(r) /\ NoOutage
    /\ UNCHANGED <<account, object, promoted, shown, world>>

(* An upload that finds newer bytes asks Salesforce whose URL it holds: it *)
(* leaves the key to another upload, or copies above the stamp it found.   *)
Arbiter(r) ==
    /\ job[r].at = "arbiter"
    /\ \/ /\ account.logo # r
          /\ Answers(r, job[r].upd) /\ Discard(r) /\ NoOutage
       \/ /\ account.logo = r
          /\ IF job[r].round < 3
             THEN Moves(r, [job[r] EXCEPT !.at = "head", !.round = @ + 1])
             ELSE Turns(r, "undo")
          /\ UNCHANGED scratch /\ NoOutage
       \/ Turns(r, "undo") /\ UNCHANGED scratch /\ Outage
    /\ UNCHANGED <<account, object, promoted, shown, world>>

(* rollback: a conditional update that puts back the URL found at first.   *)
Undo(r) ==
    /\ job[r].at = "undo"
    /\ \/ account = job[r].upd /\ Turns(r, "undoPatch") /\ NoOutage
       \/ account # job[r].upd /\ Fails(r) /\ NoOutage
       \/ Fails(r) /\ Outage
    /\ UNCHANGED <<account, objects, shown, world>>

(* A scratch URL is not put back. *)
Restored(l) == IF l = "scratch" THEN "none" ELSE l

UndoPatch(r) ==
    /\ job[r].at = "undoPatch"
    /\ Fails(r)
    /\ \/ /\ NotAfter(job[r].upd)
          /\ account' = [account EXCEPT !.logo = Restored(job[r].cur.logo), !.at = clock]
          /\ by' = IF account.logo = r THEN by ELSE "rollback"
          /\ \/ Discard(r) /\ NoOutage
             \/ UNCHANGED scratch /\ Outage
       \/ /\ UNCHANGED <<account, by, scratch>>
          /\ (~NotAfter(job[r].upd) /\ NoOutage) \/ Outage
    /\ UNCHANGED <<object, promoted, shown, clock, children>>

----------------------------------------------------------------------------
(* Mutant: the record is published as it was read.                         *)
ParentedNot(r) == job[r].upd

(* publishEvents sets IsParent in the record it was given.                 *)
Parented(r) == [job[r].upd EXCEPT !.parent = children]

(* Mutant: the answer to an upload is hashed as it was published.          *)
ResponsePublished(r) == Parented(r)

(* UpdateB2bOrg answers with the ETag of that record; UploadB2bOrgLogo     *)
(* clears IsParent first.                                                  *)
Response(r) == IF r \in Uploads THEN job[r].upd ELSE Parented(r)

(* A record that points at a scratch object is not sent to the index.      *)
Sends(org) == shown' = IF org.logo = "scratch" THEN shown ELSE org

(* PublishOrgUpdated, and the answer. When the children cannot be read the *)
(* organization is sent as one without.                                    *)
PublishOrg(r) ==
    /\ job[r].at = "publish"
    /\ \/ Sends(Parented(r)) /\ Answers(r, Response(r)) /\ NoOutage
       \/ UNCHANGED shown /\ Answers(r, Response(r)) /\ Outage
       \/ Sends(job[r].upd) /\ Answers(r, job[r].upd) /\ Outage
    /\ IF r \in Uploads THEN Discard(r) ELSE UNCHANGED scratch
    /\ UNCHANGED <<account, object, promoted, world>>

(* The process dies. *)
Vanish(r) ==
    /\ job[r].at \in Ongoing
    /\ Fails(r)
    /\ Outage
    /\ UNCHANGED <<account, objects, shown, world>>

Tick ==
    /\ clock < MaxTicks
    /\ clock' = clock + 1
    /\ UNCHANGED <<account, objects, shown, children, by, job, outages>>

OInit ==
    /\ clock = 1
    /\ children \in BOOLEAN
    /\ by = "upload"
    /\ \E l \in Earlier :
         /\ account = [NoOrg EXCEPT !.logo = l, !.at = 1]
         /\ object = [bytes |-> l, gen |-> 0]
    /\ scratch = {}
    /\ promoted = {}
    /\ shown = [account EXCEPT !.parent = children]
    /\ job = [r \in Callers |-> NoJob]
    /\ outages = 0

Update(r)  == Check(r) \/ Patch(r) \/ Refetch(r) \/ PublishOrg(r)
Promote(r) == HeadObject(r) \/ CopyObject(r) \/ Arbiter(r)
Upload(r)  == ValidatePrecondition(r) \/ Store(r) \/ Reread(r) \/ Promote(r) \/ Undo(r) \/ UndoPatch(r)

ONext == Tick \/ \E r \in Callers : Request(r) \/ Update(r) \/ Upload(r) \/ Vanish(r)

OSpec == OInit /\ [][ONext]_ovars

----------------------------------------------------------------------------
(* The shape of the state. *)
OTypeOK ==
    /\ account \in Orgs /\ shown \in Orgs
    /\ clock \in Nat /\ outages \in Nat
    /\ object \in [bytes : Logos, gen : Nat]
    /\ scratch \subseteq Uploads /\ promoted \subseteq Uploads
    /\ children \in BOOLEAN /\ by \in {"upload", "edit", "rollback"}
    /\ job \in [Callers -> Jobs]

(* object_store_writer.go, CopyIfNewer: a "slower, older promotion         *)
(* attempt's delayed copy" never lands over the bytes of the logo the      *)
(* record points at, also for commits of the same date: as long as the URL *)
(* is the one an upload wrote last, and not one an edit put in its place.  *)
OwnerKept  == outages' = 0 /\ by = "upload" /\ object.bytes = account.logo => object' = object
OwnersKept == [][OwnerKept]_ovars

(* A write for which the client gave an If-Match, and a rollback, replace  *)
(* the record they compared, or one of the same second: If-Unmodified-Since*)
(* tells no more (UpdateB2BOrg).                                           *)
Expected(r) == IF job[r].at = "undoPatch" THEN job[r].upd ELSE job[r].match
ConditionHeld ==
    account' # account =>
        \E r \in Callers :
            /\ job[r].at \in {"patch", "undoPatch"}
            /\ job'[r].at # job[r].at
            /\ (job[r].at = "undoPatch" \/ job[r].cond) =>
                 account = Expected(r) \/ Second(account.at) = Second(Expected(r).at)
ConditionsHeld == [][ConditionHeld]_ovars

(* Without failures, once every request has ended the shared key holds     *)
(* the logo the record points at, whatever the order of commits and copies *)
(* and whatever edits wrote before the last commit.  A URL that an edit    *)
(* wrote after it is the client's: other bytes stay at the shared key.     *)
LogoServed ==
    (outages = 0 /\ by = "upload" /\ \A r \in Callers : job[r].at \notin Ongoing) =>
        object.bytes = account.logo

(* docs/indexer-contract.md: the persisted Logo_URL__c "alone identifies   *)
(* the object holding the pending bytes": a logo the record points at has  *)
(* been at the shared key, or its scratch object is still there.           *)
Recoverable == account.logo \in Uploads => account.logo \in promoted \union scratch

(* Once every request has ended, the search index was sent the record as   *)
(* it is, unless that points at a scratch object.                          *)
ShownLast ==
    (outages = 0 /\ account.logo # "scratch" /\ \A r \in Callers : job[r].at \notin Ongoing) =>
        shown = [account EXCEPT !.parent = children]

(* UploadB2bOrgLogo: the ETag of its answer is not one "a parent org's own *)
(* next request can never satisfy": while nobody changes the record, it is *)
(* the one the next update compares with.                                  *)
EtagUsable ==
    \A r \in Uploads : job[r].at = "answered" =>
        ([job[r].upd EXCEPT !.parent = FALSE] = account => job[r].upd = account)
=============================================================================
