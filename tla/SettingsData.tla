---------------------------- MODULE SettingsData ----------------------------
(***************************************************************************)
(* The org-settings document of domain/model/b2b_org_settings.go, as the   *)
(* operations of internal/service/org_settings_writer.go see it: two lists *)
(* of principals, each entry with an invite status and the role it was     *)
(* invited as.                                                             *)
(*                                                                         *)
(* A person stands for a normalised e-mail address and for the username    *)
(* that belongs to it.  A list holds at most one entry per person; the     *)
(* same person may be in both.  "lapsed" stands for revoked and expired,   *)
(* which only older records contain.  Names, avatars, invite ids and dates *)
(* are left out.                                                           *)
(***************************************************************************)
EXTENDS Naturals, FiniteSets

CONSTANTS
    People,
    Cap           \* entries a list may have (maxPrincipals)

ASSUME DataAssumption ==
    /\ IsFiniteSet(People)
    /\ Cap \in Nat

Roles    == {"writer", "auditor"}
Statuses == {"pending", "accepted", "lapsed"}

(* The list a role names; the role of an entry may differ from its list's.  *)
Absent  == [status |-> "absent", as |-> "none"]
Entries == [status : Statuses, as : Roles]
Lists   == [People -> Entries \union {Absent}]
Records == [Roles -> Lists]

EmptyRecord == [l \in Roles |-> [p \in People |-> Absent]]

Entry(status, role) == [status |-> status, as |-> role]

----------------------------------------------------------------------------
Members(d, l) == {p \in People : d[l][p] # Absent}

WithinCap(d, l) == Cardinality(Members(d, l)) <= Cap

Live(e) == e.status \in {"pending", "accepted"}

(* The people whose entry in a list yields a tuple (activeUsernames).       *)
Active(d, l) == {p \in People : d[l][p].status = "accepted"}

(* countFunctionalAdmins: who has real admin access. *)
Admins(d) == Active(d, "writer")

(* assertNotRemovingLastAdmin, a comparison of before and after.           *)
KeepsAdmin(d, e) == Admins(d) # {} => Admins(e) # {}

(* removePrincipalByEmail on both lists. *)
Without(d, p) == [l \in Roles |-> [d[l] EXCEPT ![p] = Absent]]

(* The append that follows it. *)
Placed(d, p, l, e) == [d EXCEPT ![l][p] = e]

(* principalLiveness: how much access an entry confers; an accepted one    *)
(* has a username.                                                         *)
Liveness(e) == CASE e.status = "accepted" -> 4
                 [] e.status = "pending"  -> 2
                 [] e.status = "lapsed"   -> 1
                 [] OTHER                 -> 0

(* mostLivePrincipal: the writers' entry unless the auditors' is livelier. *)
MostLive(d, p) == IF Liveness(d["auditor"][p]) > Liveness(d["writer"][p])
                    THEN d["auditor"][p]
                    ELSE d["writer"][p]

=============================================================================
