---------------------------- MODULE MCCdcRecords ----------------------------
(***************************************************************************)
(* What the consumer makes of the records of its events, in two halves,    *)
(* each on its own in one instance: their documents, purges and tuples     *)
(* (CdcConsumer), and the links between organizations (OrgHierarchy).  The *)
(* half that is explored is chosen at the start; the other stays as it     *)
(* began.                                                                  *)
(***************************************************************************)
EXTENDS CdcConsumer, OrgHierarchy, TLC

CONSTANTS MaxHappenings    \* bound: changes and failures together, of the links

VARIABLE half

Bare(o) == account[o] = [parent |-> NoOrg, state |-> "eligible", told |-> TRUE]

(* The children are alike, and so are the heads.                           *)
Symmetry == Permutations(Children) \union Permutations(Heads)

MCInit ==
    /\ Init /\ HInit
    /\ half \in {"records", "links"}
    /\ half = "records" => \A o \in Orgs : Bare(o)
    /\ Cardinality({o \in Orgs : ~Eligible(o)}) <= 1

MCNext ==
    /\ \/ half = "records" /\ Next /\ UNCHANGED hvars
       \/ half = "links" /\ HNext /\ moves' + failures' <= MaxHappenings /\ UNCHANGED vars
    /\ UNCHANGED half

MCSpec == MCInit /\ [][MCNext]_<<vars, hvars, half>>

(* The half explored keeps its types, as CdcConsumer's TypeOK or           *)
(* OrgHierarchy's HTypeOK says: nothing names "no organization".           *)
TypesOK == IF half = "records" THEN TypeOK ELSE HTypeOK
=============================================================================
