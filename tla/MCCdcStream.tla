---------------------------- MODULE MCCdcStream ----------------------------
(***************************************************************************)
(* The change feed in parts, each on its own in one instance: the          *)
(* consumer, whose stream hands it the log in batches; the stream with its *)
(* replay cursor, whose consumer handles an item or not; and the guard of  *)
(* the consumer against a spent quota, whose verdict the consumer takes as *)
(* a choice.  The part that is explored is chosen at the start; the others *)
(* stay as they began.                                                     *)
(***************************************************************************)
EXTENDS CdcConsumer, PubSubStream, QuotaGauge

VARIABLE part

MCInit ==
    /\ Init /\ SInit /\ QInit
    /\ part \in {"consumer", "stream", "guard"}
    /\ part # "stream" => stored = 0
    /\ part # "guard" => usage = "low"

MCNext ==
    /\ \/ part = "consumer" /\ Next /\ UNCHANGED <<svars, qvars>>
       \/ part = "stream" /\ SNext /\ UNCHANGED <<vars, qvars>>
       \/ part = "guard" /\ QNext /\ UNCHANGED <<vars, svars>>
    /\ UNCHANGED part

MCSpec ==
    /\ MCInit
    /\ [][MCNext]_<<vars, svars, qvars, part>>
    /\ WF_vars(part = "consumer" /\ Run)
    /\ WF_vars(part = "consumer" /\ Deliver)
    /\ WF_vars(part = "consumer" /\ Keepalive)
    /\ WF_svars(part = "stream" /\ Subscribe)
    /\ WF_svars(part = "stream" /\ Consume)
    /\ WF_svars(part = "stream" /\ StreamEnds /\ next <= retained)
    /\ WF_qvars(part = "guard" /\ Tick)
=============================================================================
