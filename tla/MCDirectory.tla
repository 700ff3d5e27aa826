---------------------------- MODULE MCDirectory ----------------------------
(***************************************************************************)
(* The directory alone, with an environment that sends it anything, at any *)
(* time, as long as it differs for the directory.  The directory treats    *)
(* REPL as WRB, an UPGRADE from a node that shares nothing as READ_OWN,    *)
(* and a preprocessed reply of one type as that of another; it ignores who *)
(* acknowledges; and it compares the other nodes only with each other (the *)
(* owner, the one waited for, the one whose write-back was here).  So one  *)
(* node, Writer, that sends everything, and the others, that read, are     *)
(* enough for each comparison to come out either way.                      *)
(***************************************************************************)
EXTENDS Directory, TLC

CONSTANTS
  Writer,
  MaxWait, MaxOutbound   \* bounds of the run

Readers == Nodes \ {Writer}

Req(n, l, t, pre) ==
  [type |-> "REQUEST", req_type |-> t, reply |-> "REPLY", nack_st |-> "NACK_OK",
   node |-> n, tag |-> l, forward_to |-> NULL, preprocessed |-> pre, isreq |-> TRUE]

MCRequests ==
  UNION {{Req(n, l, "READ_SH", FALSE) : n \in Nodes}
         \cup {Req(Writer, l, "UPGRADE", FALSE), Req(Writer, l, "REPLY_UPGRADE", TRUE)}
         : l \in Lines}

Rep(n, l, t, reply, f, own) ==
  [type |-> "COHE_REPLY", req_type |-> t, reply |-> reply,
   nack_st |-> IF t \in {"INVL", "WRB"} THEN "NACK_OK" ELSE "NACK_NOK",
   node |-> n, tag |-> l, forward_to |-> f, preprocessed |-> FALSE, isreq |-> own]

(* Acknowledgments of an invalidation and of a transfer, write-backs, and  *)
(* forwarded requests that are refused.                                    *)
MCAnswers ==
  UNION {{Rep(Writer, l, "INVL", "REPLY", NULL, FALSE),
          Rep(Writer, l, "WRB", "REPLY", NULL, FALSE)}
         \cup {Rep(n, l, "COPYBACK", "REPLY", Writer, FALSE) : n \in Readers}
         \cup {Rep(Writer, l, c, r, f, TRUE) : c \in {"COPYBACK", "COPYBACK_INVL"},
                 r \in {"NACK", "NACK_PEND"}, f \in Readers}
         : l \in Lines}

ASSUME MCRequests \subseteq RequestMsg /\ MCAnswers \subseteq CoheRepMsg

(* The counters that only the environment's freedom makes unbounded.       *)
Small == wait_cntsz <= MaxWait /\ Len(OutboundReqs) <= MaxOutbound

(* What has left is never read again, so only how much of it is there      *)
(* tells states apart; the readers are interchangeable.                    *)
View == <<lineVars, countVars, queueVars, ctlVars, fatal, inVars,
          Len(outCohe), Len(outRep)>>
ReaderSymmetry == Permutations(Readers)

MCNext == \/ DirStep
          \/ \E m \in MCRequests : ArriveReq(m)
          \/ \E m \in MCAnswers : ArriveRep(m)
          \/ TakeCohe \/ TakeRep
MCSpec == DirInit /\ [][MCNext]_dirVars
============================================================================
