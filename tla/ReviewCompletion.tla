-------------------------- MODULE ReviewCompletion --------------------------
(***************************************************************************)
(* What a diff server promises its host about the review it serves: the    *)
(* review is completed at most once, by one connection, as a submission or *)
(* a cancellation of one target, and what reaches the host is what was     *)
(* reserved.  A reserved completion may be lost, and then the review stays *)
(* undecided for good.                                                     *)
(***************************************************************************)
CONSTANTS Connections, Targets

VARIABLES
  status,  \* "open", "reserved", "delivered" or "lost"
  review   \* the reserved or delivered completion

Review == [by: Connections, kind: {"Submit", "Cancel"}, target: Targets]
NoReview == [by |-> "nobody", kind |-> "none", target |-> "none"]

Init == status = "open" /\ review = NoReview

Reserve(completion) ==
  /\ status = "open"
  /\ status' = "reserved"
  /\ review' = completion

Deliver ==
  /\ status = "reserved"
  /\ status' = "delivered"
  /\ UNCHANGED review

Lose ==
  /\ status = "reserved"
  /\ status' = "lost"
  /\ review' = NoReview

Next == (\E completion \in Review : Reserve(completion)) \/ Deliver \/ Lose

Spec == Init /\ [][Next]_<<status, review>>
=============================================================================
