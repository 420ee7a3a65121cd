----------------------------- MODULE MCFeedbackBus -----------------------------
(* Two streams whose queues hold two events, so that one is cut off while the  *)
(* other keeps up, and one more event than the ring and a queue hold together. *)
EXTENDS FeedbackBus

MCSymmetry == Permutations(Streams)
=============================================================================
