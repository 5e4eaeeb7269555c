---------------------------- MODULE ChannelBase -----------------------------
(***************************************************************************)
(* What the queue, the buffer and the timer of channel.hpp have in common: *)
(* a mutex and a condition variable, and a flag that close() resets.       *)
(***************************************************************************)
EXTENDS CondVar

VARIABLE open_

ChannelBaseType == CondVarType /\ open_ \in BOOLEAN

ChannelBaseInit == CondVarInit /\ open_ = TRUE
=============================================================================
