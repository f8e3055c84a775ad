---------------------------- MODULE MCSmallSglist ---------------------------
(* The instances of SmallSglist that TLC checks. *)
EXTENDS SmallSglist

\* A region of five bytes at address 1: ranges inside it, at its ends, past
\* them, and ranges whose end wraps around.
MCRequests ==
  [by : {"offset"}, at : {0}, length : {1}]
    \cup [by : {"offset"}, at : {1, 2, 7}, length : {4}]
    \cup [by : {"offset"}, at : {5, 6}, length : {3}]
    \cup [by : {"address"}, at : {0, 2, 3, 7}, length : {4, 7}]
=============================================================================
