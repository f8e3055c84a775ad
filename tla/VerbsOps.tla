------------------------------ MODULE VerbsOps ------------------------------
(***************************************************************************)
(* The data-plane operation both backends and both completion modes share: *)
(* what posting, a work completion and do_complete make of the error code  *)
(* and the byte count of rdma_verbs_op_base.  "outbound" is send or write, *)
(* "inbound" is recv or read; the byte counts are abstract sizes.          *)
(***************************************************************************)
EXTENDS Naturals, Sequences

Class == {"outbound", "inbound"}
Code  == {"ok", "operation_aborted", "connection_reset", "too_many_sge",
          "buffer_too_large", "post_failed"}
WcStatus == {"success", "flush", "error"}

\* How posting ends: the checks of do_post_*, the native post, or posted.
PostOutcome == {"empty", "too_many_sge", "buffer_too_large", "post_failed",
                "posted"}

\* do_post_send / _recv / _read / _write: TRUE when no CQE will follow.
Immediate(outcome) == outcome # "posted"

\* op->ec_ after do_post_*: an empty sequence completes with success.
PostCode(outcome) ==
  IF outcome \in {"empty", "posted"} THEN "ok" ELSE outcome

\* op->bytes_transferred_ after do_post_*: set_posted_bytes comes before the
\* native post, which may then fail; inbound operations never set it.
PostBytes(class, outcome, size) ==
  IF class = "outbound" /\ outcome \in {"post_failed", "posted"} THEN size ELSE 0

\* wc_status_to_ec.
WcCode(status) == CASE status = "success" -> "ok"
                    [] status = "flush"   -> "operation_aborted"
                    [] OTHER              -> "connection_reset"

\* resolve_verbs_op: a send or write keeps its posted size, a recv or read
\* takes byte_len, an error zeroes the count.
WcBytes(class, posted, status, len) ==
  IF status # "success" THEN 0
  ELSE IF class = "inbound" THEN len ELSE posted

\* do_complete of send and write drops the count when there is an error.
ReportedBytes(class, code, bytes) ==
  IF class = "outbound" /\ code # "ok" THEN 0 ELSE bytes
=============================================================================
