--------------------------- MODULE StdioSession ----------------------------
(***************************************************************************)
(* The session on standard input and output (crates/mcp/src/stdio.rs): the *)
(* transport that rmcp reads from and sends through, which records the     *)
(* first write that fails while the input is open and then ends the input. *)
(*                                                                         *)
(* The runtime has one thread, so tasks meet only at an await.  rmcp calls *)
(* receive again after each message, sends an answer to each, and ends the *)
(* session when receive returns none.                                      *)
(***************************************************************************)
EXTENDS Integers

CONSTANT MaxLines   \* the lines that the client sends

VARIABLES
    sent, lines,    \* lines the client sent; those of them not yet taken
    client,         \* "open", or "closed" when it closed its end of the input
    deaf,           \* the client no longer reads, so writes fail
    receiving,      \* "called", "waiting" or "none": the receive of the session
    answers,        \* answers not yet written
    error,          \* the first failed write is recorded
    permit,         \* Notify holds a permit
    input_ended,    \* the end of the input was recorded
    ended,          \* "no", "closed", "failed" or "unwritable"
    after           \* lines taken after the first failed write was recorded

vars == <<sent, lines, client, deaf, receiving, answers, error, permit, input_ended, ended, after>>
peer == <<sent, client, deaf>>

Init ==
    /\ sent = 0 /\ lines = 0 /\ client = "open" /\ deaf = FALSE
    /\ receiving = "called" /\ answers = 0
    /\ error = FALSE /\ permit = FALSE /\ input_ended = FALSE
    /\ ended = "no" /\ after = 0

\* The session is over, and it was unwritable when a failed write is recorded
\* by then, whatever ended it.
over(how) == receiving' = "none" /\ ended' = IF error THEN "unwritable" ELSE how

\* Variant: receive does not look at the record before it waits.
receive_blindly ==
    /\ receiving = "called"
    /\ receiving' = "waiting" /\ UNCHANGED ended
    /\ UNCHANGED <<peer, lines, answers, error, permit, input_ended, after>>

\* After a failed write the input ends, even with lines still buffered.
receive ==
    /\ receiving = "called"
    /\ IF error THEN over("closed") ELSE receiving' = "waiting" /\ UNCHANGED ended
    /\ UNCHANGED <<peer, lines, answers, error, permit, input_ended, after>>

\* The input is polled before the record of a failed write.
received_line ==
    /\ receiving = "waiting" /\ lines > 0
    /\ lines' = lines - 1 /\ receiving' = "called" /\ answers' = answers + 1
    /\ after' = IF error THEN after + 1 ELSE after
    /\ UNCHANGED <<peer, error, permit, input_ended, ended>>

\* The first line does not start a session.
not_initialized ==
    /\ receiving = "waiting" /\ lines = sent /\ lines > 0
    /\ lines' = lines - 1 /\ over("failed")
    /\ UNCHANGED <<peer, answers, error, permit, input_ended, after>>

end_input ==
    /\ receiving = "waiting" /\ lines = 0 /\ client = "closed"
    /\ input_ended' = TRUE /\ over("closed")
    /\ UNCHANGED <<peer, lines, answers, error, permit, after>>

\* The permit wakes a wait that started before it or after it.
failed ==
    /\ receiving = "waiting" /\ lines = 0 /\ client = "open" /\ permit
    /\ permit' = FALSE /\ over("closed")
    /\ UNCHANGED <<peer, lines, answers, error, input_ended, after>>

\* A write that fails after the end of the input is the client's teardown.
record ==
    IF input_ended \/ error THEN UNCHANGED <<error, permit>>
    ELSE error' = TRUE /\ permit' = TRUE

send ==
    /\ ended = "no" /\ answers > 0 /\ answers' = answers - 1
    /\ IF deaf THEN record ELSE UNCHANGED <<error, permit>>
    /\ UNCHANGED <<peer, lines, receiving, input_ended, ended, after>>

\* The client: it sends, closes its output, or stops reading.
client_sends ==
    /\ client = "open" /\ sent < MaxLines
    /\ sent' = sent + 1 /\ lines' = lines + 1
    /\ UNCHANGED <<client, deaf, receiving, answers, error, permit, input_ended, ended, after>>

client_leaves ==
    /\ \/ client = "open" /\ client' = "closed" /\ UNCHANGED deaf
       \/ ~deaf /\ deaf' = TRUE /\ UNCHANGED client
    /\ UNCHANGED <<sent, lines, receiving, answers, error, permit, input_ended, ended, after>>

Session == receive \/ received_line \/ not_initialized \/ end_input \/ failed
Next == Session \/ send \/ client_sends \/ client_leaves

-----------------------------------------------------------------------------
\* After the first failed write at most the one line that a waiting receive was
\* about to return is still taken: the lines behind it are not served into a
\* closed output.
OneLineAfterBreak == after <= 1

\* A session whose write failed ends, and ends as unwritable, though its client
\* keeps the input open and sends nothing more.
BrokenSessionEnds == error ~> ended = "unwritable"
=============================================================================
