------------------------------- MODULE Output -------------------------------
(***************************************************************************)
(* Printing: every printer of std/io hands its text to io_write_all, which *)
(* calls the platform's write until every byte is out.                     *)
(*                                                                         *)
(* The platform is the environment: a write may take all it is given, some *)
(* of it, nothing, or fail.                                                *)
(***************************************************************************)
EXTENDS Integers, SequencesExt

CONSTANT Prints     \* the calls tried: the buffers a printer writes, one after the other

ASSUME PrintsAreBuffers == \A p \in Prints : p \in Seq(Seq(Int)) /\ p # <<>>

VARIABLES
    print,      \* the call: its buffers
    chunk,      \* io_write_all's buffer, by number; 0 once the printer returned
    done,       \* io_write_all's `done`
    sent,       \* the bytes the platform took, over all the writes
    result,     \* what the printer returns: 0, or -1 for an error
    parity      \* of the number of writes, so that a write that does nothing is a step

outVars == <<print, chunk, done, sent, result, parity>>

Buffer == print[chunk]

OutInit ==
    /\ print \in Prints
    /\ chunk = 1
    /\ done = 0
    /\ sent = <<>>
    /\ result = 0
    /\ parity = 0

\* What a write is given: the rest of the buffer.
WholeBuffer(d) == Buffer
Rest(d) == SubSeq(Buffer, d + 1, Len(Buffer))

\* io_write_all returns: on to the next buffer, or back to the caller; println
\* gives up at the first error.
Return(failed) ==
    /\ chunk' = IF chunk = Len(print) \/ failed THEN 0 ELSE chunk + 1
    /\ done' = 0
    /\ result' = IF failed THEN -1 ELSE result

\* A short write; the loop calls again. A write of nothing is an error.
RetriesAlways(w) == TRUE
Retries(w) == w > 0

Wrote(w) ==
    /\ chunk # 0 /\ done < Len(Buffer)
    /\ w \in 0 .. Len(Rest(done))
    /\ sent' = sent \o SubSeq(Rest(done), 1, w)
    /\ IF Retries(w) THEN done' = done + w /\ UNCHANGED <<chunk, result>>
       ELSE Return(TRUE)
    /\ parity' = 1 - parity
    /\ UNCHANGED print

WriteFailed ==
    /\ chunk # 0 /\ done < Len(Buffer)
    /\ Return(TRUE)
    /\ parity' = 1 - parity
    /\ UNCHANGED <<print, sent>>

AllWritten ==
    /\ chunk # 0 /\ done >= Len(Buffer)
    /\ Return(FALSE)
    /\ UNCHANGED <<print, sent, parity>>

OutNext ==
    \/ \E w \in 0 .. Len(FlattenSeq(print)) : Wrote(w)
    \/ WriteFailed
    \/ AllWritten

-----------------------------------------------------------------------------
(* Properties. *)

\* However the platform splits the writes, what comes out is a beginning of what
\* was printed, each byte once and in order, and all of it unless an error is
\* returned (io_write_all, println).
PrintsOnceInOrder ==
    /\ IsPrefix(sent, FlattenSeq(print))
    /\ chunk = 0 /\ result = 0 => sent = FlattenSeq(print)

\* Every print returns, as long as the writes do: a write that makes no progress is
\* not tried again (io_write_all: "retrying that forever would hang").
PrintsReturn == <>(chunk = 0)
=============================================================================
