------------------------------- MODULE Output -------------------------------
(***************************************************************************)
(* Two loops that read a guest's bytes in pieces they do not choose:       *)
(* drain_capture (vmette/session.rs), which passes on the console's output *)
(* up to a cap, and echo_loop (vmette/vz/vsock.rs), which looks for the    *)
(* line READY in what the guest sends.                                     *)
(*                                                                         *)
(* The bytes are a sequence, and the reads the sequence of the pieces that *)
(* it comes in.  A chunk passed on is a sequence, or Notice, the line that *)
(* says that the output was truncated; the daemon makes a text of each     *)
(* chunk for itself (run_workload_inproc, vmetted/main.rs).  Among the     *)
(* bytes are the two of one UTF-8 character, Lead and Trail: longer ones   *)
(* are cut in the same way.  When drain_capture ends is module RunLane's.  *)
(* Left out: the echo, and what is logged.                                 *)
(***************************************************************************)
EXTENDS Naturals, Sequences, SequencesExt

Notice == <<"output truncated">>

Lead        == "C3"
Trail       == "A9"
Replacement == "U+FFFD"

-----------------------------------------------------------------------------
(* drain_capture.                                                          *)

\* Mutant: the cap counts reads that begin below it, not bytes.
TakeAll(read, sent, cap) == Len(read)

\* The bytes of a read that are still below the cap.
Take(read, sent, cap) ==
  IF Len(read) < cap - sent THEN Len(read) ELSE cap - sent

\* Past the cap it reads on and sends nothing.
OneRead(acc, read, cap) ==
  IF acc.sent >= cap THEN acc
  ELSE LET take == Take(read, acc.sent, cap)
           over == take < Len(read) /\ ~acc.truncated
       IN [sent |-> acc.sent + take,
           truncated |-> acc.truncated \/ over,
           chunks |-> Append(acc.chunks, SubSeq(read, 1, take))
                        \o (IF over THEN <<Notice>> ELSE <<>>)]

Captured(reads, cap) ==
  LET acc[n \in 0..Len(reads)] ==
        IF n = 0 THEN [sent |-> 0, truncated |-> FALSE, chunks |-> <<>>]
        ELSE OneRead(acc[n - 1], reads[n], cap)
  IN acc[Len(reads)].chunks

-----------------------------------------------------------------------------
(* String::from_utf8_lossy.                                                *)

\* Half of a character, the other half of which is not beside it.
IsStray(bytes, i) ==
  \/ bytes[i] = Lead  /\ ~(i + 1 \in DOMAIN bytes /\ bytes[i + 1] = Trail)
  \/ bytes[i] = Trail /\ ~(i - 1 \in DOMAIN bytes /\ bytes[i - 1] = Lead)

FromUtf8Lossy(bytes) ==
  [i \in DOMAIN bytes |-> IF IsStray(bytes, i) THEN Replacement ELSE bytes[i]]

\* What the client prints: the text of each chunk, one after the other.
Text(chunks) == FlattenSeq([k \in DOMAIN chunks |-> FromUtf8Lossy(chunks[k])])

-----------------------------------------------------------------------------
(* echo_loop.                                                              *)

\* memchr_seq.
Has(bytes, needle) == \E i \in DOMAIN bytes : IsPrefix(needle, SubSeq(bytes, i, Len(bytes)))

\* Mutant: the end of the last read only.
TailOfRead(tail, read, needle) ==
  LET n == Len(needle) - 1
  IN IF Len(read) <= n THEN read ELSE SubSeq(read, Len(read) - n + 1, Len(read))

\* What is carried to the next read: the end of the old tail and the read.
TailOf(tail, read, needle) ==
  LET all == tail \o read
      n   == Len(needle) - 1
  IN IF Len(all) <= n THEN all ELSE SubSeq(all, Len(all) - n + 1, Len(all))

\* The tail with the head of the read, and the read.
Hits(tail, read, needle) ==
  LET n == Len(needle) - 1
      head == SubSeq(read, 1, IF Len(read) < n THEN Len(read) ELSE n)
  IN Has(tail \o head, needle) \/ Has(read, needle)

ReadySeen(reads, needle) ==
  LET acc[n \in 0..Len(reads)] ==
        IF n = 0 THEN [tail |-> <<>>, hit |-> FALSE]
        ELSE [tail |-> TailOf(acc[n - 1].tail, reads[n], needle),
              hit |-> acc[n - 1].hit \/ Hits(acc[n - 1].tail, reads[n], needle)]
  IN acc[Len(reads)].hit

-----------------------------------------------------------------------------
Cut(chunks)  == chunks # <<>> /\ Last(chunks) = Notice
Passed(chunks) == IF Cut(chunks) THEN Front(chunks) ELSE chunks
Sent(chunks) == FlattenSeq(Passed(chunks))

\* The first read ends on the cap exactly, or more of them do.
EndsOnCap(reads, cap) ==
  \E i \in DOMAIN reads : Len(FlattenSeq(SubSeq(reads, 1, i))) = cap

(* However the pipe cuts the output, the consumer gets its first cap bytes, *)
(* no chunk of them twice, then at most one notice, and the notice whenever *)
(* something was dropped ("stops sending past it (after a one-time          *)
(* marker)") -- but if a read has ended just on the cap, when the output is *)
(* cut off without one.                                                     *)
CaptureExact(reads, cap) ==
  LET all == FlattenSeq(reads)
      got == Captured(reads, cap)
  IN /\ Sent(got) = SubSeq(all, 1, IF Len(all) < cap THEN Len(all) ELSE cap)
     /\ \A i \in DOMAIN got : got[i] = Notice => i = Len(got)
     /\ Cut(got) <=> (Len(all) > cap /\ ~EndsOnCap(reads, cap))

\* A character of two bytes lies across two of the chunks.
Torn(chunks) ==
  \E k \in 0..(Len(chunks) - 1) :
    LET before == FlattenSeq(SubSeq(chunks, 1, k))
    IN /\ before # <<>> /\ before[Len(before)] = Lead
       /\ chunks[k + 1] # <<>> /\ chunks[k + 1][1] = Trail

(* The text that the client gets is that of the bytes sent just when no     *)
(* character lies across two chunks: one that does arrives as two signs of  *)
(* replacement (run_workload_inproc converts each chunk by itself).         *)
TextExact(chunks) == Text(chunks) = FromUtf8Lossy(FlattenSeq(chunks)) <=> ~Torn(chunks)

(* READY is seen exactly when it has been sent, in however many pieces it   *)
(* arrives ("a READY split across two libc::read calls is still detected",  *)
(* and across more).                                                        *)
ReadyExact(reads, needle) == ReadySeen(reads, needle) <=> Has(FlattenSeq(reads), needle)
=============================================================================
