--------------------------- MODULE StartupStream ---------------------------
(***************************************************************************)
(* What a live session promises the bike: the bytes it writes are a prefix *)
(* of one stream, the handshake response followed by the startup replies   *)
(* in the order in which the bike asked; and a session that stops cleanly  *)
(* has written the whole of it.  LiveSession implements this with a queue, *)
(* a list of pending replies and a writer task.                            *)
(***************************************************************************)
EXTENDS Packets

CONSTANT Response   \* the packets of the handshake response

VARIABLES
  wire,      \* the packets written
  asked,     \* how many startup replies the bike's requests have called for
  status     \* "closed" before the handshake, "open", "flushed" or "broken"

svars == <<wire, asked, status>>

Stream == Response \o StartupReplies(1, asked)

Init == wire = <<>> /\ asked = 0 /\ status = "closed"

\* A notification calls for some more replies.
Ask ==
  /\ status # "flushed"
  /\ asked' \in Nat /\ asked' > asked
  /\ UNCHANGED <<wire, status>>

\* The handshake is complete: the stream starts to flow.
Open == status = "closed" /\ status' = "open" /\ UNCHANGED <<wire, asked>>

Deliver ==
  /\ status = "open" /\ Len(wire) < Len(Stream)
  /\ wire' = Append(wire, Stream[Len(wire) + 1])
  /\ UNCHANGED <<asked, status>>

\* A clean stop: nothing is left to write.
Flush == status = "open" /\ wire = Stream /\ status' = "flushed" /\ UNCHANGED <<wire, asked>>

\* The session gives up: nothing more is written.
Break == status \in {"closed", "open"} /\ status' = "broken" /\ UNCHANGED <<wire, asked>>

Next == Ask \/ Open \/ Deliver \/ Flush \/ Break

\* What is owed is written, unless the session gives up.
Spec == Init /\ [][Next]_svars /\ WF_svars(Deliver)
=============================================================================
