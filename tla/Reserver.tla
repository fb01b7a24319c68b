------------------------------ MODULE Reserver ------------------------------
(***************************************************************************)
(* The local fan-out: LocalReserver (collectors/reserve.py), as            *)
(* App._on_corr and App._on_obs broadcast to it and rtkrcv reads from it.  *)
(*                                                                         *)
(* asyncio's transport is external: it takes every chunk written to it,    *)
(* hands bytes on as the client reads, and after close() hands on what it  *)
(* still holds and then ends the connection.                               *)
(***************************************************************************)
EXTENDS Integers

CONSTANTS ResClients,
          ResLimit,    \* _MAX_WRITE_BUFFER
          ResChunk,    \* longest chunk broadcast: a read of 4096 bytes
          ResMaxBytes  \* bound: bytes broadcast

ASSUME ResAssumption == ResLimit \in Nat /\ ResChunk \in Nat /\ ResMaxBytes \in Nat

VARIABLES resState,  \* a client: away, open, or its connection is being closed
          resIn,     \* clients whose writer is in _writers
          resSent,   \* history: bytes broadcast
          resWritten,\* the stream up to where its transport has it
          resGot     \* the stream up to where the client has read it

resVars == <<resState, resIn, resSent, resWritten, resGot>>

ResTypeOK ==
  /\ resState \in [ResClients -> {"away", "open", "closing"}]
  /\ resIn \in SUBSET ResClients
  /\ resSent \in Nat
  /\ resWritten \in [ResClients -> Nat] /\ resGot \in [ResClients -> Nat]

ResInit ==
  /\ resState = [c \in ResClients |-> "away"] /\ resIn = {} /\ resSent = 0
  /\ resWritten = [c \in ResClients |-> 0]
  /\ resGot = [c \in ResClients |-> 0]

\* get_write_buffer_size
Held(c) == resWritten[c] - resGot[c]

\* _on_client begins
ResCome(c) ==
  /\ resState[c] = "away" /\ resState' = [resState EXCEPT ![c] = "open"]
  /\ resIn' = resIn \cup {c}
  /\ resWritten' = [resWritten EXCEPT ![c] = resSent]
  /\ resGot' = [resGot EXCEPT ![c] = resSent]
  /\ UNCHANGED resSent

\* its read ends (the client shut its side, or the connection is lost): finally
ResLeave(c) ==
  /\ resState[c] \in {"open", "closing"} /\ resState' = [resState EXCEPT ![c] = "away"]
  /\ resIn' = resIn \ {c}
  /\ UNCHANGED <<resSent, resWritten, resGot>>

\* the writer is closing while its handler still waits for the client's end
ResClosing(c) ==
  /\ resState[c] = "open" /\ resState' = [resState EXCEPT ![c] = "closing"]
  /\ UNCHANGED <<resIn, resSent, resWritten, resGot>>

\* the client reads
ResRead(c) ==
  /\ resState[c] # "away" /\ Held(c) > 0
  /\ \E n \in 1..Held(c) : resGot' = [resGot EXCEPT ![c] = resGot[c] + n]
  /\ UNCHANGED <<resState, resIn, resSent, resWritten>>

Slow == {c \in resIn : resState[c] = "open" /\ Held(c) > ResLimit}
Ready == {c \in resIn : resState[c] = "open" /\ Held(c) <= ResLimit}

\* mutant of ResBroadcast: a slow client misses the chunk and stays
ResBroadcastSkips(n) ==
  /\ resSent + n <= ResMaxBytes /\ resSent' = resSent + n
  /\ resIn' = Ready \cup Slow
  /\ resWritten' = [c \in ResClients |-> IF c \in Ready THEN resWritten[c] + n ELSE resWritten[c]]
  /\ UNCHANGED <<resState, resGot>>

\* broadcast of n bytes: writers that close are forgotten, slow ones closed, and
\* the others get the chunk
ResBroadcast(n) ==
  /\ resSent + n <= ResMaxBytes /\ resSent' = resSent + n
  /\ resIn' = Ready
  /\ resState' = [c \in ResClients |-> IF c \in Slow THEN "closing" ELSE resState[c]]
  /\ resWritten' = [c \in ResClients |-> IF c \in Ready THEN resWritten[c] + n ELSE resWritten[c]]
  /\ UNCHANGED resGot

ResNext == \/ \E c \in ResClients : ResCome(c) \/ ResLeave(c) \/ ResClosing(c) \/ ResRead(c)
           \/ \E n \in 1..ResChunk : ResBroadcast(n)
ResSpec == ResInit /\ [][ResNext]_resVars

-----------------------------------------------------------------------------
(* Properties. *)

\* A client that is served has in hand or on its way the whole stream since it
\* came, however slow the others are, and no client makes the monitor hold more
\* than the limit and one chunk; one that is cut off has the stream up to there.
FanOutWhole ==
  \A c \in ResClients :
    /\ resState[c] = "open" => c \in resIn /\ resWritten[c] = resSent
    /\ resState[c] # "away" => /\ resGot[c] <= resWritten[c] /\ resWritten[c] <= resSent
                               /\ Held(c) <= ResLimit + ResChunk
=============================================================================
