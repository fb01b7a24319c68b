------------------------------ MODULE Framing -------------------------------
(***************************************************************************)
(* From chunks to frames and to the logs: RtcmFramer (parsers/rtcm.py) in  *)
(* App._on_corr and App._on_obs, LineFramer (parsers/gpchc.py) in          *)
(* App._on_sol.                                                            *)
(*                                                                         *)
(* A wire is what a source sends, past reconnects, as the framer sees it.  *)
(* Of a byte it tells whether a frame may begin there (0xD3) and then what *)
(* the two bytes and the checksum behind it would say: the frame's length, *)
(* and whether it is one.  Of a text it tells where the lines end.  The    *)
(* buffer is the bytes after frmTaken and up to frmFed.                    *)
(***************************************************************************)
EXTENDS Picks

CONSTANTS FrmWires,    \* the binary wires
          FrmTexts,    \* the text wires
          FrmOverhead, \* header and checksum: 6 bytes
          FrmPayload,  \* what the message type is read from: 2 bytes of payload
          FrmLongest,  \* longest frame
          FrmMaxBuf,   \* LineFramer's max_buf
          FrmMaxFails  \* bound: appends that raise

NoSync == [sync |-> FALSE, total |-> 0, good |-> FALSE]
Sync(total, good) == [sync |-> TRUE, total |-> total, good |-> good]

\* the frames that were sent do not overlap
FramesApart(w) ==
  \A i, j \in DOMAIN w : i < j /\ w[i].good /\ w[j].good => j >= i + w[i].total

\* every frame that was sent has a message type
NoShortMessages ==
  \A w \in FrmWires : \A i \in DOMAIN w : w[i].good => w[i].total >= FrmOverhead + FrmPayload

\* the sequences on which a framer works
OnWire(w) == Len(w) \in Nat /\ DOMAIN w = 1..Len(w)

ASSUME FrmAssumption ==
  /\ FrmOverhead \in Nat \ {0} /\ FrmPayload \in Nat /\ FrmMaxBuf \in Nat /\ FrmMaxFails \in Nat
  /\ FrmLongest \in Nat /\ FrmOverhead <= FrmLongest
  /\ \A w \in FrmTexts : OnWire(w)
  /\ \A w \in FrmWires :
       /\ OnWire(w) /\ FramesApart(w)
       /\ \A i \in DOMAIN w :
            w[i] = NoSync \/ w[i] \in {Sync(n, g) : n \in FrmOverhead..FrmLongest, g \in BOOLEAN}

VARIABLES frmKind,  \* "corr", "obs" or "sol"
          frmWire,
          frmFed,   \* bytes fed
          frmTaken, \* bytes no longer in the buffer
          frmOut,   \* history: where what came out of feed begins
          frmLog,   \* history: what of it was logged
          frmCut,   \* history: where a text was cut (overflows)
          frmFails  \* history: appends that raised

frmVars == <<frmKind, frmWire, frmFed, frmTaken, frmOut, frmLog, frmCut, frmFails>>

FrmTypeOK ==
  /\ frmKind \in {"corr", "obs", "sol"}
  /\ frmWire \in IF frmKind = "sol" THEN FrmTexts ELSE FrmWires
  /\ frmFed \in 0..Len(frmWire) /\ frmTaken \in 0..frmFed
  /\ frmOut \in Seq(DOMAIN frmWire) /\ frmLog \in Seq(DOMAIN frmWire)
  /\ frmCut \subseteq 0..Len(frmWire)
  /\ frmFails \in Nat

FrmInit ==
  /\ \/ frmKind \in {"corr", "obs"} /\ frmWire \in FrmWires
     \/ frmKind = "sol" /\ frmWire \in FrmTexts
  /\ frmFed = 0 /\ frmTaken = 0 /\ frmOut = <<>> /\ frmLog = <<>>
  /\ frmCut = {} /\ frmFails = 0

Ends(i) == i + frmWire[i].total - 1

-----------------------------------------------------------------------------
(* RtcmFramer.feed: a turn of its loop, with the buffer after t, and S the *)
(* turns that follow.                                                      *)

\* mutant of Turn: a bad checksum drops the whole would-be frame
TurnSkips(S, t, fed) ==
  LET starts == {i \in t + 1 .. fed : frmWire[i].sync}
      s == Min(starts)
  IN  IF starts = {} THEN [taken |-> fed, out |-> <<>>, raised |-> FALSE]
      ELSE IF fed - s + 1 < FrmOverhead \/ Ends(s) > fed
           THEN [taken |-> s - 1, out |-> <<>>, raised |-> FALSE]
      ELSE IF ~frmWire[s].good THEN S[Ends(s)]
      ELSE IF frmWire[s].total < FrmOverhead + FrmPayload
           THEN [taken |-> s - 1, out |-> <<>>, raised |-> TRUE]
      ELSE [S[Ends(s)] EXCEPT !.out = <<s>> \o @]

Turn(S, t, fed) ==
  LET starts == {i \in t + 1 .. fed : frmWire[i].sync}
      s == Min(starts)
  IN  IF starts = {} THEN [taken |-> fed, out |-> <<>>, raised |-> FALSE]
      ELSE IF fed - s + 1 < FrmOverhead \/ Ends(s) > fed
           THEN [taken |-> s - 1, out |-> <<>>, raised |-> FALSE]
      ELSE IF ~frmWire[s].good THEN S[s]
      \* payload[1] of a payload of one byte or none: IndexError, and the
      \* frame is still in the buffer
      ELSE IF frmWire[s].total < FrmOverhead + FrmPayload
           THEN [taken |-> s - 1, out |-> <<>>, raised |-> TRUE]
      ELSE [S[Ends(s)] EXCEPT !.out = <<s>> \o @]

Scan(taken, fed) ==
  LET S[t \in 0..Len(frmWire)] == Turn(S, t, fed) IN S[taken]

\* What is logged of the messages of a chunk.  corr guards each append, obs
\* guards them all at once: the messages after the one that raises are dropped.
Logged(msgs, failing) ==
  LET kept == IF frmKind = "corr" THEN DOMAIN msgs \ failing
              ELSE {k \in DOMAIN msgs : \A f \in failing : k < f}
  IN  Picked(msgs, kept)

\* _on_corr and _on_obs: feed n bytes, and append each message to the log
OnRtcm(n) ==
  LET scan == Scan(frmTaken, frmFed + n)
      msgs == IF scan.raised THEN <<>> ELSE scan.out
  IN  /\ frmKind \in {"corr", "obs"} /\ frmFed + n <= Len(frmWire)
      /\ frmFed' = frmFed + n /\ frmTaken' = scan.taken
      /\ frmOut' = frmOut \o msgs
      /\ \E failing \in SUBSET DOMAIN msgs :
           /\ frmFails + Cardinality(failing) <= FrmMaxFails
           /\ frmFails' = frmFails + Cardinality(failing)
           /\ frmLog' = frmLog \o Logged(msgs, failing)
      /\ UNCHANGED <<frmKind, frmWire, frmCut>>

\* _on_sol: feed n bytes of text.  A buffer that outgrows max_buf with no end of
\* line in it is thrown away; else it is split, and the rest stays.
OnSol(n) ==
  LET fed  == frmFed + n
      ends == {i \in frmTaken + 1 .. fed : frmWire[i] = "nl"}
      \* a line begins where the buffer does, and after each end of line
      begins == {frmTaken + 1} \cup {e + 1 : e \in ends \ {fed}}
      whole  == {b \in begins : \E e \in ends : b < e}
  IN  /\ frmKind = "sol" /\ fed <= Len(frmWire)
      /\ frmFed' = fed
      /\ IF fed - frmTaken > FrmMaxBuf /\ ends = {}
         THEN /\ frmTaken' = fed /\ frmCut' = frmCut \cup {fed}
              /\ UNCHANGED frmOut
         ELSE /\ frmTaken' = IF ends = {} THEN frmTaken ELSE Max(ends)
              /\ frmOut' = frmOut \o InTurn({b \in whole : frmWire[b] # "nl"})
              /\ UNCHANGED frmCut
      /\ UNCHANGED <<frmKind, frmWire, frmLog, frmFails>>

FrmNext == \E n \in 1..Len(frmWire) : OnRtcm(n) \/ OnSol(n)
FrmSpec == FrmInit /\ [][FrmNext]_frmVars

-----------------------------------------------------------------------------
(* Properties. *)

\* frames that carry a message: good ones in which there is a type to read
GoodFrames == {i \in DOMAIN frmWire :
                 frmWire[i].good /\ frmWire[i].total >= FrmOverhead + FrmPayload}
OutSet == {frmOut[i] : i \in DOMAIN frmOut}
InOrder(s) == \A i, j \in DOMAIN s : i < j => s[i] < s[j]

\* A message comes out, with the byte by which no false start before it can still
\* hold it up.  ("Feed arbitrary byte chunks; get complete CRC-checked RTCM3
\* messages.")
MessagesCome ==
  frmKind # "sol" =>
    \A i \in GoodFrames : Ends(i) <= frmFed /\ i + FrmLongest - 2 <= frmFed => i \in OutSet

\* Whatever the chunks: what comes out is messages, each once, in the order of the
\* wire and only when all of it is there; the buffer never holds a whole frame;
\* and of corrections every message is logged whose append did not raise.
RtcmAsSent ==
  frmKind # "sol" =>
    /\ OutSet \subseteq {i \in GoodFrames : Ends(i) <= frmFed} /\ InOrder(frmOut)
    /\ frmFed - frmTaken < FrmLongest
    /\ frmKind = "corr" => Len(frmLog) + frmFails = Len(frmOut)

\* A line comes out once, whole and in order, however it was cut into chunks; a
\* fragment comes out only after an overflow, and no line that fits is lost.
LinesAsSent ==
  frmKind = "sol" =>
    /\ InOrder(frmOut)
    /\ \A b \in OutSet : b = 1 \/ frmWire[b - 1] = "nl" \/ b - 1 \in frmCut
    /\ \A e \in 1..frmTaken : frmWire[e] = "nl" =>
         LET bs == {b \in 1..e : (b = 1 \/ frmWire[b - 1] = "nl")
                                 /\ \A i \in b .. e - 1 : frmWire[i] # "nl"}
         IN  \A b \in bs : b < e /\ e - b <= FrmMaxBuf => b \in OutSet
=============================================================================
