----------------------------- MODULE CliRunProofs -----------------------------
(***************************************************************************)
(* Proofs about CliRun, for every chain of CLIs, all texts that a line may *)
(* carry and every size of pipe and channel.                               *)
(*                                                                         *)
(* The types come first, with what the scan of a text finds: an offset     *)
(* that is the end of a whole paragraph stays one when the text grows      *)
(* (SettledStays). What was rendered is safe because snapshots come in     *)
(* order (TextInv); what was said is not lost because, while the run goes  *)
(* on, the reader has the words of the lines it has taken (HeardInv).      *)
(***************************************************************************)
EXTENDS CliRun, Recursion, FiniteSetTheorems, SequenceTheorems, TLAPS

-----------------------------------------------------------------------------
(* The scan of a text for the end of its last whole paragraph.             *)

ScanStates == [at : Nat, inFence : BOOLEAN, start : BOOLEAN, half : BOOLEAN, last : Nat]

LEMMA ScanCharFacts ==
  ASSUME NEW s \in ScanStates, NEW c
  PROVE  /\ ScanChar(s, c) \in ScanStates
         /\ ScanChar(s, c).at = s.at + 1
         /\ ScanChar(s, c).start <=> c = NL
         /\ ScanChar(s, c).inFence <=> (IF c = Fence /\ s.start THEN ~s.inFence ELSE s.inFence)
         /\ ScanChar(s, c).half => c = NL /\ ~s.half /\ ~s.inFence
         /\ ScanChar(s, c).last = IF c = NL /\ s.half THEN s.at + 1 ELSE s.last
<1>1. Fence # NL
  BY DEF Fence, NL
<1>2. /\ s.at \in Nat /\ s.last \in Nat
      /\ s.inFence \in BOOLEAN /\ s.start \in BOOLEAN /\ s.half \in BOOLEAN
      /\ s = [at |-> s.at, inFence |-> s.inFence, start |-> s.start,
              half |-> s.half, last |-> s.last]
  BY DEF ScanStates
<1>3. CASE c = Fence /\ s.start
  <2>1. ScanChar(s, c) = [at |-> s.at + 1, inFence |-> ~s.inFence, start |-> FALSE,
                           half |-> FALSE, last |-> s.last]
    BY <1>1, <1>2, <1>3, Zenon DEF ScanChar
  <2>2. PICK b \in BOOLEAN : b = ~s.inFence
    OBVIOUS
  <2>3. ScanChar(s, c) = [at |-> s.at + 1, inFence |-> b, start |-> FALSE,
                          half |-> FALSE, last |-> s.last]
    BY <2>1, <2>2, Zenon
  <2>4. /\ ScanChar(s, c) \in ScanStates /\ ScanChar(s, c).inFence = b
        /\ ScanChar(s, c).at = s.at + 1 /\ ScanChar(s, c).start = FALSE
        /\ ScanChar(s, c).half = FALSE /\ ScanChar(s, c).last = s.last
    BY <1>2, <2>2, <2>3 DEF ScanStates
  <2> QED
    BY <1>1, <1>3, <2>2, <2>4
<1>4. CASE ~(c = Fence /\ s.start) /\ c # NL
  <2>1. ScanChar(s, c) = [at |-> s.at + 1, inFence |-> s.inFence, start |-> FALSE,
                           half |-> FALSE, last |-> s.last]
    BY <1>1, <1>2, <1>4, Zenon DEF ScanChar
  <2> QED
    BY <1>1, <1>2, <1>4, <2>1 DEF ScanStates
<1>5. CASE c = NL /\ s.half
  <2>1. ScanChar(s, c) = [at |-> s.at + 1, inFence |-> s.inFence, start |-> TRUE,
                           half |-> FALSE, last |-> s.at + 1]
    BY <1>1, <1>2, <1>5, Zenon DEF ScanChar
  <2> QED
    BY <1>1, <1>2, <1>5, <2>1 DEF ScanStates
<1>6. CASE c = NL /\ ~s.half
  <2>1. ScanChar(s, c) = [at |-> s.at + 1, inFence |-> s.inFence, start |-> TRUE,
                           half |-> ~s.inFence, last |-> s.last]
    BY <1>1, <1>2, <1>6, Zenon DEF ScanChar
  <2> QED
    BY <1>1, <1>2, <1>6, <2>1 DEF ScanStates
<1> QED
  BY <1>3, <1>4, <1>5, <1>6

(* The scan goes on character by character.                                *)
LEMMA ScanFollows ==
  ASSUME NEW t \in Seq(Chars)
  PROVE  /\ \A i \in 0 .. Len(t) : Scan(t)[i] \in ScanStates
         /\ Scan(t)[0] = Unread
         /\ \A i \in 1 .. Len(t) : Scan(t)[i] = ScanChar(Scan(t)[i - 1], t[i])
<1> DEFINE n == Len(t)
           next(f) == [i \in 0 .. n |-> IF i = 0 THEN Unread ELSE ScanChar(f[i - 1], t[i])]
           step == [p \in (1 .. n) \X ScanStates |-> ScanChar(p[2], t[p[1]])]
<1>1. n \in Nat /\ Unread \in ScanStates
  BY DEF Unread, ScanStates
<1>2. step \in [(1 .. n) \X ScanStates -> ScanStates]
  BY ScanCharFacts
<1>3. PICK f \in [0 .. n -> ScanStates] : Follows(f, n, Unread, step)
  <2> HIDE DEF step
  <2> QED
    BY <1>1, <1>2, RecursionExists
<1>4. f = next(f)
  <2>1. ASSUME NEW i \in 1 .. n PROVE f[i] = ScanChar(f[i - 1], t[i])
    <3>1. f[i] = step[<<i, f[i - 1]>>]
      BY <1>3 DEF Follows
    <3>2. <<i, f[i - 1]>> \in (1 .. n) \X ScanStates
      <4>1. i - 1 \in 0 .. n
        BY <1>1
      <4>2. f[i - 1] \in ScanStates
        BY <1>3, <4>1
      <4> QED
        BY <4>2
    <3> QED
      BY <3>1, <3>2
  <2>2. f[0] = Unread
    BY <1>3 DEF Follows
  <2>3. \A i \in 0 .. n : f[i] = next(f)[i]
    BY <2>1, <2>2
  <2> QED
    BY <1>3, <2>3
<1>5. PICK scan : scan = Scan(t)
  OBVIOUS
<1>6. scan = next(scan)
  BY <1>4, <1>5, Zenon DEF Scan
<1>7. scan[0] = Unread /\ \A i \in 1 .. n : scan[i] = ScanChar(scan[i - 1], t[i])
  <2>1. /\ 0 \in 0 .. n /\ \A i \in 1 .. n : i \in 0 .. n /\ i # 0
    BY <1>1
  <2>2. \A i \in 0 .. n : scan[i] = IF i = 0 THEN Unread ELSE ScanChar(scan[i - 1], t[i])
    BY <1>6, Zenon
  <2> QED
    BY <2>1, <2>2
<1>8. \A i \in 0 .. n : scan[i] \in ScanStates
  <2> DEFINE T == {i \in 0 .. n : scan[i] \in ScanStates}
  <2>1. 0 \in T
    BY <1>1, <1>7
  <2>2. ASSUME NEW i \in 1 .. n, i - 1 \in T PROVE i \in T
    BY <1>7, <2>2, ScanCharFacts
  <2>3. 0 .. n \subseteq T
    BY <1>1, <2>1, <2>2, InductionUpTo
  <2> QED
    BY <2>3
<1> QED
  BY <1>5, <1>7, <1>8

LEMMA FencesStep ==
  ASSUME NEW t, NEW n \in Nat
  PROVE  /\ FencesBefore(t, n) \in Nat /\ FencesBefore(t, 0) = 0
         /\ FencesBefore(t, n + 1) =
              IF t[n + 1] = Fence /\ (n = 0 \/ t[n] = NL)
                THEN FencesBefore(t, n) + 1 ELSE FencesBefore(t, n)
<1> DEFINE fences(m) == {i \in 1 .. m : t[i] = Fence /\ (i = 1 \/ t[i - 1] = NL)}
<1>1. ASSUME NEW m \in Nat
      PROVE  IsFiniteSet(fences(m)) /\ Cardinality(fences(m)) \in Nat
  <2>1. IsFiniteSet(1 .. m)
    BY FS_Interval
  <2>2. IsFiniteSet(fences(m))
    BY <2>1, FS_Subset
  <2> QED
    BY <2>2, FS_CardinalityType
<1>2. fences(0) = {}
  OBVIOUS
<1>3. CASE t[n + 1] = Fence /\ (n = 0 \/ t[n] = NL)
  <2>1. fences(n + 1) = fences(n) \cup {n + 1}
    BY <1>3
  <2>2. n + 1 \notin fences(n)
    OBVIOUS
  <2> HIDE DEF fences
  <2>3. Cardinality(fences(n + 1)) = Cardinality(fences(n)) + 1
    BY <1>1, <2>1, <2>2, FS_AddElement
  <2> QED
    BY <1>1, <1>2, <1>3, <2>3, FS_EmptySet DEF FencesBefore, fences
<1>4. CASE ~(t[n + 1] = Fence /\ (n = 0 \/ t[n] = NL))
  <2>1. fences(n + 1) = fences(n)
    BY <1>4
  <2> QED
    BY <1>1, <1>2, <1>4, <2>1, FS_EmptySet DEF FencesBefore
<1> QED
  BY <1>3, <1>4

(* The first n characters of t are whole paragraphs outside code fences.   *)
Settled(t, n) ==
  /\ n \in 2 .. Len(t) /\ t[n - 1] = NL /\ t[n] = NL
  /\ FencesBefore(t, n) % 2 = 0

LEMMA Parity ==
  ASSUME NEW n \in Nat
  PROVE  /\ n % 2 \in {0, 1}
         /\ n % 2 = 1 <=> (n + 1) % 2 # 1
  OBVIOUS

(* What the scan knows after i characters.                                 *)
Knows(t, s, i) ==
  /\ s.at = i
  /\ s.start <=> i = 0 \/ t[i] = NL
  /\ s.inFence <=> FencesBefore(t, i) % 2 = 1
  /\ s.half => i # 0 /\ t[i] = NL /\ ~s.inFence
  /\ s.last = 0 \/ (s.last \in 2 .. i /\ Settled(t, s.last))

LEMMA ScanKnows ==
  ASSUME NEW t \in Seq(Chars)
  PROVE  \A i \in 0 .. Len(t) : Knows(t, Scan(t)[i], i)
<1> DEFINE n == Len(t)
           T == {i \in 0 .. n : Knows(t, Scan(t)[i], i)}
<1>1. n \in Nat /\ Fence # NL
  BY DEF Fence, NL
<1>2. 0 \in T
  <2>1. Scan(t)[0] = Unread /\ FencesBefore(t, 0) = 0
    BY ScanFollows, FencesStep
  <2> QED
    BY <1>1, <2>1 DEF Knows, Unread
<1>3. ASSUME NEW i \in 1 .. n, i - 1 \in T PROVE i \in T
  <2>1. PICK m \in 0 .. n : m = i - 1 /\ m \in Nat /\ i = m + 1
    BY <1>1
  <2>2. PICK s \in ScanStates : s = Scan(t)[m]
    BY ScanFollows
  <2>3. PICK c : c = t[i]
    OBVIOUS
  <2>4. PICK z : z = ScanChar(s, c)
    OBVIOUS
  <2>5. Scan(t)[i] = z
    BY <2>1, <2>2, <2>3, <2>4, ScanFollows
  <2>6. Knows(t, s, m)
    BY <1>3, <2>1, <2>2
  <2>7. /\ z.at = s.at + 1
        /\ z.start <=> c = NL
        /\ z.inFence <=> (IF c = Fence /\ s.start THEN ~s.inFence ELSE s.inFence)
        /\ z.half => c = NL /\ ~s.half /\ ~s.inFence
        /\ z.last = IF c = NL /\ s.half THEN s.at + 1 ELSE s.last
    BY <2>4, ScanCharFacts
  <2>8. /\ FencesBefore(t, m) \in Nat
        /\ FencesBefore(t, i) = IF c = Fence /\ s.start
                                  THEN FencesBefore(t, m) + 1 ELSE FencesBefore(t, m)
    <3>1. /\ FencesBefore(t, m) \in Nat
          /\ FencesBefore(t, m + 1) = IF t[m + 1] = Fence /\ (m = 0 \/ t[m] = NL)
                                        THEN FencesBefore(t, m) + 1 ELSE FencesBefore(t, m)
      BY <2>1, FencesStep
    <3>2. s.start <=> m = 0 \/ t[m] = NL
      BY <2>6 DEF Knows
    <3> QED
      BY <2>1, <2>3, <3>1, <3>2, Zenon
  <2>9. z.inFence <=> FencesBefore(t, i) % 2 = 1
    <3>1. CASE c = Fence /\ s.start
      BY <2>6, <2>7, <2>8, <3>1, Parity DEF Knows
    <3>2. CASE ~(c = Fence /\ s.start)
      BY <2>6, <2>7, <2>8, <3>2 DEF Knows
    <3> QED
      BY <3>1, <3>2
  <2>10. z.at = i /\ (z.start <=> t[i] = NL)
    BY <2>1, <2>3, <2>6, <2>7 DEF Knows
  <2>11. z.half => t[i] = NL /\ ~z.inFence
    BY <1>1, <2>3, <2>7
  <2>12. z.last = 0 \/ (z.last \in 2 .. i /\ Settled(t, z.last))
    <3>1. CASE c = NL /\ s.half
      <4>1. z.last = i /\ m # 0 /\ t[m] = NL /\ t[i] = NL /\ ~s.inFence
        BY <2>1, <2>3, <2>6, <2>7, <3>1 DEF Knows
      <4>2. FencesBefore(t, i) = FencesBefore(t, m)
        BY <1>1, <2>8, <3>1
      <4>3. FencesBefore(t, i) % 2 = 0
        BY <2>6, <2>8, <4>1, <4>2, Parity DEF Knows
      <4>4. i \in 2 .. n /\ i - 1 = m
        BY <2>1, <4>1
      <4> QED
        BY <4>1, <4>3, <4>4 DEF Settled
    <3>2. CASE ~(c = NL /\ s.half)
      BY <2>1, <2>6, <2>7, <3>2 DEF Knows
    <3> QED
      BY <3>1, <3>2
  <2>13. Knows(t, z, i)
    <3>1. i # 0
      BY <1>1
    <3> QED
      BY <2>9, <2>10, <2>11, <2>12, <3>1, Zenon DEF Knows
  <2> QED
    BY <2>5, <2>13
<1>4. 0 .. n \subseteq T
  BY <1>1, <1>2, <1>3, InductionUpTo
<1> QED
  BY <1>4

(* last_safe_paragraph_end finds an end of whole paragraphs, or none.      *)
LEMMA SafeEndIs ==
  ASSUME NEW t \in Seq(Chars)
  PROVE  SafeEnd(t) \in Nat /\ (SafeEnd(t) = 0 \/ Settled(t, SafeEnd(t)))
<1>1. Len(t) \in 0 .. Len(t)
  OBVIOUS
<1>2. Scan(t)[Len(t)] \in ScanStates /\ Knows(t, Scan(t)[Len(t)], Len(t))
  BY <1>1, ScanFollows, ScanKnows
<1> QED
  BY <1>2 DEF SafeEnd, Knows, ScanStates

-----------------------------------------------------------------------------
(* A text that grows.                                                      *)

Extends(s, t) ==
  Len(s) <= Len(t) /\ \A i \in 1 .. Len(s) : s[i] = t[i]

LEMMA ExtendsFacts ==
  ASSUME NEW s \in Seq(Chars), NEW t \in Seq(Chars), NEW u \in Seq(Chars)
  PROVE  /\ Extends(s, s)
         /\ Extends(s, t) /\ Extends(t, u) => Extends(s, u)
         /\ Extends(s, s \o t)
BY DEF Extends

(* What is settled stays settled.                                          *)
LEMMA SettledStays ==
  ASSUME NEW s \in Seq(Chars), NEW t \in Seq(Chars), NEW n, Settled(s, n), Extends(s, t)
  PROVE  Settled(t, n)
<1>1. n \in 2 .. Len(s) /\ n \in 2 .. Len(t) /\ \A i \in 1 .. n : s[i] = t[i]
  BY DEF Settled, Extends
<1>2. t[n - 1] = NL /\ t[n] = NL
  BY <1>1 DEF Settled
<1>3. FencesBefore(t, n) = FencesBefore(s, n)
  <2>1. \A i \in 1 .. n : i = 1 \/ i - 1 \in 1 .. n
    BY <1>1
  <2>2. \A i \in 1 .. n :
          (t[i] = Fence /\ (i = 1 \/ t[i - 1] = NL)) <=> (s[i] = Fence /\ (i = 1 \/ s[i - 1] = NL))
    BY <1>1, <2>1
  <2>3. {i \in 1 .. n : t[i] = Fence /\ (i = 1 \/ t[i - 1] = NL)} =
        {i \in 1 .. n : s[i] = Fence /\ (i = 1 \/ s[i - 1] = NL)}
    BY <2>2
  <2> QED
    BY <2>3 DEF FencesBefore
<1> QED
  BY <1>1, <1>2, <1>3 DEF Settled

(* A break between blocks only adds to the text.                           *)
LEMMA BrokenIs ==
  ASSUME NEW t \in Seq(Chars)
  PROVE  \E tail \in {<<>>, <<NL>>, <<NL, NL>>} :
           Broken(t) = t \o tail /\ (t = <<>> => tail = <<>>)
<1>1. t \o <<>> = t
  OBVIOUS
<1>2. CASE t = <<>> \/ EndsWith(t, <<NL, NL>>)
  BY <1>1, <1>2 DEF Broken
<1>3. CASE ~(t = <<>> \/ EndsWith(t, <<NL, NL>>)) /\ EndsWith(t, <<NL>>)
  <2>1. Append(t, NL) = t \o <<NL>>
    OBVIOUS
  <2> QED
    BY <1>3, <2>1 DEF Broken
<1>4. CASE ~(t = <<>> \/ EndsWith(t, <<NL, NL>>)) /\ ~EndsWith(t, <<NL>>)
  BY <1>4 DEF Broken
<1> QED
  BY <1>2, <1>3, <1>4

-----------------------------------------------------------------------------
(* Types.                                                                  *)

Hows == {"", "spawn", "ceiling", "read", "idle", "unheard", "exited", "dropped"}

ProcTypes ==
  /\ leader \in {"none", "busy", "quiet", "dead"} /\ helper \in BOOLEAN
  /\ holds \subseteq {"out", "err"} /\ jammed \in BOOLEAN
  /\ pipe \in Seq(Lines) /\ Len(pipe) <= PipeRoom /\ printed \in 0 .. MaxLines
  /\ strays \subseteq Hows \ {""}

ReaderTypes ==
  /\ streams \in BOOLEAN /\ attempt \in 1 .. Len(Flavors)
  /\ reader \in {"spawning", "top", "reading", "sending", "waiting", "stderr", "over"}
  /\ late \in BOOLEAN /\ full \in Seq(Chars) /\ failed \in BOOLEAN
  /\ final \in [given : BOOLEAN, text : Seq(Chars)] /\ heard \in Seq(Lines)
  /\ result \in [st : {"none", "ok", "err", "dropped"}, how : Hows, text : Seq(Chars)]

ShowTypes ==
  /\ channel \in Seq(Snapshots) /\ Len(channel) <= ChanRoom
  /\ flusher \in {"receiving", "posting", "done", "panicked", "gone"}
  /\ acc \in Snapshots /\ posted \in BOOLEAN /\ shown \in Seq(Chars) \cup {Sorry}
  /\ committed \in [at : Nat, by : Nat]

LEMMA TypesOf == TypeOK <=> ProcTypes /\ ReaderTypes /\ ShowTypes
<1>1. Hows \ {""} = {"spawn", "ceiling", "read", "idle", "unheard", "exited", "dropped"}
  BY DEF Hows
<1> QED
  BY <1>1, Zenon DEF TypeOK, ProcTypes, ReaderTypes, ShowTypes, Hows

LEMMA TypesOfNext == TypeOK' <=> ProcTypes' /\ ReaderTypes' /\ ShowTypes'
<1>1. (TypeOK <=> ProcTypes /\ ReaderTypes /\ ShowTypes)'
  BY TypesOf, PTL
<1> QED
  BY <1>1

LEMMA Empty ==
  ASSUME NEW S
  PROVE  <<>> \in Seq(S) /\ Len(<<>>) = 0
  OBVIOUS

(* The lines a CLI may print, and the constants of the module.             *)
LEMMA LineFacts ==
  /\ Noise \in Lines /\ Invalid \in Lines
  /\ \A flavor : Says(flavor) \subseteq Lines
  /\ None \in [given : BOOLEAN, text : Seq(Chars)]
  /\ Silence \in Snapshots
  /\ Len(Flavors) \in Nat /\ 1 \in 1 .. Len(Flavors)
<1>1. <<>> \in Seq(Chars) /\ <<"word">> \in Seq(Chars)
  BY DEF Chars
<1>2. \A t \in Chunks : t \in Seq(Chars)
  BY ChunkAssumption
<1>3. Noise \in Lines /\ Invalid \in Lines
  BY <1>1 DEF Noise, Invalid, Line, Lines
<1>4. \A t \in Seq(Chars) :
        /\ Line("text_delta", t, FALSE) \in Lines /\ Line("text", t, FALSE) \in Lines
        /\ Line("result", t, FALSE) \in Lines /\ Line("result", t, TRUE) \in Lines
        /\ Line("block_start", t, FALSE) \in Lines /\ Line("error", t, TRUE) \in Lines
  BY DEF Line, Lines
<1>5. ClaudeLines \subseteq Lines /\ OpenCodeLines \subseteq Lines
  BY <1>1, <1>2, <1>4 DEF ClaudeLines, OpenCodeLines
<1>6. \A flavor : Says(flavor) \subseteq Lines
  BY <1>3, <1>5 DEF Says
<1>7. None \in [given : BOOLEAN, text : Seq(Chars)] /\ Silence \in Snapshots
  BY <1>1 DEF None, Silence, Snapshots
<1>8. Len(Flavors) \in Nat /\ 1 \in 1 .. Len(Flavors)
  BY FlavorAssumption
<1> QED
  BY <1>3, <1>6, <1>7, <1>8

LEMMA BrokenType ==
  ASSUME NEW t \in Seq(Chars)
  PROVE  Broken(t) \in Seq(Chars)
<1>1. PICK tail \in {<<>>, <<NL>>, <<NL, NL>>} : Broken(t) = t \o tail
  BY BrokenIs
<1>2. NL \in Chars
  BY DEF NL, Chars
<1>3. <<>> \in Seq(Chars) /\ <<NL>> \in Seq(Chars) /\ <<NL, NL>> \in Seq(Chars)
  BY <1>2
<1>4. tail \in Seq(Chars)
  BY <1>1, <1>3
<1> QED
  BY <1>1, <1>4

LEMMA ParseType ==
  ASSUME NEW l \in Lines
  PROVE  /\ Parse(l).text \in Seq(Chars)
         /\ Parse(l).type \in {"Text", "BlockBreak", "Final", "Error", "Other"}
<1>1. l.text \in Seq(Chars) /\ <<>> \in Seq(Chars) /\ l.error \in BOOLEAN
  BY DEF Lines
<1>2. /\ ParseClaude(l).text \in Seq(Chars)
      /\ ParseClaude(l).type \in {"Text", "BlockBreak", "Final", "Error", "Other"}
  <2>1. CASE l.kind = "text_delta"
    BY <1>1, <2>1 DEF ParseClaude, Event
  <2>2. CASE l.kind = "block_start"
    BY <1>1, <2>2 DEF ParseClaude, Event
  <2>3. CASE l.kind = "result"
    BY <1>1, <2>3 DEF ParseClaude, Event
  <2>4. CASE l.kind \notin {"text_delta", "block_start", "result"}
    BY <1>1, <2>4 DEF ParseClaude, Event, Other
  <2> QED
    BY <2>1, <2>2, <2>3, <2>4
<1>3. /\ ParseOpenCode(l).text \in Seq(Chars)
      /\ ParseOpenCode(l).type \in {"Text", "BlockBreak", "Final", "Error", "Other"}
  <2>1. CASE l.kind = "text"
    BY <1>1, <2>1 DEF ParseOpenCode, Event
  <2>2. CASE l.kind = "error"
    BY <1>1, <2>2 DEF ParseOpenCode, Event
  <2>3. CASE l.kind \notin {"text", "error"}
    BY <1>1, <2>3 DEF ParseOpenCode, Event, Other
  <2> QED
    BY <2>1, <2>2, <2>3
<1> QED
  BY <1>2, <1>3 DEF Parse

LEMMA RoomFacts ==
  /\ PipeRoom \in Nat /\ ChanRoom \in Nat /\ MaxLines \in Nat
  /\ 0 <= PipeRoom /\ 0 <= ChanRoom /\ 0 \in 0 .. MaxLines
BY RoomAssumption

LEMMA NextUpTo ==
  ASSUME NEW n \in Nat, NEW a \in 1 .. n, a < n
  PROVE  a + 1 \in 1 .. n
OBVIOUS

LEMMA EndRunTypes ==
  ASSUME ProcTypes, ReaderTypes,
         NEW st \in {"ok", "err"}, NEW how \in Hows \ {""}, NEW text \in Seq(Chars),
         NEW left \in BOOLEAN, EndRun(st, how, text, left)
  PROVE  ProcTypes' /\ ReaderTypes'
<1>1. ProcTypes'
  <2>1. /\ leader' = "none" /\ helper' = FALSE /\ holds' = {} /\ jammed' = FALSE
        /\ pipe' = <<>> /\ printed' = 0
        /\ strays' = IF left THEN strays \cup {how} ELSE strays
    BY DEF EndRun
  <2>2. <<>> \in Seq(Lines) /\ Len(<<>>) <= PipeRoom /\ 0 \in 0 .. MaxLines
    BY RoomFacts, Empty, Zenon
  <2>3. strays' \subseteq Hows \ {""}
    BY <2>1 DEF ProcTypes
  <2> QED
    BY <2>1, <2>2, <2>3 DEF ProcTypes
<1>2. ReaderTypes'
  <2>1. /\ late' = FALSE /\ full' = <<>> /\ final' = None /\ failed' = FALSE
        /\ streams' = streams
    BY DEF EndRun
  <2>2. <<>> \in Seq(Chars) /\ <<>> \in Seq(Lines)
    BY Empty
  <2>3. CASE st = "err" /\ attempt < Len(Flavors)
    <3>1. /\ attempt' = attempt + 1 /\ reader' = "spawning" /\ heard' = <<>>
          /\ result' = result
      BY <2>3 DEF EndRun
    <3>2. attempt + 1 \in 1 .. Len(Flavors)
      <4>1. attempt \in 1 .. Len(Flavors)
        BY DEF ReaderTypes
      <4> QED
        BY <2>3, <4>1, LineFacts, NextUpTo, Zenon
    <3> QED
      BY <2>1, <2>2, <3>1, <3>2, LineFacts DEF ReaderTypes
  <2>4. CASE ~(st = "err" /\ attempt < Len(Flavors))
    <3>1. /\ attempt' = attempt /\ reader' = "over" /\ heard' = heard
          /\ result' = [st |-> st, how |-> how, text |-> text]
      BY <2>4 DEF EndRun
    <3>2. [st |-> st, how |-> how, text |-> text] \in
            [st : {"none", "ok", "err", "dropped"}, how : Hows, text : Seq(Chars)]
      OBVIOUS
    <3> QED
      BY <2>1, <2>2, <3>1, <3>2, LineFacts DEF ReaderTypes
  <2> QED
    BY <2>3, <2>4
<1> QED
  BY <1>1, <1>2

LEMMA KilledTypes ==
  ASSUME ProcTypes, ReaderTypes, NEW how \in Hows \ {""}, Killed(how)
  PROVE  ProcTypes' /\ ReaderTypes'
<1>1. <<>> \in Seq(Chars) /\ FALSE \in BOOLEAN /\ "err" \in {"ok", "err"}
  BY Empty
<1> QED
  BY <1>1, EndRunTypes DEF Killed

(* What is left alone keeps its type.                                      *)
LEMMA ProcStay ==
  ASSUME ProcTypes, UNCHANGED procVars
  PROVE  ProcTypes'
BY DEF ProcTypes, procVars

LEMMA ReaderStay ==
  ASSUME ReaderTypes, UNCHANGED readerVars
  PROVE  ReaderTypes'
BY DEF ReaderTypes, readerVars

LEMMA ShowStay ==
  ASSUME ShowTypes, UNCHANGED <<channel, flushVars>>
  PROVE  ShowTypes'
BY DEF ShowTypes, flushVars

LEMMA RoomForLine ==
  ASSUME NEW p \in Seq(Lines), Len(p) < PipeRoom, NEW l \in Lines
  PROVE  Append(p, l) \in Seq(Lines) /\ Len(Append(p, l)) <= PipeRoom
BY RoomFacts

LEMMA NextFromZero ==
  ASSUME NEW n \in Nat, NEW a \in 0 .. n, a < n
  PROVE  a + 1 \in 0 .. n
OBVIOUS

LEMMA ProcessesType ==
  ASSUME ProcTypes, Processes
  PROVE  ProcTypes' /\ UNCHANGED <<readerVars, channel, flushVars>>
<1>1. CASE \E l \in Says(Flavors[attempt]) : Say(l)
  <2>1. PICK l \in Says(Flavors[attempt]) : Say(l)
    BY <1>1
  <2>2. l \in Lines
    BY <2>1, LineFacts
  <2>3. pipe' \in Seq(Lines) /\ Len(pipe') <= PipeRoom
    BY <2>1, <2>2, RoomForLine DEF ProcTypes, Say, CanPrint
  <2>4. printed' \in 0 .. MaxLines
    BY <2>1, RoomFacts, NextFromZero DEF ProcTypes, Say
  <2>5. UNCHANGED <<leader, helper, holds, jammed, strays>>
        /\ UNCHANGED <<readerVars, channel, flushVars>>
    BY <2>1 DEF Say
  <2> QED
    BY <2>3, <2>4, <2>5 DEF ProcTypes
<1>2. CASE Chatter
  <2>1. pipe' \in Seq(Lines) /\ Len(pipe') <= PipeRoom
    BY <1>2, LineFacts, RoomForLine DEF ProcTypes, Chatter, CanPrint
  <2>2. UNCHANGED <<leader, helper, holds, jammed, printed, strays>>
        /\ UNCHANGED <<readerVars, channel, flushVars>>
    BY <1>2 DEF Chatter
  <2> QED
    BY <2>1, <2>2 DEF ProcTypes
<1>3. CASE JamStderr
  BY <1>3 DEF ProcTypes, JamStderr
<1>4. CASE StartHelper
  BY <1>4 DEF ProcTypes, StartHelper
<1>5. CASE CloseOutput
  BY <1>5 DEF ProcTypes, CloseOutput
<1>6. CASE LeaderExits
  BY <1>6 DEF ProcTypes, LeaderExits
<1>7. CASE HelperExits
  BY <1>7 DEF ProcTypes, HelperExits
<1> QED
  BY <1>1, <1>2, <1>3, <1>4, <1>5, <1>6, <1>7 DEF Processes

LEMMA TakeTypes ==
  ASSUME ReaderTypes, NEW l \in Lines, Take(Parse(l))
  PROVE  /\ full' \in Seq(Chars) /\ failed' \in BOOLEAN
         /\ final' \in [given : BOOLEAN, text : Seq(Chars)]
         /\ reader' \in {"top", "sending"}
<1>1. PICK ev : ev = Parse(l)
  OBVIOUS
<1>2. /\ ev.text \in Seq(Chars)
      /\ ev.type \in {"Text", "BlockBreak", "Final", "Error", "Other"}
  BY <1>1, ParseType
<1>3. /\ full \in Seq(Chars) /\ final \in [given : BOOLEAN, text : Seq(Chars)]
  BY DEF ReaderTypes
<1>4. full \o ev.text \in Seq(Chars) /\ Broken(full) \in Seq(Chars)
  BY <1>2, <1>3, BrokenType
<1>5. Given(ev.text) \in [given : BOOLEAN, text : Seq(Chars)]
  BY <1>2 DEF Given
<1>6. /\ full' = CASE ev.type = "Text"       -> full \o ev.text
                   [] ev.type = "BlockBreak" -> Broken(full)
                   [] OTHER                  -> full
      /\ final' = IF ev.type = "Final" THEN Given(ev.text) ELSE final
      /\ failed' = (failed \/ ev.type = "Error")
      /\ reader' = IF ev.type = "Text" /\ streams THEN "sending" ELSE "top"
  BY <1>1 DEF Take
<1>7. full' \in Seq(Chars)
  BY <1>2, <1>3, <1>4, <1>6
<1>8. failed' \in BOOLEAN
  BY <1>6
<1> QED
  BY <1>3, <1>5, <1>6, <1>7, <1>8

LEMMA FirstAndRest ==
  ASSUME NEW S, NEW s \in Seq(S), s # <<>>, NEW n \in Nat, Len(s) <= n
  PROVE  Head(s) \in S /\ Tail(s) \in Seq(S) /\ Len(Tail(s)) <= n
OBVIOUS

LEMMA ReadTypes ==
  ASSUME ProcTypes, ReaderTypes, ReadLine
  PROVE  ProcTypes' /\ ReaderTypes'
<1>1. PICK l : l = Head(pipe)
  OBVIOUS
<1>2. l \in Lines /\ Tail(pipe) \in Seq(Lines) /\ Len(Tail(pipe)) <= PipeRoom
  <2>1. pipe \in Seq(Lines) /\ pipe # <<>> /\ Len(pipe) <= PipeRoom
    BY DEF ProcTypes, ReadLine
  <2> QED
    BY <1>1, <2>1, RoomFacts, FirstAndRest, Zenon
<1>3. CASE l = Invalid
  <2>1. Killed("read")
    BY <1>1, <1>3 DEF ReadLine
  <2> QED
    BY <2>1, KilledTypes DEF Hows
<1>4. CASE l # Invalid
  <2>1. /\ Take(Parse(l)) /\ pipe' = Tail(pipe)
        /\ heard' = IF l = Noise THEN heard ELSE Append(heard, l)
        /\ UNCHANGED <<leader, helper, holds, jammed, printed, strays>>
        /\ UNCHANGED <<streams, attempt, late, result>>
    BY <1>1, <1>4 DEF ReadLine
  <2>2. heard' \in Seq(Lines)
    BY <1>2, <2>1 DEF ReaderTypes
  <2>3. ProcTypes'
    BY <1>2, <2>1 DEF ProcTypes
  <2>4. /\ full' \in Seq(Chars) /\ failed' \in BOOLEAN
        /\ final' \in [given : BOOLEAN, text : Seq(Chars)]
        /\ reader' \in {"top", "sending"}
    BY <1>2, <2>1, TakeTypes
  <2> QED
    BY <2>1, <2>2, <2>3, <2>4 DEF ReaderTypes
<1> QED
  BY <1>3, <1>4

LEMMA OutcomeTypes ==
  ASSUME ProcTypes, ReaderTypes, Outcome
  PROVE  ProcTypes' /\ ReaderTypes'
<1>1. <<>> \in Seq(Chars) /\ final.text \in Seq(Chars) /\ full \in Seq(Chars)
      /\ helper \in BOOLEAN
  <2>1. final \in [given : BOOLEAN, text : Seq(Chars)] /\ full \in Seq(Chars)
        /\ helper \in BOOLEAN
    BY DEF ProcTypes, ReaderTypes
  <2>2. final.text \in Seq(Chars)
    BY <2>1
  <2> QED
    BY <2>1, <2>2, Empty, Zenon
<1>2. "exited" \in Hows \ {""}
  BY DEF Hows
<1>3. CASE EndRun("err", "exited", <<>>, helper)
  BY <1>1, <1>2, <1>3, EndRunTypes
<1>4. CASE EndRun("ok", "exited", final.text, helper)
  BY <1>1, <1>2, <1>4, EndRunTypes
<1>5. CASE EndRun("ok", "exited", full, helper)
  BY <1>1, <1>2, <1>5, EndRunTypes
<1>6. CASE reader' = "stderr" /\ UNCHANGED <<procVars, streams, attempt, late, full,
                                             final, failed, heard, result>>
  BY <1>6, ProcStay DEF ReaderTypes
<1> QED
  BY <1>3, <1>4, <1>5, <1>6, Zenon DEF Outcome

LEMMA ReaderType ==
  ASSUME ProcTypes, ReaderTypes, ShowTypes, Reader
  PROVE  ProcTypes' /\ ReaderTypes' /\ ShowTypes'
<1>1. CASE Spawn
  BY <1>1, ShowStay DEF Spawn, ProcTypes, ReaderTypes
<1>2. CASE SpawnFails
  <2>1. "spawn" \in Hows \ {""} /\ <<>> \in Seq(Chars) /\ FALSE \in BOOLEAN
    BY DEF Hows
  <2> QED
    BY <1>2, <2>1, EndRunTypes, ShowStay DEF SpawnFails
<1>3. CASE CeilingPasses
  BY <1>3, ProcStay, ShowStay DEF CeilingPasses, ReaderTypes, flushVars
<1>4. CASE CheckCeiling
  <2>1. CASE PastCeiling
    <3>1. Killed("ceiling") /\ "ceiling" \in Hows \ {""}
      BY <1>4, <2>1 DEF CheckCeiling, Hows
    <3> QED
      BY <1>4, <3>1, KilledTypes, ShowStay DEF CheckCeiling
  <2>2. CASE ~PastCeiling
    BY <1>4, <2>2, ProcStay, ShowStay DEF CheckCeiling, ReaderTypes
  <2> QED
    BY <2>1, <2>2
<1>5. CASE ReadLine
  BY <1>5, ReadTypes, ShowStay DEF ReadLine
<1>6. CASE IdleTimeout
  <2>1. Killed("idle") /\ "idle" \in Hows \ {""}
    BY <1>6 DEF IdleTimeout, Hows
  <2> QED
    BY <1>6, <2>1, KilledTypes, ShowStay DEF IdleTimeout
<1>7. CASE EndOfOutput
  BY <1>7, ProcStay, ShowStay DEF EndOfOutput, ReaderTypes
<1>8. CASE SendText
  <2>1. [by |-> attempt, text |-> full] \in Snapshots
    <3>1. attempt \in Nat /\ full \in Seq(Chars)
      BY LineFacts DEF ReaderTypes
    <3> QED
      BY <3>1 DEF Snapshots
  <2>2. channel' = Append(channel, [by |-> attempt, text |-> full]) /\ Len(channel) < ChanRoom
        /\ channel \in Seq(Snapshots)
    BY <1>8 DEF SendText, ShowTypes
  <2>3. channel' \in Seq(Snapshots) /\ Len(channel') <= ChanRoom
    BY <2>1, <2>2, RoomFacts
  <2>4. UNCHANGED flushVars /\ UNCHANGED procVars /\ reader' = "top"
        /\ UNCHANGED <<streams, attempt, late, full, final, failed, heard, result>>
    BY <1>8 DEF SendText
  <2>5. ShowTypes'
    BY <2>3, <2>4 DEF ShowTypes, flushVars
  <2>6. ReaderTypes'
    BY <2>4 DEF ReaderTypes
  <2> QED
    BY <2>4, <2>5, <2>6, ProcStay
<1>9. CASE Unheard
  <2>1. Killed("unheard") /\ "unheard" \in Hows \ {""}
    BY <1>9 DEF Unheard, Hows
  <2> QED
    BY <1>9, <2>1, KilledTypes, ShowStay DEF Unheard
<1>10. CASE WaitChild
  BY <1>10, OutcomeTypes, ShowStay DEF WaitChild
<1>11. CASE ReadStderr
  <2>1. "exited" \in Hows \ {""} /\ helper \in BOOLEAN /\ "err" \in {"ok", "err"}
    BY DEF Hows, ProcTypes
  <2>2. <<>> \in Seq(Chars)
    BY Empty
  <2> QED
    BY <1>11, <2>1, <2>2, EndRunTypes, ShowStay DEF ReadStderr
<1>12. CASE Drop
  <2>1. ProcTypes'
    <3>1. /\ leader' = "none" /\ helper' = FALSE /\ holds' = {} /\ jammed' = FALSE
          /\ pipe' = <<>> /\ printed' = printed
          /\ strays' = IF helper THEN strays \cup {"dropped"} ELSE strays
      BY <1>12 DEF Drop
    <3>2. <<>> \in Seq(Lines) /\ Len(<<>>) <= PipeRoom
      BY RoomFacts, Empty, Zenon
    <3>3. strays' \subseteq Hows \ {""}
      BY <3>1 DEF ProcTypes, Hows
    <3> QED
      BY <3>1, <3>2, <3>3 DEF ProcTypes
  <2>2. ReaderTypes'
    <3>1. [st |-> "dropped", how |-> "dropped", text |-> <<>>] \in
            [st : {"none", "ok", "err", "dropped"}, how : Hows, text : Seq(Chars)]
      BY DEF Hows
    <3>2. /\ reader' = "over"
          /\ result' = [st |-> "dropped", how |-> "dropped", text |-> <<>>]
          /\ UNCHANGED <<streams, attempt, late, full, final, failed, heard>>
      BY <1>12 DEF Drop
    <3> QED
      BY <3>1, <3>2 DEF ReaderTypes
  <2>3. ShowTypes'
    BY <1>12, ShowStay DEF Drop
  <2> QED
    BY <2>1, <2>2, <2>3
<1> QED
  BY <1>1, <1>2, <1>3, <1>4, <1>5, <1>6, <1>7, <1>8, <1>9, <1>10, <1>11, <1>12 DEF Reader

LEMMA FlushType ==
  ASSUME ReaderTypes, ShowTypes, FlushLoop
  PROVE  ShowTypes' /\ UNCHANGED procVars /\ UNCHANGED readerVars
<1>1. channel # <<>> => /\ Head(channel) \in Snapshots
                        /\ Tail(channel) \in Seq(Snapshots) /\ Len(Tail(channel)) <= ChanRoom
  <2>1. channel \in Seq(Snapshots) /\ Len(channel) <= ChanRoom
    BY DEF ShowTypes
  <2> QED
    BY <2>1, RoomFacts, FirstAndRest, Zenon
<1>2. CASE PassOver
  BY <1>1, <1>2 DEF PassOver, ShowTypes, flushVars
<1>3. CASE Render
  <2>1. PICK snap \in Snapshots : snap = Head(channel)
    BY <1>1, <1>3 DEF Render
  <2>2. committed' \in [at : Nat, by : Nat]
    <3>1. committed' = Advanced(snap)
      BY <1>3, <2>1 DEF Render
    <3>2. SafeEnd(snap.text) \in Nat /\ snap.by \in Nat
      BY <2>1, SafeEndIs DEF Snapshots
    <3> QED
      BY <3>1, <3>2 DEF Advanced, ShowTypes
  <2>3. <<>> \in Seq(Snapshots) /\ Len(<<>>) <= ChanRoom
    BY RoomFacts, Empty, Zenon
  <2>4. UNCHANGED <<posted, shown>> /\ UNCHANGED procVars /\ UNCHANGED readerVars
    BY <1>3 DEF Render
  <2>5. \/ flusher' = "panicked" /\ channel' = <<>> /\ acc' = acc
        \/ flusher' = "posting" /\ channel' = Tail(channel) /\ acc' = snap
    BY <1>3, <2>1 DEF Render
  <2>6. channel' \in Seq(Snapshots) /\ Len(channel') <= ChanRoom
    BY <1>1, <1>3, <2>3, <2>5 DEF Render
  <2> QED
    BY <2>1, <2>2, <2>4, <2>5, <2>6 DEF ShowTypes
<1>4. CASE Post
  BY <1>4, LineFacts DEF Post, ShowTypes, Snapshots
<1>5. CASE Finish
  BY <1>5 DEF Finish, ShowTypes, ReaderTypes
<1>6. CASE Abort
  <2>1. <<>> \in Seq(Snapshots) /\ Len(<<>>) <= ChanRoom
    BY RoomFacts, Empty, Zenon
  <2> QED
    BY <1>6, <2>1, LineFacts DEF Abort, ShowTypes
<1> QED
  BY <1>2, <1>3, <1>4, <1>5, <1>6 DEF FlushLoop

LEMMA InitTypes == Init => TypeOK
<1> SUFFICES ASSUME Init PROVE TypeOK
  OBVIOUS
<1>1. <<>> \in Seq(Chars) /\ <<>> \in Seq(Lines) /\ <<>> \in Seq(Snapshots) /\ Len(<<>>) = 0
  BY Empty
<1>2. ProcTypes
  BY <1>1, RoomFacts DEF Init, ProcTypes
<1>3. [st |-> "none", how |-> "", text |-> <<>>] \in
        [st : {"none", "ok", "err", "dropped"}, how : Hows, text : Seq(Chars)]
  BY DEF Hows
<1>4. ReaderTypes
  BY <1>1, <1>3, LineFacts DEF Init, ReaderTypes
<1>5. ShowTypes
  <2>1. channel \in Seq(Snapshots) /\ Len(channel) <= ChanRoom
    BY <1>1, RoomFacts, Zenon DEF Init
  <2>2. acc \in Snapshots /\ shown \in Seq(Chars) \cup {Sorry}
    BY <1>1, LineFacts, Zenon DEF Init
  <2>3. /\ flusher \in {"receiving", "gone"} /\ posted \in BOOLEAN
        /\ committed \in [at : Nat, by : Nat]
    BY DEF Init
  <2> QED
    BY <2>1, <2>2, <2>3 DEF ShowTypes
<1> QED
  BY <1>2, <1>4, <1>5, TypesOf

LEMMA StepTypes ==
  ASSUME TypeOK, [Next]_vars
  PROVE  TypeOK'
<1>1. ProcTypes /\ ReaderTypes /\ ShowTypes
  BY TypesOf
<1>2. CASE Processes
  BY <1>1, <1>2, ProcessesType, ReaderStay, ShowStay, TypesOfNext
<1>3. CASE Reader
  BY <1>1, <1>3, ReaderType, TypesOfNext
<1>4. CASE FlushLoop
  BY <1>1, <1>4, FlushType, ProcStay, ReaderStay, TypesOfNext
<1>5. CASE Rest \/ UNCHANGED vars
  <2>1. UNCHANGED procVars /\ UNCHANGED readerVars /\ UNCHANGED <<channel, flushVars>>
    BY <1>5 DEF Rest, vars
  <2> QED
    BY <1>1, <2>1, ProcStay, ReaderStay, ShowStay, TypesOfNext
<1> QED
  BY <1>2, <1>3, <1>4, <1>5 DEF Next

(* Every variable keeps its type: the pipe and the channel never hold more *)
(* than they can, and the run is always one of a backend of the chain.     *)
THEOREM CliRunTyped == Spec => []TypeOK
BY InitTypes, StepTypes, PTL DEF Spec

-----------------------------------------------------------------------------
(* Only a CLI that exited by itself and a call that was dropped leave a    *)
(* process behind: every other end of a run kills the group.               *)

LEMMA EndRunStrays ==
  ASSUME CutShortMeansGone, NEW st, NEW how, NEW text, NEW left,
         EndRun(st, how, text, left), left => how = "exited"
  PROVE  CutShortMeansGone'
BY DEF EndRun, CutShortMeansGone

LEMMA KilledStrays ==
  ASSUME CutShortMeansGone, NEW how, Killed(how)
  PROVE  CutShortMeansGone'
BY EndRunStrays DEF Killed

LEMMA OutcomeStrays ==
  ASSUME CutShortMeansGone, Outcome
  PROVE  CutShortMeansGone'
<1>1. CASE UNCHANGED procVars
  BY <1>1 DEF CutShortMeansGone, procVars
<1>2. CASE \E st, text : EndRun(st, "exited", text, helper)
  BY <1>2, EndRunStrays
<1> QED
  BY <1>1, <1>2, Zenon DEF Outcome, procVars

LEMMA StepStrays ==
  ASSUME CutShortMeansGone, [Next]_vars
  PROVE  CutShortMeansGone'
<1>1. CASE Processes
  <2>1. strays' = strays
    BY <1>1 DEF Processes, Say, Chatter, JamStderr, StartHelper, CloseOutput,
                LeaderExits, HelperExits
  <2> QED
    BY <2>1 DEF CutShortMeansGone
<1>2. CASE Spawn \/ CeilingPasses \/ EndOfOutput \/ SendText
  <2>1. strays' = strays
    BY <1>2 DEF Spawn, CeilingPasses, EndOfOutput, SendText, procVars
  <2> QED
    BY <2>1 DEF CutShortMeansGone
<1>3. CASE SpawnFails
  BY <1>3, EndRunStrays DEF SpawnFails
<1>4. CASE CheckCeiling
  <2>1. CASE Killed("ceiling")
    BY <2>1, KilledStrays
  <2>2. CASE UNCHANGED procVars
    BY <2>2 DEF CutShortMeansGone, procVars
  <2> QED
    BY <1>4, <2>1, <2>2 DEF CheckCeiling, procVars
<1>5. CASE ReadLine
  <2>1. CASE Killed("read")
    BY <2>1, KilledStrays
  <2>2. CASE strays' = strays
    BY <2>2 DEF CutShortMeansGone
  <2> QED
    BY <1>5, <2>1, <2>2 DEF ReadLine
<1>6. CASE IdleTimeout
  BY <1>6, KilledStrays DEF IdleTimeout
<1>7. CASE Unheard
  BY <1>7, KilledStrays DEF Unheard
<1>8. CASE WaitChild
  BY <1>8, OutcomeStrays DEF WaitChild
<1>9. CASE ReadStderr
  BY <1>9, EndRunStrays DEF ReadStderr
<1>10. CASE Drop
  BY <1>10 DEF Drop, CutShortMeansGone
<1>11. CASE FlushLoop \/ Rest \/ UNCHANGED vars
  <2>1. UNCHANGED procVars
    BY <1>11 DEF FlushLoop, PassOver, Render, Post, Finish, Abort, Rest, vars
  <2> QED
    BY <2>1 DEF CutShortMeansGone, procVars
<1> QED
  BY <1>1, <1>2, <1>3, <1>4, <1>5, <1>6, <1>7, <1>8, <1>9, <1>10, <1>11
     DEF Next, Reader

(* A run cut short by a timer, a line that could not be read or a receiver *)
(* that went away leaves no process behind (kill_process_group at every    *)
(* early return of execute_in).                                            *)
THEOREM NothingOutlivesAKill == Spec => []CutShortMeansGone
<1>1. Init => CutShortMeansGone
  BY DEF Init, CutShortMeansGone
<1> QED
  BY <1>1, StepStrays, PTL DEF Spec

-----------------------------------------------------------------------------
(* What is rendered for good. The snapshots sent, in their order and then  *)
(* the text being read, are each older than the next: of an earlier        *)
(* backend, or the beginning of the same text. So an offset that is        *)
(* settled in one is settled in those that follow.                         *)

Older(c, d) == c.by <= d.by /\ (c.by = d.by => Extends(c.text, d.text))

Kept(done, c) ==
  \/ done.at = 0
  \/ /\ done.by <= c.by
     /\ done.by = c.by => Settled(c.text, done.at)

Latest == [by |-> attempt, text |-> full]

InOrder == \A i, j \in DOMAIN channel : i <= j => Older(channel[i], channel[j])

Coming ==
  \A i \in DOMAIN channel :
    /\ channel[i].by <= attempt
    /\ reader # "over" => Older(channel[i], Latest)
    /\ Kept(committed, channel[i])

Rendered ==
  /\ committed.by <= attempt
  /\ reader # "over" => Kept(committed, Latest)
  /\ flusher = "posting" => Kept(committed, acc)
  /\ flusher = "panicked" => committed.by < attempt

TextInv == InOrder /\ Coming /\ Rendered

LEMMA OlderFacts ==
  ASSUME NEW c \in Snapshots, NEW d \in Snapshots, NEW e \in Snapshots
  PROVE  /\ Older(c, c)
         /\ Older(c, d) /\ Older(d, e) => Older(c, e)
<1>1. c.by \in Nat /\ d.by \in Nat /\ e.by \in Nat
      /\ c.text \in Seq(Chars) /\ d.text \in Seq(Chars) /\ e.text \in Seq(Chars)
  BY DEF Snapshots
<1>2. Older(c, c)
  BY <1>1, ExtendsFacts DEF Older
<1>3. ASSUME Older(c, d), Older(d, e) PROVE Older(c, e)
  <2>1. c.by <= d.by /\ d.by <= e.by
    BY <1>3 DEF Older
  <2>2. c.by <= e.by /\ (c.by = e.by => c.by = d.by /\ d.by = e.by)
    BY <1>1, <2>1
  <2>3. ASSUME c.by = e.by PROVE Extends(c.text, e.text)
    <3>1. Extends(c.text, d.text) /\ Extends(d.text, e.text)
      BY <1>3, <2>2, <2>3 DEF Older
    <3> QED
      BY <1>1, <3>1, ExtendsFacts
  <2> QED
    BY <2>2, <2>3 DEF Older
<1> QED
  BY <1>2, <1>3

LEMMA KeptStays ==
  ASSUME NEW done \in [at : Nat, by : Nat], NEW c \in Snapshots, NEW d \in Snapshots,
         Kept(done, c), Older(c, d)
  PROVE  Kept(done, d)
<1>1. c.by \in Nat /\ d.by \in Nat /\ done.by \in Nat
      /\ c.text \in Seq(Chars) /\ d.text \in Seq(Chars)
  BY DEF Snapshots
<1>2. CASE done.at = 0
  BY <1>2 DEF Kept
<1>3. CASE done.at # 0
  <2>1. done.by <= c.by /\ (done.by = c.by => Settled(c.text, done.at)) /\ c.by <= d.by
    BY <1>3 DEF Kept, Older
  <2>2. done.by <= d.by /\ (done.by = d.by => done.by = c.by /\ c.by = d.by)
    BY <1>1, <2>1
  <2>3. ASSUME done.by = d.by PROVE Settled(d.text, done.at)
    <3>1. Settled(c.text, done.at) /\ Extends(c.text, d.text)
      BY <2>1, <2>2, <2>3 DEF Older
    <3> QED
      BY <1>1, <3>1, SettledStays
  <2> QED
    BY <2>2, <2>3 DEF Kept
<1> QED
  BY <1>2, <1>3

LEMMA LatestType == TypeOK => Latest \in Snapshots
<1> SUFFICES ASSUME TypeOK PROVE Latest \in Snapshots
  OBVIOUS
<1>1. attempt \in Nat /\ full \in Seq(Chars)
  BY LineFacts, TypesOf DEF ReaderTypes
<1> QED
  BY <1>1 DEF Latest, Snapshots

LEMMA LatestTypeNext == TypeOK' => Latest' \in Snapshots
<1>1. (TypeOK => Latest \in Snapshots)'
  BY LatestType, PTL
<1> QED
  BY <1>1

LEMMA ChannelTypes ==
  TypeOK => /\ channel \in Seq(Snapshots) /\ committed \in [at : Nat, by : Nat]
            /\ \A i \in DOMAIN channel : channel[i] \in Snapshots
            /\ attempt \in Nat /\ committed.by \in Nat /\ acc \in Snapshots
<1> SUFFICES ASSUME TypeOK
             PROVE  /\ channel \in Seq(Snapshots) /\ committed \in [at : Nat, by : Nat]
                    /\ \A i \in DOMAIN channel : channel[i] \in Snapshots
                    /\ attempt \in Nat /\ committed.by \in Nat /\ acc \in Snapshots
  OBVIOUS
<1>1. channel \in Seq(Snapshots) /\ committed \in [at : Nat, by : Nat] /\ acc \in Snapshots
  BY TypesOf DEF ShowTypes
<1>2. \A i \in DOMAIN channel : channel[i] \in Snapshots
  BY <1>1
<1>3. attempt \in Nat
  BY LineFacts, TypesOf DEF ReaderTypes
<1> QED
  BY <1>1, <1>2, <1>3

(* A step of a process or of the reader that sends nothing.                *)
LEMMA TextGrows ==
  ASSUME TypeOK, TypeOK', TextInv, UNCHANGED <<channel, flushVars>>, attempt <= attempt',
         reader' # "over" =>
           reader # "over" /\ (attempt' = attempt => Extends(full, full'))
  PROVE  TextInv'
<1>1. attempt \in Nat /\ attempt' \in Nat /\ committed.by \in Nat
      /\ committed \in [at : Nat, by : Nat]
      /\ \A i \in DOMAIN channel : channel[i] \in Snapshots
  <2>1. (attempt \in Nat)'
    BY ChannelTypes, PTL
  <2> QED
    BY <2>1, ChannelTypes
<1>2. channel' = channel /\ committed' = committed /\ flusher' = flusher /\ acc' = acc
  BY DEF flushVars
<1>3. Latest \in Snapshots /\ Latest' \in Snapshots
  BY LatestType, LatestTypeNext
<1>4. reader' # "over" => Older(Latest, Latest')
  BY DEF Older, Latest
<1>5. InOrder'
  BY <1>2 DEF TextInv, InOrder
<1>6. Coming'
  <2> SUFFICES ASSUME NEW i \in DOMAIN channel
               PROVE  /\ channel[i].by <= attempt'
                      /\ reader' # "over" => Older(channel[i], Latest')
                      /\ Kept(committed, channel[i])
    BY <1>2 DEF Coming
  <2>1. /\ channel[i].by <= attempt /\ Kept(committed, channel[i])
        /\ reader # "over" => Older(channel[i], Latest)
    BY DEF TextInv, Coming
  <2>2. channel[i] \in Snapshots /\ channel[i].by \in Nat
    BY <1>1 DEF Snapshots
  <2>3. channel[i].by <= attempt'
    BY <1>1, <2>1, <2>2
  <2>4. reader' # "over" => Older(channel[i], Latest')
    BY <1>3, <1>4, <2>1, <2>2, OlderFacts
  <2> QED
    BY <2>1, <2>3, <2>4
<1>7. Rendered'
  <2>1. /\ committed.by <= attempt
        /\ reader # "over" => Kept(committed, Latest)
        /\ flusher = "posting" => Kept(committed, acc)
        /\ flusher = "panicked" => committed.by < attempt
    BY DEF TextInv, Rendered
  <2>2. reader' # "over" => Kept(committed, Latest')
    BY <1>1, <1>3, <1>4, <2>1, KeptStays
  <2>3. committed.by <= attempt' /\ (flusher = "panicked" => committed.by < attempt')
    BY <1>1, <2>1
  <2> QED
    BY <1>2, <2>1, <2>2, <2>3 DEF Rendered
<1> QED
  BY <1>5, <1>6, <1>7 DEF TextInv

(* The end of a run begins the text anew, for another backend.             *)
LEMMA EndRunText ==
  ASSUME TypeOK, NEW st, NEW how, NEW text, NEW left, EndRun(st, how, text, left),
         reader # "over"
  PROVE  /\ attempt <= attempt'
         /\ reader' # "over" =>
              reader # "over" /\ (attempt' = attempt => Extends(full, full'))
<1>1. attempt \in Nat
  BY ChannelTypes
<1>2. CASE st = "err" /\ attempt < Len(Flavors)
  <2>1. attempt' = attempt + 1
    BY <1>2 DEF EndRun
  <2> QED
    BY <1>1, <2>1
<1>3. CASE ~(st = "err" /\ attempt < Len(Flavors))
  <2>1. attempt' = attempt /\ reader' = "over"
    BY <1>3 DEF EndRun
  <2> QED
    BY <1>1, <2>1
<1> QED
  BY <1>2, <1>3

LEMMA TakeText ==
  ASSUME TypeOK, NEW l \in Lines, Take(Parse(l))
  PROVE  full' \in Seq(Chars) /\ Extends(full, full')
<1>1. full \in Seq(Chars)
  BY TypesOf DEF ReaderTypes
<1>2. PICK ev : ev = Parse(l)
  OBVIOUS
<1>3. ev.text \in Seq(Chars)
  BY <1>2, ParseType
<1>4. full' = CASE ev.type = "Text"       -> full \o ev.text
                [] ev.type = "BlockBreak" -> Broken(full)
                [] OTHER                  -> full
  BY <1>2 DEF Take
<1>5. CASE ev.type = "Text"
  <2>1. full' = full \o ev.text
    BY <1>4, <1>5
  <2> QED
    BY <1>1, <1>3, <2>1, ExtendsFacts
<1>6. CASE ev.type = "BlockBreak"
  <2>1. full' = Broken(full)
    BY <1>4, <1>6
  <2>2. PICK tail \in {<<>>, <<NL>>, <<NL, NL>>} : Broken(full) = full \o tail
    BY <1>1, BrokenIs
  <2>3. tail \in Seq(Chars)
    <3>1. NL \in Chars
      BY DEF NL, Chars
    <3>2. <<>> \in Seq(Chars) /\ <<NL>> \in Seq(Chars) /\ <<NL, NL>> \in Seq(Chars)
      BY <3>1
    <3> QED
      BY <2>2, <3>2
  <2> QED
    BY <1>1, <2>1, <2>2, <2>3, ExtendsFacts
<1>7. CASE ev.type \notin {"Text", "BlockBreak"}
  <2>1. full' = full
    BY <1>4, <1>7
  <2> QED
    BY <1>1, <2>1, ExtendsFacts
<1> QED
  BY <1>5, <1>6, <1>7

(* Every step of the reader but SendText.                                  *)
LEMMA ReaderText ==
  ASSUME TypeOK, TypeOK', TextInv, Reader, ~SendText
  PROVE  TextInv'
<1> DEFINE Grows == /\ attempt <= attempt'
                    /\ reader' # "over" =>
                         reader # "over" /\ (attempt' = attempt => Extends(full, full'))
<1>1. attempt \in Nat /\ full \in Seq(Chars)
  BY ChannelTypes, TypesOf DEF ReaderTypes
<1>2. ASSUME attempt' = attempt, full' = full, reader # "over" PROVE Grows
  BY <1>1, <1>2, ExtendsFacts
<1>3. ASSUME NEW how, Killed(how), reader # "over" PROVE Grows
  BY <1>3, EndRunText DEF Killed
<1> HIDE DEF Grows
<1>4. CASE Spawn \/ CeilingPasses \/ EndOfOutput
  <2>1. attempt' = attempt /\ full' = full /\ reader # "over"
        /\ UNCHANGED <<channel, flushVars>>
    BY <1>4 DEF Spawn, CeilingPasses, EndOfOutput
  <2> QED
    BY <1>2, <2>1, TextGrows DEF Grows
<1>5. CASE SpawnFails
  BY <1>5, EndRunText, TextGrows DEF SpawnFails
<1>6. CASE CheckCeiling
  <2>1. reader # "over" /\ UNCHANGED <<channel, flushVars>>
    BY <1>6 DEF CheckCeiling
  <2>2. CASE Killed("ceiling")
    BY <1>3, <2>1, <2>2, TextGrows DEF Grows
  <2>3. CASE attempt' = attempt /\ full' = full
    BY <1>2, <2>1, <2>3, TextGrows DEF Grows
  <2> QED
    BY <1>6, <2>2, <2>3 DEF CheckCeiling
<1>7. CASE ReadLine
  <2>1. reader # "over" /\ UNCHANGED <<channel, flushVars>>
    BY <1>7 DEF ReadLine
  <2>2. CASE Killed("read")
    BY <1>3, <2>1, <2>2, TextGrows DEF Grows
  <2>3. CASE Take(Parse(Head(pipe))) /\ attempt' = attempt
    <3>1. Head(pipe) \in Lines
      <4>1. pipe \in Seq(Lines) /\ pipe # <<>>
        BY <1>7, TypesOf DEF ReadLine, ProcTypes
      <4> QED
        BY <4>1
    <3>2. Extends(full, full')
      BY <2>3, <3>1, TakeText
    <3> QED
      BY <1>1, <2>1, <2>3, <3>2, TextGrows
  <2> QED
    BY <1>7, <2>2, <2>3 DEF ReadLine
<1>8. CASE IdleTimeout
  BY <1>3, <1>8, TextGrows DEF Grows, IdleTimeout
<1>9. CASE Unheard
  BY <1>3, <1>9, TextGrows DEF Grows, Unheard
<1>10. CASE WaitChild
  <2>1. reader # "over" /\ UNCHANGED <<channel, flushVars>>
    BY <1>10 DEF WaitChild
  <2>2. CASE \E st, text : EndRun(st, "exited", text, helper)
    BY <2>1, <2>2, EndRunText, TextGrows
  <2>3. CASE attempt' = attempt /\ full' = full
    BY <1>2, <2>1, <2>3, TextGrows DEF Grows
  <2> QED
    BY <1>10, <2>2, <2>3, Zenon DEF WaitChild, Outcome
<1>11. CASE ReadStderr
  BY <1>11, EndRunText, TextGrows DEF ReadStderr
<1>12. CASE Drop
  <2>1. attempt' = attempt /\ full' = full /\ reader # "over"
        /\ UNCHANGED <<channel, flushVars>>
    BY <1>12 DEF Drop
  <2> QED
    BY <1>2, <2>1, TextGrows DEF Grows
<1> QED
  BY <1>4, <1>5, <1>6, <1>7, <1>8, <1>9, <1>10, <1>11, <1>12 DEF Reader

LEMMA SendTextKeeps ==
  ASSUME TypeOK, TypeOK', TextInv, SendText
  PROVE  TextInv'
<1>1. channel' = Append(channel, Latest) /\ reader # "over" /\ reader' = "top"
      /\ Latest' = Latest /\ attempt' = attempt
      /\ committed' = committed /\ flusher' = flusher /\ acc' = acc
  BY DEF SendText, Latest, flushVars
<1>2. Latest \in Snapshots /\ channel \in Seq(Snapshots) /\ attempt \in Nat
      /\ \A i \in DOMAIN channel : channel[i] \in Snapshots
  BY LatestType, ChannelTypes
<1>3. PICK n \in Nat : n = Len(channel)
  BY <1>2
<1>4. /\ DOMAIN channel = 1 .. n /\ DOMAIN channel' = 1 .. (n + 1)
      /\ \A i \in 1 .. n : channel'[i] = channel[i]
      /\ channel'[n + 1] = Latest
  BY <1>1, <1>2, <1>3
<1>5. \A i \in 1 .. (n + 1) : i \in 1 .. n \/ i = n + 1
  BY <1>3
<1>6. \A i \in 1 .. n : /\ channel[i].by <= attempt
                        /\ Older(channel[i], Latest) /\ Kept(committed, channel[i])
  BY <1>1, <1>4 DEF TextInv, Coming
<1>7. Older(Latest, Latest) /\ Latest.by = attempt /\ Kept(committed, Latest)
  BY <1>1, <1>2, OlderFacts DEF TextInv, Rendered, Latest
<1>8. InOrder'
  <2> SUFFICES ASSUME NEW i \in 1 .. (n + 1), NEW j \in 1 .. (n + 1), i <= j
               PROVE  Older(channel'[i], channel'[j])
    BY <1>4 DEF InOrder
  <2>1. CASE i \in 1 .. n /\ j \in 1 .. n
    BY <1>4, <2>1 DEF TextInv, InOrder
  <2>2. CASE i \in 1 .. n /\ j = n + 1
    BY <1>4, <1>6, <2>2
  <2>3. CASE i = n + 1
    <3>1. j = n + 1
      BY <1>3, <2>3
    <3> QED
      BY <1>4, <1>7, <2>3, <3>1
  <2> QED
    BY <1>5, <2>1, <2>2, <2>3
<1>9. Coming'
  <2> SUFFICES ASSUME NEW i \in 1 .. (n + 1)
               PROVE  /\ channel'[i].by <= attempt /\ Older(channel'[i], Latest)
                      /\ Kept(committed, channel'[i])
    BY <1>1, <1>4 DEF Coming
  <2>1. attempt <= attempt
    BY <1>2
  <2> QED
    BY <1>4, <1>5, <1>6, <1>7, <2>1
<1>10. Rendered'
  BY <1>1 DEF TextInv, Rendered
<1> QED
  BY <1>8, <1>9, <1>10 DEF TextInv

(* The loop takes a snapshot off the channel: the others keep their order. *)
LEMMA TailFacts ==
  ASSUME NEW s \in Seq(Snapshots), s # <<>>
  PROVE  /\ Tail(s) \in Seq(Snapshots)
         /\ \A i \in DOMAIN Tail(s) : i + 1 \in DOMAIN s /\ Tail(s)[i] = s[i + 1]
         /\ 1 \in DOMAIN s /\ Head(s) = s[1] /\ \A i \in DOMAIN s : 1 <= i
         /\ \A i, j \in DOMAIN Tail(s) : i <= j => i + 1 <= j + 1
OBVIOUS

LEMMA TakenFacts ==
  ASSUME TypeOK, TextInv, channel # <<>>, channel' = Tail(channel), UNCHANGED readerVars
  PROVE  /\ InOrder'
         /\ \A i \in DOMAIN channel' :
              /\ channel'[i] \in Snapshots
              /\ channel'[i].by <= attempt
              /\ reader # "over" => Older(channel'[i], Latest)
              /\ Kept(committed, channel'[i])
              /\ Older(Head(channel), channel'[i])
         /\ Head(channel) \in Snapshots
         /\ Head(channel).by <= attempt
         /\ reader # "over" => Older(Head(channel), Latest)
         /\ Kept(committed, Head(channel))
<1>1. channel \in Seq(Snapshots) /\ \A i \in DOMAIN channel : channel[i] \in Snapshots
  BY ChannelTypes
<1>2. /\ \A i \in DOMAIN channel' : i + 1 \in DOMAIN channel /\ channel'[i] = channel[i + 1]
      /\ 1 \in DOMAIN channel /\ Head(channel) = channel[1]
      /\ \A i \in DOMAIN channel : 1 <= i
      /\ \A i, j \in DOMAIN channel' : i <= j => i + 1 <= j + 1
  BY <1>1, TailFacts
<1>3. \A i, j \in DOMAIN channel : i <= j => Older(channel[i], channel[j])
  BY DEF TextInv, InOrder
<1>4. \A i \in DOMAIN channel :
        /\ channel[i].by <= attempt
        /\ reader # "over" => Older(channel[i], Latest)
        /\ Kept(committed, channel[i])
  BY DEF TextInv, Coming
<1>5. InOrder'
  BY <1>2, <1>3, Zenon DEF InOrder
<1>6. ASSUME NEW i \in DOMAIN channel'
      PROVE  /\ channel'[i] \in Snapshots
             /\ channel'[i].by <= attempt
             /\ reader # "over" => Older(channel'[i], Latest)
             /\ Kept(committed, channel'[i])
             /\ Older(Head(channel), channel'[i])
  <2>1. i + 1 \in DOMAIN channel /\ channel'[i] = channel[i + 1]
    BY <1>2
  <2>2. Older(channel[1], channel[i + 1])
    BY <1>2, <1>3, <2>1, Zenon
  <2> QED
    BY <1>1, <1>2, <1>4, <2>1, <2>2, Zenon
<1>7. /\ Head(channel) \in Snapshots
      /\ Head(channel).by <= attempt
      /\ reader # "over" => Older(Head(channel), Latest)
      /\ Kept(committed, Head(channel))
  BY <1>1, <1>2, <1>4, Zenon
<1> QED
  BY <1>5, <1>6, <1>7

LEMMA PassOverKeeps ==
  ASSUME TypeOK, TextInv, PassOver
  PROVE  TextInv'
<1>1. /\ channel # <<>> /\ channel' = Tail(channel) /\ UNCHANGED readerVars
      /\ attempt' = attempt /\ reader' = reader /\ full' = full
      /\ committed' = committed /\ flusher' = flusher /\ acc' = acc
  BY DEF PassOver, readerVars, flushVars
<1>2. Latest' = Latest
  BY <1>1 DEF Latest
<1>3. Coming'
  BY <1>1, <1>2, TakenFacts, Zenon DEF Coming
<1>4. Rendered'
  BY <1>1, <1>2 DEF TextInv, Rendered
<1> QED
  BY <1>1, <1>3, <1>4, TakenFacts DEF TextInv

(* Rendering: the end of the last whole paragraph, if it is further on, is *)
(* settled in this snapshot. Otherwise the offset stays, and it is within  *)
(* the snapshot unless it is of an earlier backend.                        *)
LEMMA AdvancedKept ==
  ASSUME TypeOK, NEW snap \in Snapshots, Kept(committed, snap), snap.by <= attempt
  PROVE  /\ Advanced(snap) \in [at : Nat, by : Nat]
         /\ Kept(Advanced(snap), snap)
         /\ Advanced(snap).by = snap.by \/ Advanced(snap) = committed
         /\ Advanced(snap).at > Len(snap.text) => Advanced(snap).by < snap.by
<1>1. snap.by \in Nat /\ snap.text \in Seq(Chars) /\ Len(snap.text) \in Nat
  BY DEF Snapshots
<1>2. committed \in [at : Nat, by : Nat] /\ committed.by \in Nat /\ committed.at \in Nat
  BY ChannelTypes
<1>3. PICK end \in Nat : end = SafeEnd(snap.text) /\ (end = 0 \/ Settled(snap.text, end))
  BY <1>1, SafeEndIs
<1>4. CASE end > committed.at
  <2>1. Advanced(snap) = [at |-> end, by |-> snap.by]
    BY <1>3, <1>4 DEF Advanced
  <2>2. Settled(snap.text, end)
    BY <1>2, <1>3, <1>4
  <2>3. end <= Len(snap.text)
    BY <2>2, <1>1 DEF Settled
  <2>4. Kept([at |-> end, by |-> snap.by], snap)
    BY <1>1, <2>2 DEF Kept
  <2> QED
    BY <1>1, <1>3, <2>1, <2>3, <2>4
<1>5. CASE ~(end > committed.at)
  <2>1. Advanced(snap) = committed
    BY <1>3, <1>5 DEF Advanced
  <2>2. ASSUME committed.at > Len(snap.text) PROVE committed.by < snap.by
    <3>1. committed.at # 0
      BY <1>1, <1>2, <2>2
    <3>2. committed.by <= snap.by /\ (committed.by = snap.by => Settled(snap.text, committed.at))
      BY <3>1 DEF Kept
    <3>3. ~Settled(snap.text, committed.at)
      BY <1>1, <1>2, <2>2 DEF Settled
    <3> QED
      BY <1>1, <1>2, <3>2, <3>3
  <2> QED
    BY <1>2, <2>1, <2>2
<1> QED
  BY <1>4, <1>5

LEMMA RenderKeeps ==
  ASSUME TypeOK, TextInv, Render
  PROVE  TextInv'
<1>1. PICK snap : snap = Head(channel)
  OBVIOUS
<1>2. PICK done : done = Advanced(snap)
  OBVIOUS
<1>3. /\ channel # <<>> /\ committed' = done /\ UNCHANGED readerVars
      /\ IF done.at > Len(snap.text)
           THEN flusher' = "panicked" /\ channel' = <<>> /\ acc' = acc
           ELSE flusher' = "posting" /\ channel' = Tail(channel) /\ acc' = snap
  BY <1>1, <1>2 DEF Render
<1>4. attempt' = attempt /\ reader' = reader /\ full' = full /\ Latest' = Latest
  BY <1>3 DEF readerVars, Latest
<1>5. channel \in Seq(Snapshots) /\ (\A i \in DOMAIN channel : channel[i] \in Snapshots)
      /\ attempt \in Nat /\ committed.by \in Nat /\ Latest \in Snapshots
  BY ChannelTypes, LatestType
<1>6. 1 \in DOMAIN channel /\ snap = channel[1]
  BY <1>1, <1>3, <1>5, TailFacts
<1>7. /\ snap \in Snapshots /\ snap.by <= attempt /\ Kept(committed, snap)
      /\ reader # "over" => Older(snap, Latest)
  BY <1>5, <1>6, Zenon DEF TextInv, Coming
<1>8. /\ done \in [at : Nat, by : Nat] /\ Kept(done, snap)
      /\ done.by = snap.by \/ done = committed
      /\ done.at > Len(snap.text) => done.by < snap.by
  BY <1>2, <1>7, AdvancedKept
<1>9. snap.by \in Nat /\ done.by \in Nat /\ done.at \in Nat /\ snap.text \in Seq(Chars)
  BY <1>7, <1>8 DEF Snapshots
<1>10. done.by <= attempt
  BY <1>5, <1>7, <1>8, <1>9 DEF TextInv, Rendered
<1>11. reader # "over" => Kept(done, Latest)
  BY <1>5, <1>7, <1>8, KeptStays
<1>12. CASE done.at > Len(snap.text)
  <2>1. flusher' = "panicked" /\ channel' = <<>> /\ done.by < attempt
    BY <1>3, <1>5, <1>7, <1>8, <1>9, <1>12
  <2>2. DOMAIN channel' = {}
    BY <2>1
  <2>3. InOrder' /\ Coming'
    BY <2>2, Zenon DEF InOrder, Coming
  <2>4. Rendered'
    BY <1>3, <1>4, <1>10, <1>11, <2>1 DEF Rendered
  <2> QED
    BY <2>3, <2>4 DEF TextInv
<1>13. CASE ~(done.at > Len(snap.text))
  <2>1. flusher' = "posting" /\ channel' = Tail(channel) /\ acc' = snap
    BY <1>3, <1>13
  <2>2. /\ InOrder'
        /\ \A i \in DOMAIN channel' :
             /\ channel'[i] \in Snapshots
             /\ channel'[i].by <= attempt
             /\ reader # "over" => Older(channel'[i], Latest)
             /\ Older(snap, channel'[i])
    BY <1>1, <1>3, <2>1, TakenFacts, Zenon
  <2>3. \A i \in DOMAIN channel' : Kept(done, channel'[i])
    BY <1>7, <1>8, <2>2, KeptStays, Zenon
  <2>4. Coming'
    BY <1>3, <1>4, <2>2, <2>3, Zenon DEF Coming
  <2>5. Rendered'
    BY <1>3, <1>4, <1>8, <1>10, <1>11, <2>1 DEF Rendered
  <2> QED
    BY <2>2, <2>4, <2>5 DEF TextInv
<1> QED
  BY <1>12, <1>13

LEMMA StepText ==
  ASSUME TypeOK, TypeOK', TextInv, [Next]_vars
  PROVE  TextInv'
<1>1. attempt \in Nat /\ full \in Seq(Chars)
  BY ChannelTypes, TypesOf DEF ReaderTypes
<1>2. CASE Processes \/ Rest \/ UNCHANGED vars
  <2>1. UNCHANGED <<readerVars, channel, flushVars>>
    BY <1>2, TypesOf, ProcessesType DEF Rest, vars
  <2>2. attempt' = attempt /\ reader' = reader /\ full' = full
    BY <2>1 DEF readerVars
  <2>3. attempt <= attempt' /\ Extends(full, full')
    BY <1>1, <2>2, ExtendsFacts
  <2>4. UNCHANGED <<channel, flushVars>>
    BY <2>1
  <2>5. CASE reader # "over"
    BY <2>2, <2>3, <2>4, <2>5, TextGrows
  <2>6. CASE reader = "over"
    BY <2>2, <2>3, <2>4, <2>6, TextGrows
  <2> QED
    BY <2>5, <2>6
<1>3. CASE Reader
  BY <1>3, ReaderText, SendTextKeeps
<1>4. CASE PassOver
  BY <1>4, PassOverKeeps
<1>5. CASE Render
  BY <1>5, RenderKeeps
<1>6. CASE Post \/ Finish \/ Abort
  <2>1. /\ UNCHANGED readerVars /\ committed' = committed
        /\ channel' = channel \/ channel' = <<>>
        /\ flusher' \in {"receiving", "done", "gone"}
    BY <1>6 DEF Post, Finish, Abort
  <2>2. attempt' = attempt /\ reader' = reader /\ Latest' = Latest
    BY <2>1 DEF readerVars, Latest
  <2>3. InOrder' /\ Coming'
    <3>1. CASE channel' = channel
      BY <2>1, <2>2, <3>1 DEF TextInv, InOrder, Coming
    <3>2. CASE channel' = <<>>
      <4>1. DOMAIN channel' = {}
        BY <3>2
      <4> QED
        BY <4>1, Zenon DEF InOrder, Coming
    <3> QED
      BY <2>1, <3>1, <3>2
  <2>4. Rendered'
    BY <2>1, <2>2 DEF TextInv, Rendered
  <2> QED
    BY <2>3, <2>4 DEF TextInv
<1> QED
  BY <1>2, <1>3, <1>4, <1>5, <1>6 DEF Next, FlushLoop

LEMMA PairOf ==
  ASSUME NEW t \in Seq(Chars), NEW n \in 2 .. Len(t)
  PROVE  SubSeq(t, n - 1, n) = <<t[n - 1], t[n]>>
<1>1. PICK u : u = SubSeq(t, n - 1, n)
  OBVIOUS
<1>2. n - 1 \in 1 .. Len(t) /\ n \in 1 .. Len(t)
  OBVIOUS
<1>3. Len(u) = 2 /\ u \in Seq(Chars) /\ u[1] = t[n - 1] /\ u[2] = t[n]
  BY <1>1, <1>2
<1>4. u = <<u[1], u[2]>>
  BY <1>3
<1> QED
  BY <1>1, <1>3, <1>4

LEMMA SettledWhenShown ==
  ASSUME TypeOK, TextInv
  PROVE  CommittedIsSettled
<1>1. acc.text \in Seq(Chars)
  BY ChannelTypes DEF Snapshots
<1>2. ASSUME flusher = "posting", committed.by = acc.by, committed.at # 0
      PROVE  /\ committed.at \in 2 .. Len(acc.text)
             /\ SubSeq(acc.text, committed.at - 1, committed.at) = <<NL, NL>>
             /\ FencesBefore(acc.text, committed.at) % 2 = 0
  <2>1. Settled(acc.text, committed.at)
    BY <1>2 DEF TextInv, Rendered, Kept
  <2>2. /\ committed.at \in 2 .. Len(acc.text)
        /\ acc.text[committed.at - 1] = NL /\ acc.text[committed.at] = NL
        /\ FencesBefore(acc.text, committed.at) % 2 = 0
    BY <2>1 DEF Settled
  <2> QED
    BY <1>1, <2>2, PairOf, Zenon
<1> QED
  BY <1>2, Zenon DEF CommittedIsSettled, TextInv, Rendered

(* A part of the text rendered for good stays a whole number of paragraphs *)
(* outside code fences in every later snapshot of the same CLI, and the    *)
(* loop panics only over a text of another backend.                        *)
THEOREM RenderedIsSettled == Spec => []CommittedIsSettled
<1>1. Init => TextInv
  <2> SUFFICES ASSUME Init PROVE TextInv
    OBVIOUS
  <2>1. /\ channel = <<>> /\ committed = [at |-> 0, by |-> 0] /\ attempt = 1
        /\ flusher \in {"receiving", "gone"}
    BY Zenon DEF Init
  <2>2. InOrder /\ Coming
    <3>1. DOMAIN channel = {}
      BY <2>1
    <3> QED
      BY <3>1, Zenon DEF InOrder, Coming
  <2>3. Rendered
    BY <2>1 DEF Rendered, Kept
  <2> QED
    BY <2>2, <2>3 DEF TextInv
<1> QED
  BY <1>1, CliRunTyped, StepText, SettledWhenShown, PTL DEF Spec

-----------------------------------------------------------------------------
(* Texts joined from pieces, one for each element of a sequence: h after   *)
(* each element.                                                           *)

Joined(h, s, piece) ==
  /\ h[0] = <<>>
  /\ \A i \in 1 .. Len(s) : h[i] = h[i - 1] \o piece[s[i]]

LEMMA JoinExists ==
  ASSUME NEW S, NEW s \in Seq(S), NEW piece \in [S -> Seq(Chars)]
  PROVE  \E f \in [0 .. Len(s) -> Seq(Chars)] : Joined(f, s, piece)
<1> DEFINE n == Len(s)
           step == [p \in (1 .. n) \X Seq(Chars) |-> p[2] \o piece[s[p[1]]]]
<1>1. n \in Nat /\ <<>> \in Seq(Chars) /\ \A i \in 1 .. n : s[i] \in S
  BY Empty
<1>2. \A i \in 1 .. n : piece[s[i]] \in Seq(Chars)
  BY <1>1
<1>3. step \in [(1 .. n) \X Seq(Chars) -> Seq(Chars)]
  <2> SUFFICES ASSUME NEW p \in (1 .. n) \X Seq(Chars)
               PROVE  p[2] \o piece[s[p[1]]] \in Seq(Chars)
    OBVIOUS
  <2>1. p[1] \in 1 .. n /\ p[2] \in Seq(Chars)
    OBVIOUS
  <2>2. piece[s[p[1]]] \in Seq(Chars)
    BY <1>2, <2>1
  <2> QED
    BY <2>1, <2>2, ConcatProperties
<1>4. PICK f \in [0 .. n -> Seq(Chars)] : Follows(f, n, <<>>, step)
  <2> HIDE DEF step
  <2> QED
    BY <1>1, <1>3, RecursionExists
<1>5. ASSUME NEW i \in 1 .. n PROVE f[i] = f[i - 1] \o piece[s[i]]
  <2>1. f[i] = step[<<i, f[i - 1]>>]
    BY <1>4 DEF Follows
  <2>2. i - 1 \in 0 .. n
    BY <1>1
  <2>3. f[i - 1] \in Seq(Chars)
    BY <1>4, <2>2
  <2>4. <<i, f[i - 1]>> \in (1 .. n) \X Seq(Chars)
    BY <2>3
  <2> QED
    BY <2>1, <2>4
<1>6. f[0] = <<>>
  BY <1>4 DEF Follows
<1> QED
  BY <1>4, <1>5, <1>6 DEF Joined

LEMMA JoinedTypes ==
  ASSUME NEW S, NEW s \in Seq(S), NEW piece \in [S -> Seq(Chars)], NEW h,
         Joined(h, s, piece)
  PROVE  \A i \in 0 .. Len(s) : h[i] \in Seq(Chars)
<1> DEFINE T == {i \in 0 .. Len(s) : h[i] \in Seq(Chars)}
<1>1. Len(s) \in Nat /\ <<>> \in Seq(Chars)
  BY Empty
<1>2. 0 \in T
  <2>1. 0 \in 0 .. Len(s) /\ h[0] = <<>>
    BY <1>1 DEF Joined
  <2> QED
    BY <1>1, <2>1
<1>3. ASSUME NEW i \in 1 .. Len(s), i - 1 \in T PROVE i \in T
  <2>1. h[i] = h[i - 1] \o piece[s[i]] /\ h[i - 1] \in Seq(Chars)
    BY <1>3 DEF Joined
  <2>2. s[i] \in S
    OBVIOUS
  <2>3. piece[s[i]] \in Seq(Chars)
    BY <2>2
  <2>4. h[i] \in Seq(Chars)
    BY <2>1, <2>3, ConcatProperties
  <2>5. i \in 0 .. Len(s)
    BY <1>1
  <2> QED
    BY <2>4, <2>5
<1>4. 0 .. Len(s) \subseteq T
  <2> HIDE DEF T
  <2> QED
    BY <1>1, <1>2, <1>3, InductionUpTo
<1> QED
  BY <1>4

(* One sequence after another: the second text after the first.            *)
BothJoined(s, t, piece) ==
  \A g, h, k :
    Joined(g, s, piece) /\ Joined(h, t, piece) /\ Joined(k, s \o t, piece)
      => k[Len(s) + Len(t)] = g[Len(s)] \o h[Len(t)]

LEMMA Regrouped ==
  ASSUME NEW a \in Seq(Chars), NEW b \in Seq(Chars), NEW c \in Seq(Chars)
  PROVE  (a \o b) \o c = a \o (b \o c)
BY ConcatAssociative

LEMMA JoinedBoth ==
  ASSUME NEW S, NEW s \in Seq(S), NEW t \in Seq(S), NEW piece \in [S -> Seq(Chars)]
  PROVE  BothJoined(s, t, piece)
<1> SUFFICES ASSUME NEW g, NEW h, NEW k,
                    Joined(g, s, piece), Joined(h, t, piece), Joined(k, s \o t, piece)
             PROVE  k[Len(s) + Len(t)] = g[Len(s)] \o h[Len(t)]
  BY DEF BothJoined
<1> DEFINE m == Len(s)
           n == Len(t)
<1>1. /\ m \in Nat /\ n \in Nat /\ Len(s \o t) = m + n
      /\ \A i \in 1 .. m : (s \o t)[i] = s[i]
      /\ \A i \in 1 .. n : (s \o t)[m + i] = t[i]
  OBVIOUS
<1>2. /\ \A i \in 0 .. m : g[i] \in Seq(Chars)
      /\ \A i \in 0 .. n : h[i] \in Seq(Chars)
  BY JoinedTypes
<1>3. \A i \in 1 .. n : piece[t[i]] \in Seq(Chars)
  <2>1. \A i \in 1 .. n : t[i] \in S
    OBVIOUS
  <2> QED
    BY <2>1
<1>4. \A i \in 1 .. m + n : k[i] = k[i - 1] \o piece[(s \o t)[i]]
  BY <1>1 DEF Joined
<1> HIDE DEF m, n
<1>5. 0 .. m \subseteq {i \in 0 .. m : k[i] = g[i]}
  <2> DEFINE T == {i \in 0 .. m : k[i] = g[i]}
  <2>1. 0 \in T
    BY <1>1 DEF Joined
  <2>2. ASSUME NEW i \in 1 .. m, i - 1 \in T PROVE i \in T
    <3>1. i \in 1 .. m + n /\ i \in 0 .. m
      BY <1>1
    <3>2. k[i] = k[i - 1] \o piece[s[i]]
      BY <1>1, <1>4, <3>1
    <3>3. g[i] = g[i - 1] \o piece[s[i]]
      BY DEF Joined, m
    <3> QED
      BY <2>2, <3>1, <3>2, <3>3
  <2> HIDE DEF T
  <2>3. 0 .. m \subseteq T
    BY <1>1, <2>1, <2>2, InductionUpTo
  <2> QED
    BY <2>3 DEF T
<1>6. PICK first \in Seq(Chars) : first = g[m] /\ first = k[m]
  BY <1>1, <1>2, <1>5
<1>7. 0 .. n \subseteq {i \in 0 .. n : k[m + i] = first \o h[i]}
  <2> DEFINE T == {i \in 0 .. n : k[m + i] = first \o h[i]}
  <2>1. 0 \in T
    <3>1. h[0] = <<>> /\ m + 0 = m
      BY <1>1 DEF Joined
    <3>2. first \o <<>> = first
      BY ConcatEmptySeq
    <3>3. k[m + 0] = first \o h[0]
      BY <1>6, <3>1, <3>2, Zenon
    <3>4. 0 \in 0 .. n
      BY <1>1
    <3> QED
      BY <3>3, <3>4
  <2>2. ASSUME NEW i \in 1 .. n, i - 1 \in T PROVE i \in T
    <3>1. m + i \in 1 .. m + n /\ i \in 0 .. n /\ i - 1 \in 0 .. n /\ (m + i) - 1 = m + (i - 1)
      BY <1>1
    <3>2. k[m + i] = k[m + (i - 1)] \o piece[t[i]]
      BY <1>1, <1>4, <3>1
    <3>3. k[m + (i - 1)] = first \o h[i - 1]
      BY <2>2
    <3>4. h[i] = h[i - 1] \o piece[t[i]]
      BY DEF Joined, n
    <3>5. h[i - 1] \in Seq(Chars) /\ piece[t[i]] \in Seq(Chars)
      BY <1>2, <1>3, <3>1
    <3>6. (first \o h[i - 1]) \o piece[t[i]] = first \o (h[i - 1] \o piece[t[i]])
      <4>1. PICK a \in Seq(Chars) : a = h[i - 1]
        BY <3>5
      <4>2. PICK b \in Seq(Chars) : b = piece[t[i]]
        BY <3>5
      <4>3. first \in Seq(Chars)
        BY <1>1
      <4>4. (first \o a) \o b = first \o (a \o b)
        BY <4>1, <4>2, <4>3, Regrouped
      <4> QED
        BY <4>1, <4>2, <4>4
    <3>7. k[m + i] = first \o h[i]
      BY <3>2, <3>3, <3>4, <3>6, Zenon
    <3> QED
      BY <3>1, <3>7
  <2> HIDE DEF T
  <2>3. 0 .. n \subseteq T
    BY <1>1, <2>1, <2>2, InductionUpTo
  <2> QED
    BY <2>3 DEF T
<1>8. k[m + n] = first \o h[n]
  <2>1. n \in 0 .. n
    BY <1>1
  <2> QED
    BY <1>7, <2>1
<1> QED
  BY <1>6, <1>8, Zenon DEF m, n

(* The two texts joined so: what the lines heard say, and the words of a   *)
(* text.                                                                   *)
PieceOfLine == [l \in Lines |-> IF SaidText(l) THEN l.text ELSE <<>>]
PieceOfChar == [c \in Chars |-> IF c = NL THEN <<>> ELSE <<c>>]

LEMMA PieceTypes ==
  PieceOfLine \in [Lines -> Seq(Chars)] /\ PieceOfChar \in [Chars -> Seq(Chars)]
<1>1. <<>> \in Seq(Chars) /\ \A l \in Lines : l.text \in Seq(Chars)
  BY Empty DEF Lines
<1>2. \A c \in Chars : <<c>> \in Seq(Chars)
  OBVIOUS
<1> QED
  BY <1>1, <1>2 DEF PieceOfLine, PieceOfChar

LEMMA SaidJoined ==
  ASSUME NEW ls \in Seq(Lines)
  PROVE  Joined(Said(ls), ls, PieceOfLine)
<1> DEFINE n == Len(ls)
           next(f) == [i \in 0 .. n |->
             IF i = 0 THEN <<>>
             ELSE f[i - 1] \o (IF SaidText(ls[i]) THEN ls[i].text ELSE <<>>)]
<1>1. n \in Nat /\ \A i \in 1 .. n : ls[i] \in Lines
  OBVIOUS
<1>2. \A i \in 1 .. n : PieceOfLine[ls[i]] = IF SaidText(ls[i]) THEN ls[i].text ELSE <<>>
  BY <1>1 DEF PieceOfLine
<1>3. PICK f \in [0 .. n -> Seq(Chars)] : Joined(f, ls, PieceOfLine)
  BY PieceTypes, JoinExists
<1>4. f = next(f)
  <2>1. f[0] = <<>> /\ 0 \in 0 .. n /\ \A i \in 0 .. n : i = 0 \/ i \in 1 .. n
    BY <1>1, <1>3 DEF Joined
  <2>2. ASSUME NEW i \in 1 .. n PROVE f[i] = next(f)[i]
    <3>1. f[i] = f[i - 1] \o PieceOfLine[ls[i]]
      BY <1>3, Zenon DEF Joined
    <3>2. PieceOfLine[ls[i]] = (IF SaidText(ls[i]) THEN ls[i].text ELSE <<>>)
      BY <1>2
    <3>3. i \in 0 .. n /\ i # 0
      BY <1>1
    <3> QED
      BY <3>1, <3>2, <3>3, Zenon
  <2>3. \A i \in 0 .. n : f[i] = next(f)[i]
    BY <2>1, <2>2
  <2> QED
    BY <1>3, <2>3
<1>5. PICK said : said = Said(ls)
  OBVIOUS
<1>6. said = next(said)
  BY <1>4, <1>5, Zenon DEF Said
<1>7. said[0] = <<>> /\ \A i \in 1 .. n : said[i] = said[i - 1] \o PieceOfLine[ls[i]]
  <2>1. /\ 0 \in 0 .. n /\ \A i \in 1 .. n : i \in 0 .. n /\ i # 0
    BY <1>1
  <2>2. \A i \in 0 .. n :
          said[i] = IF i = 0 THEN <<>>
                    ELSE said[i - 1] \o (IF SaidText(ls[i]) THEN ls[i].text ELSE <<>>)
    BY <1>6, Zenon
  <2> QED
    BY <1>2, <2>1, <2>2
<1> QED
  BY <1>5, <1>7 DEF Joined

LEMMA WithoutJoined ==
  ASSUME NEW t \in Seq(Chars)
  PROVE  Joined(Without(t), t, PieceOfChar)
<1> DEFINE n == Len(t)
           next(f) == [i \in 0 .. n |->
             IF i = 0 THEN <<>>
             ELSE f[i - 1] \o (IF t[i] = NL THEN <<>> ELSE <<t[i]>>)]
<1>1. n \in Nat /\ \A i \in 1 .. n : t[i] \in Chars
  OBVIOUS
<1>2. \A i \in 1 .. n : PieceOfChar[t[i]] = IF t[i] = NL THEN <<>> ELSE <<t[i]>>
  BY <1>1 DEF PieceOfChar
<1>3. PICK f \in [0 .. n -> Seq(Chars)] : Joined(f, t, PieceOfChar)
  BY PieceTypes, JoinExists
<1>4. f = next(f)
  <2>1. f[0] = <<>> /\ 0 \in 0 .. n /\ \A i \in 0 .. n : i = 0 \/ i \in 1 .. n
    BY <1>1, <1>3 DEF Joined
  <2>2. ASSUME NEW i \in 1 .. n PROVE f[i] = next(f)[i]
    <3>1. f[i] = f[i - 1] \o PieceOfChar[t[i]]
      BY <1>3, Zenon DEF Joined
    <3>2. PieceOfChar[t[i]] = (IF t[i] = NL THEN <<>> ELSE <<t[i]>>)
      BY <1>2
    <3>3. i \in 0 .. n /\ i # 0
      BY <1>1
    <3> QED
      BY <3>1, <3>2, <3>3, Zenon
  <2>3. \A i \in 0 .. n : f[i] = next(f)[i]
    BY <2>1, <2>2
  <2> QED
    BY <1>3, <2>3
<1>5. PICK words : words = Without(t)
  OBVIOUS
<1>6. words = next(words)
  BY <1>4, <1>5, Zenon DEF Without
<1>7. words[0] = <<>> /\ \A i \in 1 .. n : words[i] = words[i - 1] \o PieceOfChar[t[i]]
  <2>1. /\ 0 \in 0 .. n /\ \A i \in 1 .. n : i \in 0 .. n /\ i # 0
    BY <1>1
  <2>2. \A i \in 0 .. n :
          words[i] = IF i = 0 THEN <<>>
                     ELSE words[i - 1] \o (IF t[i] = NL THEN <<>> ELSE <<t[i]>>)
    BY <1>6, Zenon
  <2> QED
    BY <1>2, <2>1, <2>2
<1> QED
  BY <1>5, <1>7 DEF Joined

LEMMA SaidMore ==
  ASSUME NEW ls \in Seq(Lines), NEW l \in Lines
  PROVE  /\ Said(Append(ls, l))[Len(Append(ls, l))] =
              Said(ls)[Len(ls)] \o PieceOfLine[l]
         /\ Said(ls)[Len(ls)] \in Seq(Chars)
<1>1. <<l>> \in Seq(Lines) /\ Append(ls, l) = ls \o <<l>> /\ ls \o <<l>> \in Seq(Lines)
      /\ Len(<<l>>) = 1 /\ Len(ls \o <<l>>) = Len(ls) + 1 /\ <<l>>[1] = l
      /\ Len(ls) \in 0 .. Len(ls)
  OBVIOUS
<1>2. /\ Joined(Said(ls), ls, PieceOfLine) /\ Joined(Said(<<l>>), <<l>>, PieceOfLine)
      /\ Joined(Said(ls \o <<l>>), ls \o <<l>>, PieceOfLine)
  BY <1>1, SaidJoined
<1>3. Said(ls \o <<l>>)[Len(ls) + Len(<<l>>)] = Said(ls)[Len(ls)] \o Said(<<l>>)[Len(<<l>>)]
  <2>1. PICK piece \in [Lines -> Seq(Chars)] : piece = PieceOfLine
    BY PieceTypes
  <2>2. PICK g, h, k : g = Said(ls) /\ h = Said(<<l>>) /\ k = Said(ls \o <<l>>)
    OBVIOUS
  <2>3. Joined(g, ls, piece) /\ Joined(h, <<l>>, piece) /\ Joined(k, ls \o <<l>>, piece)
    BY <1>2, <2>1, <2>2
  <2>4. k[Len(ls) + Len(<<l>>)] = g[Len(ls)] \o h[Len(<<l>>)]
    <3>1. BothJoined(ls, <<l>>, piece)
      BY <1>1, <2>1, JoinedBoth
    <3> QED
      BY <2>3, <3>1, Zenon DEF BothJoined
  <2> QED
    BY <2>2, <2>4
<1>4. Said(<<l>>)[1] = PieceOfLine[l]
  <2>1. Said(<<l>>)[0] = <<>> /\ Said(<<l>>)[1] = Said(<<l>>)[1 - 1] \o PieceOfLine[<<l>>[1]]
    <3>1. 1 \in 1 .. Len(<<l>>)
      BY <1>1
    <3> QED
      BY <1>2, <3>1, Zenon DEF Joined
  <2>2. PieceOfLine[l] \in Seq(Chars)
    BY PieceTypes
  <2>3. Said(<<l>>)[1] = <<>> \o PieceOfLine[l]
    <3>1. 1 - 1 = 0 /\ <<l>>[1] = l
      OBVIOUS
    <3> QED
      BY <2>1, <3>1, Zenon
  <2> QED
    BY <2>2, <2>3, ConcatEmptySeq
<1>5. Said(ls)[Len(ls)] \in Seq(Chars)
  BY <1>1, <1>2, PieceTypes, JoinedTypes
<1> QED
  BY <1>1, <1>3, <1>4, <1>5, Zenon

LEMMA WordsOfBoth ==
  ASSUME NEW t \in Seq(Chars), NEW u \in Seq(Chars)
  PROVE  /\ Words(t \o u) = Words(t) \o Words(u)
         /\ Words(t) \in Seq(Chars)
<1>1. t \o u \in Seq(Chars) /\ Len(t \o u) = Len(t) + Len(u) /\ Len(t) \in 0 .. Len(t)
  OBVIOUS
<1>2. /\ Joined(Without(t), t, PieceOfChar) /\ Joined(Without(u), u, PieceOfChar)
      /\ Joined(Without(t \o u), t \o u, PieceOfChar)
  BY <1>1, WithoutJoined
<1>3. Without(t \o u)[Len(t) + Len(u)] = Without(t)[Len(t)] \o Without(u)[Len(u)]
  <2>1. PICK piece \in [Chars -> Seq(Chars)] : piece = PieceOfChar
    BY PieceTypes
  <2>2. PICK g, h, k : g = Without(t) /\ h = Without(u) /\ k = Without(t \o u)
    OBVIOUS
  <2>3. Joined(g, t, piece) /\ Joined(h, u, piece) /\ Joined(k, t \o u, piece)
    BY <1>2, <2>1, <2>2
  <2>4. k[Len(t) + Len(u)] = g[Len(t)] \o h[Len(u)]
    <3>1. BothJoined(t, u, piece)
      BY <2>1, JoinedBoth
    <3> QED
      BY <2>3, <3>1, Zenon DEF BothJoined
  <2> QED
    BY <2>2, <2>4
<1>4. Words(t) \in Seq(Chars)
  <2>1. Without(t)[Len(t)] \in Seq(Chars)
    BY <1>1, <1>2, PieceTypes, JoinedTypes
  <2> QED
    BY <2>1 DEF Words
<1> QED
  BY <1>1, <1>3, <1>4, Zenon DEF Words

(* Line breaks are no words.                                               *)
LEMMA WordsOfBreaks ==
  ASSUME NEW t \in Seq(Chars), NEW tail \in {<<>>, <<NL>>, <<NL, NL>>}
  PROVE  Words(t \o tail) = Words(t)
<1>1. NL \in Chars
  BY DEF NL, Chars
<1>2. <<>> \in Seq(Chars) /\ <<NL>> \in Seq(Chars) /\ <<NL, NL>> \in Seq(Chars)
      /\ <<NL, NL>> = <<NL>> \o <<NL>>
  BY <1>1
<1>3. Words(<<>>) = <<>>
  <2>1. Without(<<>>)[0] = <<>>
    BY <1>2, WithoutJoined DEF Joined
  <2> QED
    BY <2>1, Empty DEF Words
<1>4. Words(<<NL>>) = <<>>
  <2>1. Joined(Without(<<NL>>), <<NL>>, PieceOfChar) /\ Len(<<NL>>) = 1 /\ <<NL>>[1] = NL
    BY <1>2, WithoutJoined
  <2>2. Without(<<NL>>)[0] = <<>>
        /\ Without(<<NL>>)[1] = Without(<<NL>>)[1 - 1] \o PieceOfChar[<<NL>>[1]]
    <3>1. 1 \in 1 .. Len(<<NL>>)
      BY <2>1
    <3> QED
      BY <2>1, <3>1, Zenon DEF Joined
  <2>3. PieceOfChar[NL] = <<>>
    BY <1>1 DEF PieceOfChar
  <2>4. Without(<<NL>>)[1] = <<>> \o <<>>
    <3>1. 1 - 1 = 0
      OBVIOUS
    <3> QED
      BY <2>1, <2>2, <2>3, <3>1, Zenon
  <2>5. <<>> \o <<>> = <<>>
    BY <1>2, ConcatEmptySeq
  <2> QED
    BY <2>1, <2>4, <2>5 DEF Words
<1>5. Words(<<NL, NL>>) = <<>>
  <2>1. Words(<<NL>> \o <<NL>>) = <<>> \o <<>>
    <3>1. PICK u \in Seq(Chars) : u = <<NL>>
      BY <1>2
    <3>2. Words(u \o u) = Words(u) \o Words(u)
      BY <3>1, WordsOfBoth
    <3> QED
      BY <1>4, <3>1, <3>2, Zenon
  <2>2. <<>> \o <<>> = <<>>
    BY <1>2, ConcatEmptySeq
  <2> QED
    BY <1>2, <2>1, <2>2, Zenon
<1>6. tail \in Seq(Chars) /\ Words(tail) = <<>>
  BY <1>2, <1>3, <1>4, <1>5, Zenon
<1>7. Words(t \o tail) = Words(t) \o <<>> /\ Words(t) \in Seq(Chars)
  BY <1>6, WordsOfBoth
<1> QED
  BY <1>7, ConcatEmptySeq

-----------------------------------------------------------------------------
(* What the CLI said and what the reader keeps of it.                      *)

FinalIsLast(fin, lines) ==
  LET results == {i \in DOMAIN lines : lines[i].kind = "result" /\ ~lines[i].error} IN
  /\ fin.given <=> results # {}
  /\ fin.given => \E i \in results : (\A j \in results : j <= i) /\ fin.text = lines[i].text

Going ==
  /\ pipe \in Seq(Says(Flavors[attempt]) \cup {Noise})
  /\ Words(full) = Words(HeardText)
  /\ full = <<>> => HeardText = <<>>
  /\ FinalIsLast(final, heard)
  /\ reader = "stderr" => full = <<>> /\ ~final.given
  /\ result.st = "none"

HeardInv == NoTextLost /\ (reader # "over" => Going)

(* The parser of a CLI's lines tells a text, a result and the rest apart.  *)
LEMMA ParseSays ==
  ASSUME NEW l \in Says(Flavors[attempt]) \cup {Noise}, l # Invalid
  PROVE  /\ SaidText(l) => Parse(l).type = "Text" /\ Parse(l).text = l.text
         /\ ~SaidText(l) => Parse(l).type # "Text"
         /\ l.kind = "result" /\ ~l.error => Parse(l).type = "Final" /\ Parse(l).text = l.text
         /\ ~(l.kind = "result" /\ ~l.error) => Parse(l).type # "Final"
         /\ l = Noise => ~SaidText(l) /\ Parse(l).type = "Other"
<1>1. CASE Flavors[attempt] = "claude"
  <2>1. l \in ClaudeLines \cup {Noise}
    BY <1>1 DEF Says
  <2>2. Parse(l) = ParseClaude(l)
    BY <1>1 DEF Parse
  <2>3. CASE \E t : l = Line("text_delta", t, FALSE)
    BY <2>2, <2>3 DEF Line, ParseClaude, Event, SaidText, Noise
  <2>4. CASE l = Line("block_start", <<>>, FALSE)
    BY <2>2, <2>4 DEF Line, ParseClaude, Event, SaidText, Noise
  <2>5. CASE \E t : l = Line("result", t, FALSE)
    BY <2>2, <2>5 DEF Line, ParseClaude, Event, SaidText, Noise
  <2>6. CASE l = Line("result", <<>>, TRUE)
    BY <2>2, <2>6 DEF Line, ParseClaude, Event, SaidText, Noise
  <2>7. CASE l = Noise
    BY <2>2, <2>7 DEF Line, ParseClaude, Event, SaidText, Noise, Other
  <2> QED
    BY <2>1, <2>3, <2>4, <2>5, <2>6, <2>7 DEF ClaudeLines
<1>2. CASE Flavors[attempt] # "claude"
  <2>1. l \in OpenCodeLines \cup {Noise}
    BY <1>2 DEF Says
  <2>2. Parse(l) = ParseOpenCode(l)
    BY <1>2 DEF Parse
  <2>3. CASE \E t : l = Line("text", t, FALSE)
    BY <2>2, <2>3 DEF Line, ParseOpenCode, Event, SaidText, Noise
  <2>4. CASE l = Line("error", <<>>, TRUE)
    BY <2>2, <2>4 DEF Line, ParseOpenCode, Event, SaidText, Noise
  <2>5. CASE l = Noise
    BY <2>2, <2>5 DEF Line, ParseOpenCode, Event, SaidText, Noise, Other
  <2> QED
    BY <2>1, <2>3, <2>4, <2>5 DEF OpenCodeLines
<1> QED
  BY <1>1, <1>2

LEMMA FinalFacts ==
  ASSUME NEW lines \in Seq(Lines), NEW fin, FinalIsLast(fin, lines), NEW l \in Lines
  PROVE  /\ l.kind = "result" /\ ~l.error => FinalIsLast(Given(l.text), Append(lines, l))
         /\ ~(l.kind = "result" /\ ~l.error) => FinalIsLast(fin, Append(lines, l))
<1> DEFINE ok(x) == x.kind = "result" /\ ~x.error
           more == Append(lines, l)
           before == {i \in DOMAIN lines : ok(lines[i])}
           after == {i \in DOMAIN more : ok(more[i])}
<1>1. PICK n \in Nat : n = Len(lines)
  OBVIOUS
<1>2. /\ DOMAIN lines = 1 .. n /\ DOMAIN more = 1 .. (n + 1)
      /\ \A i \in 1 .. n : more[i] = lines[i]
      /\ more[n + 1] = l
  BY <1>1
<1>3. \A i \in 1 .. (n + 1) : (i \in 1 .. n \/ i = n + 1) /\ i <= n + 1
  BY <1>1
<1>4. /\ fin.given <=> before # {}
      /\ fin.given => \E i \in before : (\A j \in before : j <= i) /\ fin.text = lines[i].text
  BY Zenon DEF FinalIsLast
<1> HIDE DEF ok, more
<1>5. ASSUME ok(l)
      PROVE  FinalIsLast(Given(l.text), more)
  <2>1. n + 1 \in 1 .. (n + 1)
    BY <1>1
  <2>2. n + 1 \in after /\ \A j \in after : j <= n + 1
    BY <1>2, <1>3, <1>5, <2>1, Zenon
  <2>3. Given(l.text).given = TRUE /\ Given(l.text).text = more[n + 1].text
    BY <1>2 DEF Given
  <2> QED
    BY <2>2, <2>3, Zenon DEF FinalIsLast, ok
<1>6. ASSUME ~ok(l)
      PROVE  FinalIsLast(fin, more)
  <2>1. \A i \in 1 .. n : i \in 1 .. (n + 1)
    BY <1>1
  <2>2. after = before
    <3>1. ASSUME NEW i \in before PROVE i \in after
      BY <1>2, <2>1
    <3>2. ASSUME NEW i \in after PROVE i \in before
      <4>1. i \in 1 .. (n + 1) /\ ok(more[i])
        BY <1>2
      <4>2. i # n + 1
        BY <1>2, <1>6, <4>1
      <4>3. i \in 1 .. n /\ more[i] = lines[i]
        BY <1>2, <1>3, <4>1, <4>2
      <4> QED
        BY <1>2, <4>1, <4>3
    <3> QED
      BY <3>1, <3>2
  <2>3. \A i \in before : more[i].text = lines[i].text
    BY <1>2
  <2>4. /\ fin.given <=> after # {}
        /\ fin.given => \E i \in after : (\A j \in after : j <= i) /\ fin.text = more[i].text
    BY <1>4, <2>2, <2>3, Zenon
  <2> QED
    BY <2>4, Zenon DEF FinalIsLast, ok
<1> QED
  BY <1>5, <1>6 DEF ok, more

(* A line is read.                                                         *)
LEMMA TakeKeeps ==
  ASSUME TypeOK, Going, NEW l \in Says(Flavors[attempt]) \cup {Noise}, l # Invalid,
         Take(Parse(l)), heard' = IF l = Noise THEN heard ELSE Append(heard, l)
  PROVE  /\ Words(full') = Words(HeardText')
         /\ full' = <<>> => HeardText' = <<>>
         /\ FinalIsLast(final', heard')
<1>1. full \in Seq(Chars) /\ heard \in Seq(Lines) /\ l \in Lines
  BY TypesOf, LineFacts DEF ReaderTypes
<1>2. PICK ev : ev = Parse(l)
  OBVIOUS
<1>3. /\ ev.text \in Seq(Chars)
      /\ ev.type \in {"Text", "BlockBreak", "Final", "Error", "Other"}
      /\ SaidText(l) => ev.type = "Text" /\ ev.text = l.text
      /\ ~SaidText(l) => ev.type # "Text"
      /\ l.kind = "result" /\ ~l.error => ev.type = "Final" /\ ev.text = l.text
      /\ ~(l.kind = "result" /\ ~l.error) => ev.type # "Final"
      /\ l = Noise => ~SaidText(l) /\ ev.type = "Other"
  BY <1>1, <1>2, ParseType, ParseSays
<1>4. /\ full' = CASE ev.type = "Text"       -> full \o ev.text
                   [] ev.type = "BlockBreak" -> Broken(full)
                   [] OTHER                  -> full
      /\ final' = IF ev.type = "Final" THEN Given(ev.text) ELSE final
  BY <1>2 DEF Take
<1>5. PICK said \in Seq(Chars) : said = HeardText
  BY <1>1, SaidMore DEF HeardText
<1>6. Words(full) = Words(said) /\ (full = <<>> => said = <<>>) /\ FinalIsLast(final, heard)
  BY <1>5 DEF Going
<1>7. HeardText' = IF SaidText(l) THEN said \o l.text ELSE said
  <2>1. CASE l = Noise
    <3>1. heard' = heard
      BY <2>1
    <3>2. HeardText' = HeardText
      BY <3>1 DEF HeardText
    <3> QED
      BY <1>3, <1>5, <2>1, <3>2
  <2>2. CASE l # Noise
    <3>1. heard' = Append(heard, l)
      BY <2>2
    <3>2. HeardText' = said \o PieceOfLine[l]
      BY <1>1, <1>5, <3>1, SaidMore DEF HeardText
    <3>3. PieceOfLine[l] = IF SaidText(l) THEN l.text ELSE <<>>
      BY <1>1 DEF PieceOfLine
    <3>4. said \o <<>> = said
      BY <1>5, ConcatEmptySeq
    <3> QED
      BY <3>2, <3>3, <3>4, Zenon
  <2> QED
    BY <2>1, <2>2
<1>8. FinalIsLast(final', heard')
  <2>1. CASE l = Noise
    BY <1>3, <1>4, <1>6, <2>1
  <2>2. CASE l # Noise /\ l.kind = "result" /\ ~l.error
    <3>1. final' = Given(l.text) /\ heard' = Append(heard, l)
      BY <1>3, <1>4, <2>2
    <3> QED
      BY <1>1, <1>6, <2>2, <3>1, FinalFacts
  <2>3. CASE l # Noise /\ ~(l.kind = "result" /\ ~l.error)
    <3>1. final' = final /\ heard' = Append(heard, l)
      BY <1>3, <1>4, <2>3
    <3> QED
      BY <1>1, <1>6, <2>3, <3>1, FinalFacts
  <2> QED
    BY <2>1, <2>2, <2>3
<1>9. CASE SaidText(l)
  <2>1. full' = full \o ev.text /\ HeardText' = said \o ev.text
    BY <1>3, <1>4, <1>7, <1>9
  <2>2. Words(full \o ev.text) = Words(said \o ev.text)
    <3>1. /\ Words(full \o ev.text) = Words(full) \o Words(ev.text)
          /\ Words(said \o ev.text) = Words(said) \o Words(ev.text)
      BY <1>1, <1>3, <1>5, WordsOfBoth
    <3> QED
      BY <1>6, <3>1
  <2>3. full \o ev.text = <<>> => said \o ev.text = <<>>
    BY <1>1, <1>3, <1>5, <1>6
  <2> QED
    BY <1>8, <2>1, <2>2, <2>3
<1>10. CASE ~SaidText(l)
  <2>1. HeardText' = said /\ ev.type # "Text"
    BY <1>3, <1>7, <1>10
  <2>2. CASE ev.type = "BlockBreak"
    <3>1. full' = Broken(full)
      BY <1>4, <2>2
    <3>2. PICK tail \in {<<>>, <<NL>>, <<NL, NL>>} :
            Broken(full) = full \o tail /\ (full = <<>> => tail = <<>>)
      BY <1>1, BrokenIs
    <3>3. Words(full') = Words(full)
      BY <1>1, <3>1, <3>2, WordsOfBreaks
    <3>4. full' = <<>> => full = <<>>
      <4>1. tail \in Seq(Chars)
        <5>1. NL \in Chars
          BY DEF NL, Chars
        <5>2. <<>> \in Seq(Chars) /\ <<NL>> \in Seq(Chars) /\ <<NL, NL>> \in Seq(Chars)
          BY <5>1
        <5> QED
          BY <3>2, <5>2
      <4> QED
        BY <1>1, <3>1, <3>2, <4>1
    <3> QED
      BY <1>6, <1>8, <2>1, <3>3, <3>4
  <2>3. CASE ev.type # "BlockBreak"
    <3>1. full' = full
      BY <1>4, <2>1, <2>3
    <3> QED
      BY <1>6, <1>8, <2>1, <3>1
  <2> QED
    BY <2>2, <2>3
<1> QED
  BY <1>9, <1>10

LEMMA OverStays ==
  ASSUME NoTextLost, result' = result, heard' = heard
  PROVE  NoTextLost'
<1>1. Results' = Results /\ HeardText' = HeardText
  BY DEF Results, HeardText
<1> QED
  BY <1>1 DEF NoTextLost

LEMMA NoneYet ==
  ASSUME result.st # "ok", result.st # "err"
  PROVE  NoTextLost
BY DEF NoTextLost

LEMMA NoneYetNext ==
  ASSUME result'.st # "ok", result'.st # "err"
  PROVE  NoTextLost'
BY DEF NoTextLost

(* A step that reads nothing and ends nothing.                             *)
LEMMA GoesOn ==
  ASSUME HeardInv, reader # "over",
         pipe' \in Seq(Says(Flavors[attempt]) \cup {Noise}), attempt' = attempt,
         full' = full, final' = final, heard' = heard, result' = result,
         reader' = "stderr" => reader = "stderr" \/ (full = <<>> /\ ~final.given)
  PROVE  HeardInv'
<1>1. HeardText' = HeardText
  BY DEF HeardText
<1>2. Going /\ NoTextLost
  BY DEF HeardInv
<1>3. Going'
  BY <1>1, <1>2 DEF Going
<1> QED
  BY <1>2, <1>3, OverStays DEF HeardInv

(* A run that ends: the next one begins with nothing heard, or what the    *)
(* chain gives is what NoTextLost says.                                    *)
LEMMA EndRunHeard ==
  ASSUME TypeOK, Going, NEW st \in {"ok", "err"}, NEW how, NEW text, NEW left,
         EndRun(st, how, text, left),
         st = "ok" =>
           \/ final.given /\ text = final.text
           \/ ~final.given /\ text = full,
         st = "err" /\ how = "exited" => full = <<>> /\ ~final.given
  PROVE  HeardInv'
<1>1. CASE st = "err" /\ attempt < Len(Flavors)
  <2>1. /\ pipe' = <<>> /\ full' = <<>> /\ final' = None /\ heard' = <<>>
        /\ reader' = "spawning" /\ result' = result
    BY <1>1 DEF EndRun
  <2>2. result'.st = "none"
    BY <2>1 DEF Going
  <2>3. HeardText' = <<>>
    <3>1. Said(<<>>)[Len(<<>>)] = <<>>
      BY Empty, SaidJoined DEF Joined
    <3> QED
      BY <2>1, <3>1 DEF HeardText
  <2>4. FinalIsLast(None, <<>>)
    <3>1. DOMAIN <<>> = {} /\ None.given = FALSE
      BY DEF None
    <3> QED
      BY <3>1, Zenon DEF FinalIsLast
  <2>5. pipe' \in Seq(Says(Flavors[attempt']) \cup {Noise})
    BY <2>1, Empty
  <2>6. Going'
    BY <2>1, <2>2, <2>3, <2>4, <2>5 DEF Going
  <2> QED
    BY <2>2, <2>6, NoneYetNext DEF HeardInv
<1>2. CASE ~(st = "err" /\ attempt < Len(Flavors))
  <2>1. /\ reader' = "over" /\ heard' = heard
        /\ result' = [st |-> st, how |-> how, text |-> text]
    BY <1>2 DEF EndRun
  <2>2. Results' = Results /\ HeardText' = HeardText
    BY <2>1 DEF Results, HeardText
  <2>3. /\ final.given <=> Results # {}
        /\ final.given => \E i \in Results : (\A j \in Results : j <= i)
                                             /\ final.text = heard[i].text
    BY Zenon DEF Going, FinalIsLast, Results
  <2>4. Results \subseteq Nat
    BY TypesOf DEF ReaderTypes, Results
  <2>5. ASSUME final.given
        PROVE  final.text = heard[CHOOSE i \in Results : \A j \in Results : j <= i].text
    <3>1. PICK i \in Results : (\A j \in Results : j <= i) /\ final.text = heard[i].text
      BY <2>3, <2>5
    <3>2. PICK k : k = CHOOSE m \in Results : \A j \in Results : j <= m
      OBVIOUS
    <3>3. k \in Results /\ \A j \in Results : j <= k
      BY <3>1, <3>2, Zenon
    <3>4. k = i
      BY <2>4, <3>1, <3>3
    <3> QED
      BY <3>1, <3>2, <3>4
  <2>6. Words(full) = Words(HeardText) /\ (full = <<>> => HeardText = <<>>)
    BY DEF Going
  <2>7. st = "ok" =>
          IF Results # {}
            THEN text = heard[CHOOSE i \in Results : \A j \in Results : j <= i].text
            ELSE Words(text) = Words(HeardText)
    BY <2>3, <2>5, <2>6, Zenon
  <2>8. st = "err" /\ how = "exited" => Results = {} /\ HeardText = <<>>
    BY <2>3, <2>6
  <2>9. result'.st = st /\ result'.how = how /\ result'.text = text
    BY <2>1
  <2>10. NoTextLost'
    BY <2>1, <2>2, <2>7, <2>8, <2>9, Zenon DEF NoTextLost
  <2> QED
    BY <2>1, <2>10 DEF HeardInv
<1> QED
  BY <1>1, <1>2

LEMMA KilledHeard ==
  ASSUME TypeOK, Going, NEW how, how # "exited", Killed(how)
  PROVE  HeardInv'
BY EndRunHeard DEF Killed

LEMMA ReadHeard ==
  ASSUME TypeOK, HeardInv, ReadLine
  PROVE  HeardInv'
<1>1. Going /\ NoTextLost /\ pipe # <<>> /\ reader # "over"
  BY DEF HeardInv, ReadLine
<1>2. PICK l : l = Head(pipe)
  OBVIOUS
<1>3. PICK S : S = Says(Flavors[attempt]) \cup {Noise}
  OBVIOUS
<1>4. l \in S /\ Tail(pipe) \in Seq(S)
  <2>1. pipe \in Seq(S)
    BY <1>1, <1>3 DEF Going
  <2> QED
    BY <1>1, <1>2, <2>1
<1>5. CASE l = Invalid
  <2>1. Killed("read")
    BY <1>2, <1>5 DEF ReadLine
  <2> QED
    BY <1>1, <2>1, KilledHeard
<1>6. CASE l # Invalid
  <2>1. /\ Take(Parse(l)) /\ pipe' = Tail(pipe)
        /\ heard' = IF l = Noise THEN heard ELSE Append(heard, l)
        /\ attempt' = attempt /\ result' = result
    BY <1>2, <1>6 DEF ReadLine
  <2>2. /\ Words(full') = Words(HeardText')
        /\ full' = <<>> => HeardText' = <<>>
        /\ FinalIsLast(final', heard')
    BY <1>1, <1>3, <1>4, <1>6, <2>1, TakeKeeps
  <2>3. reader' # "stderr"
    BY <2>1 DEF Take
  <2>4. result'.st = "none"
    BY <1>1, <2>1 DEF Going
  <2>5. Going'
    BY <1>3, <1>4, <2>1, <2>2, <2>3, <2>4 DEF Going
  <2> QED
    BY <2>4, <2>5, NoneYetNext DEF HeardInv
<1> QED
  BY <1>5, <1>6

LEMMA OutcomeHeard ==
  ASSUME TypeOK, HeardInv, reader = "waiting", Outcome
  PROVE  HeardInv'
<1>1. Going
  BY DEF HeardInv
<1>2. CASE FailedForGood
  <2>1. EndRun("err", "exited", <<>>, helper) /\ full = <<>> /\ ~final.given
    BY <1>2 DEF Outcome, FailedForGood
  <2> QED
    BY <1>1, <2>1, EndRunHeard
<1>3. CASE ~FailedForGood /\ final.given
  <2>1. EndRun("ok", "exited", final.text, helper)
    BY <1>3 DEF Outcome
  <2> QED
    BY <1>1, <1>3, <2>1, EndRunHeard
<1>4. CASE ~FailedForGood /\ ~final.given /\ full # <<>>
  <2>1. EndRun("ok", "exited", full, helper)
    BY <1>4 DEF Outcome
  <2> QED
    BY <1>1, <1>4, <2>1, EndRunHeard
<1>5. CASE ~FailedForGood /\ ~final.given /\ full = <<>>
  <2>1. UNCHANGED <<procVars, streams, attempt, late, full, final, failed, heard, result>>
    BY <1>5 DEF Outcome
  <2>2. pipe' \in Seq(Says(Flavors[attempt]) \cup {Noise})
    BY <1>1, <2>1 DEF Going, procVars
  <2> QED
    BY <1>5, <2>1, <2>2, GoesOn
<1> QED
  BY <1>2, <1>3, <1>4, <1>5

LEMMA ProcessesHeard ==
  ASSUME HeardInv, TypeOK, Processes
  PROVE  HeardInv'
<1>1. UNCHANGED readerVars
  BY TypesOf, ProcessesType
<1>2. /\ attempt' = attempt /\ reader' = reader /\ full' = full /\ final' = final
      /\ heard' = heard /\ result' = result
  BY <1>1 DEF readerVars
<1>3. CASE reader = "over"
  BY <1>2, <1>3, OverStays DEF HeardInv
<1>4. CASE reader # "over"
  <2>1. PICK S : S = Says(Flavors[attempt]) \cup {Noise}
    OBVIOUS
  <2>2. pipe \in Seq(S)
    BY <1>4, <2>1 DEF HeardInv, Going
  <2>3. CASE \E l \in Says(Flavors[attempt]) : Say(l)
    <3>1. PICK l \in S : pipe' = Append(pipe, l)
      BY <2>1, <2>3 DEF Say
    <3>2. pipe' \in Seq(S)
      BY <2>2, <3>1
    <3> QED
      BY <1>2, <1>4, <2>1, <3>2, GoesOn
  <2>4. CASE Chatter
    <3>1. pipe' = Append(pipe, Noise) /\ Noise \in S
      BY <2>1, <2>4 DEF Chatter
    <3>2. pipe' \in Seq(S)
      BY <2>2, <3>1
    <3> QED
      BY <1>2, <1>4, <2>1, <3>2, GoesOn
  <2>5. CASE JamStderr \/ StartHelper \/ CloseOutput \/ LeaderExits \/ HelperExits
    <3>1. pipe' = pipe
      BY <2>5 DEF JamStderr, StartHelper, CloseOutput, LeaderExits, HelperExits
    <3> QED
      BY <1>2, <1>4, <2>1, <2>2, <3>1, GoesOn
  <2> QED
    BY <2>3, <2>4, <2>5 DEF Processes
<1> QED
  BY <1>3, <1>4

LEMMA ReaderHeard ==
  ASSUME TypeOK, HeardInv, Reader
  PROVE  HeardInv'
<1>1. ASSUME reader # "over" PROVE Going /\ pipe \in Seq(Says(Flavors[attempt]) \cup {Noise})
  BY <1>1 DEF HeardInv, Going
<1>2. CASE Spawn
  BY <1>1, <1>2, GoesOn DEF Spawn
<1>3. CASE SpawnFails
  BY <1>1, <1>3, EndRunHeard DEF SpawnFails
<1>4. CASE CeilingPasses
  BY <1>1, <1>4, GoesOn DEF CeilingPasses, procVars
<1>5. CASE CheckCeiling
  <2>1. CASE Killed("ceiling")
    BY <1>1, <1>5, <2>1, KilledHeard DEF CheckCeiling
  <2>2. CASE reader' = "reading" /\ UNCHANGED <<procVars, streams, attempt, late, full,
                                                final, failed, heard, result>>
    BY <1>1, <1>5, <2>2, GoesOn DEF CheckCeiling, procVars
  <2> QED
    BY <1>5, <2>1, <2>2, Zenon DEF CheckCeiling
<1>6. CASE ReadLine
  BY <1>6, ReadHeard
<1>7. CASE IdleTimeout
  BY <1>1, <1>7, KilledHeard DEF IdleTimeout
<1>8. CASE EndOfOutput
  BY <1>1, <1>8, GoesOn DEF EndOfOutput, procVars
<1>9. CASE SendText
  BY <1>1, <1>9, GoesOn DEF SendText, procVars
<1>10. CASE Unheard
  BY <1>1, <1>10, KilledHeard DEF Unheard
<1>11. CASE WaitChild
  BY <1>11, OutcomeHeard DEF WaitChild
<1>12. CASE ReadStderr
  <2>1. full = <<>> /\ ~final.given /\ Going
    BY <1>1, <1>12 DEF ReadStderr, Going
  <2> QED
    BY <1>12, <2>1, EndRunHeard DEF ReadStderr
<1>13. CASE Drop
  <2>1. reader' = "over" /\ result' = [st |-> "dropped", how |-> "dropped", text |-> <<>>]
    BY <1>13 DEF Drop
  <2> QED
    BY <2>1, NoneYetNext DEF HeardInv
<1> QED
  BY <1>2, <1>3, <1>4, <1>5, <1>6, <1>7, <1>8, <1>9, <1>10, <1>11, <1>12, <1>13 DEF Reader

LEMMA StepHeard ==
  ASSUME TypeOK, HeardInv, [Next]_vars
  PROVE  HeardInv'
<1>1. CASE Processes
  BY <1>1, ProcessesHeard
<1>2. CASE Reader
  BY <1>2, ReaderHeard
<1>3. CASE FlushLoop \/ Rest \/ UNCHANGED vars
  <2>1. /\ attempt' = attempt /\ reader' = reader /\ full' = full /\ final' = final
        /\ heard' = heard /\ result' = result /\ pipe' = pipe
    BY <1>3 DEF FlushLoop, PassOver, Render, Post, Finish, Abort, Rest, vars, procVars,
                readerVars
  <2>2. CASE reader = "over"
    BY <2>1, <2>2, OverStays DEF HeardInv
  <2>3. CASE reader # "over"
    <3>1. pipe' \in Seq(Says(Flavors[attempt]) \cup {Noise})
      BY <2>1, <2>3 DEF HeardInv, Going
    <3> QED
      BY <2>1, <2>3, <3>1, GoesOn
  <2> QED
    BY <2>2, <2>3
<1> QED
  BY <1>1, <1>2, <1>3 DEF Next

(* What the CLI said is the answer, and a run that was read to its end     *)
(* fails only if it said nothing, whatever error events came in between.   *)
THEOREM NothingSaidIsLost == Spec => []NoTextLost
<1>1. Init => HeardInv
  <2> SUFFICES ASSUME Init PROVE HeardInv
    OBVIOUS
  <2>1. /\ pipe = <<>> /\ full = <<>> /\ final = None /\ heard = <<>>
        /\ reader = "spawning" /\ result = [st |-> "none", how |-> "", text |-> <<>>]
    BY Zenon DEF Init
  <2>2. HeardText = <<>>
    <3>1. Said(<<>>)[Len(<<>>)] = <<>>
      BY Empty, SaidJoined DEF Joined
    <3> QED
      BY <2>1, <3>1 DEF HeardText
  <2>3. FinalIsLast(None, <<>>)
    <3>1. DOMAIN <<>> = {} /\ None.given = FALSE
      BY DEF None
    <3> QED
      BY <3>1, Zenon DEF FinalIsLast
  <2>4. pipe \in Seq(Says(Flavors[attempt]) \cup {Noise})
    BY <2>1, Empty
  <2>5. Going
    BY <2>1, <2>2, <2>3, <2>4 DEF Going
  <2>6. NoTextLost
    BY <2>1, NoneYet
  <2> QED
    BY <2>5, <2>6 DEF HeardInv
<1>2. HeardInv => NoTextLost
  BY DEF HeardInv
<1> QED
  BY <1>1, <1>2, CliRunTyped, StepHeard, PTL DEF Spec
=============================================================================
