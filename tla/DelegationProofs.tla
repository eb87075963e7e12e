-------------------------- MODULE DelegationProofs --------------------------
(***************************************************************************)
(* Proofs about Delegation, for all jobs, profiles, chains, subagents,     *)
(* depths, rounds and permits.                                             *)
(*                                                                         *)
(* A step replaces the innermost call, ends it, or puts one on top. That   *)
(* permits are conserved needs that a call that has come back to its       *)
(* caller finds it among its tools, and not in a child (Waiting).          *)
(*                                                                         *)
(* That calls wind down is arithmetic: a tool call costs what a subagent   *)
(* may take and one more (CallCostIs), so that what a frame pays for the   *)
(* call it makes is more than the new frame begins with (PushPays).        *)
(***************************************************************************)
EXTENDS Delegation, Recursion, FiniteSetTheorems, TLAPS

(* Every call is at a backend its chain has.                               *)
InChain ==
  \A w \in Callers : \A i \in 1 .. Len(stack[w]) :
    stack[w][i].backend <= Len(Chain[stack[w][i].profile])

(* Calls below the innermost are at their tools.                           *)
Waiting ==
  \A w \in Callers : \A i \in 1 .. Len(stack[w]) - 1 : stack[w][i].pc = "tools"

StackInv ==
  /\ stack \in [Callers -> Seq(Frames)]
  /\ \A w \in Callers : Depth(w) <= MaxDepth
  /\ InChain /\ Waiting

InChild == {w \in Callers : Busy(w, "child")}

-----------------------------------------------------------------------------
(* Steps of a stack.                                                       *)

(* A backend of a chain begins with a frame.                               *)
LEMMA FrameType ==
  ASSUME NEW p \in Profiles, NEW t \in BOOLEAN, NEW b \in 1 .. Len(Chain[p])
  PROVE  /\ Frame(p, t, b) \in Frames
         /\ Frame(p, t, b).profile = p /\ Frame(p, t, b).backend = b
         /\ Frame(p, t, b).pc \in {"ask", "final", "queue"}
<1>1. Len(Chain[p]) \in 1 .. MaxChain /\ MaxChain \in Nat
  BY ChainAssumption
<1>2. b \in 1 .. MaxChain
  BY <1>1
<1>3. 0 \in 0 .. MaxRounds - 1 /\ 0 \in 0 .. MaxCalls
  BY NumberAssumption
<1> QED
  BY <1>2, <1>3 DEF Frame, Frames

(* The innermost call is a frame at a backend of its chain.                *)
LEMMA TopType ==
  ASSUME StackInv, NEW w \in Callers, stack[w] # << >>
  PROVE  /\ stack[w] \in Seq(Frames) /\ Len(stack[w]) \in Nat \ {0}
         /\ Top(w) \in Frames /\ Top(w).backend <= Len(Chain[Top(w).profile])
<1>1. stack[w] \in Seq(Frames)
  BY DEF StackInv
<1>2. Len(stack[w]) \in Nat \ {0}
  BY <1>1
<1>3. Len(stack[w]) \in 1 .. Len(stack[w])
  BY <1>2
<1>4. stack[w][Len(stack[w])] \in Frames
  BY <1>1, <1>3
<1>5. Top(w).backend <= Len(Chain[Top(w).profile])
  BY <1>3 DEF Top, StackInv, InChain
<1> QED
  BY <1>1, <1>2, <1>4, <1>5 DEF Top

(* The innermost call goes on.                                             *)
LEMMA GoStep ==
  ASSUME StackInv, NEW w \in Callers, stack[w] # << >>, NEW f \in Frames,
         f.backend <= Len(Chain[f.profile]), Go(w, f)
  PROVE  /\ StackInv'
         /\ \A v \in Callers : Busy(v, "child")' = IF v = w THEN f.pc = "child" ELSE Busy(v, "child")
<1> DEFINE s == stack[w]
           t == stack'[w]
<1>1. s \in Seq(Frames) /\ Len(s) \in Nat \ {0}
  BY TopType
<1>2. /\ t = [s EXCEPT ![Len(s)] = f]
      /\ \A v \in Callers : v # w => stack'[v] = stack[v]
      /\ DOMAIN stack' = Callers /\ stack' = [v \in Callers |-> stack'[v]]
  BY DEF Go, StackInv
<1>3. /\ t \in Seq(Frames) /\ Len(t) = Len(s) /\ t[Len(t)] = f
      /\ \A i \in 1 .. Len(s) - 1 : t[i] = s[i]
  BY <1>1, <1>2
<1>4. \A v \in Callers : stack'[v] \in Seq(Frames) /\ Len(stack'[v]) = Len(stack[v])
  BY <1>2, <1>3 DEF StackInv
<1>5. stack' \in [Callers -> Seq(Frames)]
  BY <1>2, <1>4
<1>6. \A v \in Callers : Depth(v)' <= MaxDepth
  BY <1>4 DEF StackInv, Depth, HostDepth
<1>7. InChain' /\ Waiting'
  <2>1. ASSUME NEW v \in Callers, NEW i \in 1 .. Len(stack'[v])
        PROVE  stack'[v][i].backend <= Len(Chain[stack'[v][i].profile])
    <3>1. CASE v # w
      BY <1>2, <2>1, <3>1 DEF StackInv, InChain
    <3>2. CASE v = w /\ i \in 1 .. Len(s) - 1
      <4>1. stack'[v][i] = s[i] /\ i \in 1 .. Len(s)
        BY <1>1, <1>3, <3>2
      <4> QED
        BY <4>1 DEF StackInv, InChain
    <3>3. CASE v = w /\ i = Len(s)
      BY <1>1, <1>3, <2>1, <3>3
    <3> QED
      BY <1>1, <1>3, <2>1, <3>1, <3>2, <3>3
  <2>2. ASSUME NEW v \in Callers, NEW i \in 1 .. Len(stack'[v]) - 1
        PROVE  stack'[v][i].pc = "tools"
    <3>1. CASE v # w
      BY <1>2, <2>2, <3>1 DEF StackInv, Waiting
    <3>2. CASE v = w
      BY <1>1, <1>3, <2>2, <3>2 DEF StackInv, Waiting
    <3> QED
      BY <3>1, <3>2
  <2> QED
    BY <2>1, <2>2 DEF InChain, Waiting
<1>8. t # << >>
  BY <1>1, <1>3
<1> QED
  BY <1>2, <1>3, <1>5, <1>6, <1>7, <1>8 DEF StackInv, Busy, Top

(* The innermost call returns: its caller is not in a child.               *)
LEMMA ReturnStep ==
  ASSUME StackInv, NEW w \in Callers, stack[w] # << >>, Return(w)
  PROVE  /\ StackInv'
         /\ \A v \in Callers : Busy(v, "child")' = IF v = w THEN FALSE ELSE Busy(v, "child")
<1> DEFINE s == stack[w]
           t == stack'[w]
<1>1. s \in Seq(Frames) /\ Len(s) \in Nat \ {0}
  BY TopType
<1>2. /\ t = SubSeq(s, 1, Len(s) - 1)
      /\ \A v \in Callers : v # w => stack'[v] = stack[v]
      /\ DOMAIN stack' = Callers /\ stack' = [v \in Callers |-> stack'[v]]
  BY DEF Return, StackInv
<1>3. /\ t \in Seq(Frames) /\ Len(t) = Len(s) - 1
      /\ \A i \in 1 .. Len(s) - 1 : t[i] = s[i]
  BY <1>1, <1>2
<1>4. \A v \in Callers : stack'[v] \in Seq(Frames) /\ Len(stack'[v]) <= Len(stack[v])
  BY <1>1, <1>2, <1>3 DEF StackInv
<1>5. stack' \in [Callers -> Seq(Frames)]
  BY <1>2, <1>4
<1>6. \A v \in Callers : Depth(v)' <= MaxDepth
  BY <1>4, NumberAssumption DEF StackInv, Depth, HostDepth
<1>7. InChain' /\ Waiting'
  <2>1. ASSUME NEW v \in Callers, NEW i \in 1 .. Len(stack'[v])
        PROVE  stack'[v][i].backend <= Len(Chain[stack'[v][i].profile])
    <3>1. CASE v # w
      BY <1>2, <2>1, <3>1 DEF StackInv, InChain
    <3>2. CASE v = w /\ i \in 1 .. Len(s) - 1
      <4>1. stack'[v][i] = s[i] /\ i \in 1 .. Len(s)
        BY <1>1, <1>3, <3>2
      <4> QED
        BY <4>1 DEF StackInv, InChain
    <3>3. CASE v = w /\ i = Len(s)
      BY <1>1, <1>3, <2>1, <3>3
    <3> QED
      BY <1>1, <1>3, <2>1, <3>1, <3>2, <3>3
  <2>2. ASSUME NEW v \in Callers, NEW i \in 1 .. Len(stack'[v]) - 1
        PROVE  stack'[v][i].pc = "tools"
    <3>1. CASE v # w
      BY <1>2, <2>2, <3>1 DEF StackInv, Waiting
    <3>2. CASE v = w
      BY <1>1, <1>3, <2>2, <3>2 DEF StackInv, Waiting
    <3> QED
      BY <3>1, <3>2
  <2> QED
    BY <2>1, <2>2 DEF InChain, Waiting
<1>8. ~Busy(w, "child")'
  BY <1>1, <1>3 DEF Busy, Top, StackInv, Waiting
<1>9. \A v \in Callers : v # w => Busy(v, "child")' = Busy(v, "child")
  BY <1>2 DEF Busy, Top
<1>10. \A v \in Callers : Busy(v, "child")' = IF v = w THEN FALSE ELSE Busy(v, "child")
  BY <1>8, <1>9 DEF Busy
<1> QED
  BY <1>5, <1>6, <1>7, <1>10 DEF StackInv

(* A call is put on top of one that is at its tools.                       *)
LEMMA PushStep ==
  ASSUME StackInv, NEW w \in Callers, Busy(w, "tools"), Top(w).calls > 0,
         Depth(w) < MaxDepth, NEW p \in Profiles, Push(w, p)
  PROVE  /\ StackInv'
         /\ \A v \in Callers : Busy(v, "child")' = Busy(v, "child")
<1> DEFINE s == stack[w]
           t == stack'[w]
           g == [s[Len(s)] EXCEPT !.calls = @ - 1]
           f == Frame(p, TRUE, 1)
<1>1. /\ s \in Seq(Frames) /\ Len(s) \in Nat \ {0} /\ s # << >>
      /\ Top(w) = s[Len(s)] /\ s[Len(s)] \in Frames
      /\ s[Len(s)].backend <= Len(Chain[s[Len(s)].profile])
  BY TopType DEF Busy, Top
<1>2. /\ f \in Frames /\ f.backend <= Len(Chain[f.profile]) /\ f.pc # "child"
  <2>1. 1 \in 1 .. Len(Chain[p]) /\ TRUE \in BOOLEAN
    BY ChainAssumption
  <2>2. /\ f \in Frames /\ f.profile = p /\ f.backend = 1
        /\ f.pc \in {"ask", "final", "queue"}
    BY <2>1, FrameType
  <2> HIDE DEF f
  <2>3. f.backend <= Len(Chain[f.profile])
    BY <2>1, <2>2
  <2>4. f.pc # "child"
    BY <2>2
  <2> QED
    BY <2>2, <2>3, <2>4
<1>3. /\ g \in Frames /\ g.pc = "tools" /\ g.backend = s[Len(s)].backend
      /\ g.profile = s[Len(s)].profile
  <2>1. s[Len(s)].calls > 0 /\ s[Len(s)].pc = "tools"
    BY <1>1 DEF Busy
  <2>2. s[Len(s)].calls - 1 \in 0 .. MaxCalls
    BY <1>1, <2>1, NumberAssumption DEF Frames
  <2> QED
    BY <1>1, <2>1, <2>2 DEF Frames
<1>4. /\ t = Append([s EXCEPT ![Len(s)] = g], f)
      /\ \A v \in Callers : v # w => stack'[v] = stack[v]
      /\ DOMAIN stack' = Callers /\ stack' = [v \in Callers |-> stack'[v]]
  BY DEF Push, StackInv, Top
<1>5. /\ t \in Seq(Frames) /\ Len(t) = Len(s) + 1 /\ t[Len(t)] = f /\ t[Len(s)] = g
      /\ \A i \in 1 .. Len(s) - 1 : t[i] = s[i]
  <2> HIDE DEF f, g
  <2> DEFINE h == [s EXCEPT ![Len(s)] = g]
  <2>1. /\ h \in Seq(Frames) /\ Len(h) = Len(s) /\ h[Len(s)] = g
        /\ \A i \in 1 .. Len(s) - 1 : h[i] = s[i]
    BY <1>1, <1>3
  <2>2. t = Append(h, f)
    BY <1>4
  <2> HIDE DEF h, t
  <2>3. t \in Seq(Frames) /\ Len(t) = Len(s) + 1 /\ t[Len(s) + 1] = f
    BY <1>1, <1>2, <2>1, <2>2
  <2>4. \A i \in 1 .. Len(s) : t[i] = h[i]
    BY <1>1, <1>2, <2>1, <2>2
  <2>5. Len(s) \in 1 .. Len(s) /\ \A i \in 1 .. Len(s) - 1 : i \in 1 .. Len(s)
    BY <1>1
  <2> QED
    BY <2>1, <2>3, <2>4, <2>5
<1>6. \A v \in Callers : stack'[v] \in Seq(Frames)
  BY <1>4, <1>5 DEF StackInv
<1>7. stack' \in [Callers -> Seq(Frames)]
  BY <1>4, <1>6
<1>8. \A v \in Callers : Depth(v)' <= MaxDepth
  <2>1. Depth(w)' <= MaxDepth
    BY <1>1, <1>5, NumberAssumption DEF Depth, HostDepth
  <2> QED
    BY <2>1, <1>4 DEF StackInv, Depth, HostDepth
<1>9. InChain' /\ Waiting'
  <2>1. ASSUME NEW v \in Callers, NEW i \in 1 .. Len(stack'[v])
        PROVE  stack'[v][i].backend <= Len(Chain[stack'[v][i].profile])
    <3>1. CASE v # w
      BY <1>4, <2>1, <3>1 DEF StackInv, InChain
    <3>2. CASE v = w /\ i \in 1 .. Len(s) - 1
      BY <1>1, <1>5, <2>1, <3>2 DEF StackInv, InChain
    <3>3. CASE v = w /\ i = Len(s)
      BY <1>1, <1>3, <1>5, <3>3
    <3>4. CASE v = w /\ i = Len(s) + 1
      BY <1>2, <1>5, <3>4
    <3> QED
      BY <1>1, <1>5, <2>1, <3>1, <3>2, <3>3, <3>4
  <2>2. ASSUME NEW v \in Callers, NEW i \in 1 .. Len(stack'[v]) - 1
        PROVE  stack'[v][i].pc = "tools"
    <3>1. CASE v # w
      BY <1>4, <2>2, <3>1 DEF StackInv, Waiting
    <3>2. CASE v = w /\ i # Len(s)
      BY <1>1, <1>5, <2>2, <3>2 DEF StackInv, Waiting
    <3>3. CASE v = w /\ i = Len(s)
      BY <1>1, <1>3, <1>5, <3>3
    <3> QED
      BY <3>1, <3>2, <3>3
  <2> QED
    BY <2>1, <2>2 DEF InChain, Waiting
<1>10. Busy(w, "child")' = Busy(w, "child")
  BY <1>1, <1>2, <1>5 DEF Busy, Top
<1> QED
  BY <1>4, <1>7, <1>8, <1>9, <1>10 DEF StackInv, Busy, Top

(* A backend fails: another begins, or the call returns.                   *)
LEMMA FailStep ==
  ASSUME StackInv, NEW w \in Callers, stack[w] # << >>, Fail(w)
  PROVE  /\ StackInv'
         /\ \A v \in Callers : Busy(v, "child")' = IF v = w THEN FALSE ELSE Busy(v, "child")
<1>1. CASE Top(w).backend = Len(Chain[Top(w).profile])
  BY <1>1, ReturnStep DEF Fail
<1>2. CASE Top(w).backend # Len(Chain[Top(w).profile])
  <2> DEFINE f == Frame(Top(w).profile, Top(w).tooled, Top(w).backend + 1)
  <2>1. /\ Top(w).profile \in Profiles /\ Top(w).tooled \in BOOLEAN
        /\ Top(w).backend \in 1 .. MaxChain /\ Top(w).backend <= Len(Chain[Top(w).profile])
    BY TopType DEF Frames
  <2>2. Len(Chain[Top(w).profile]) \in Nat /\ MaxChain \in Nat
    BY <2>1, ChainAssumption
  <2>3. Top(w).backend + 1 \in 1 .. Len(Chain[Top(w).profile])
    BY <1>2, <2>1, <2>2
  <2>4. /\ f \in Frames /\ f.backend <= Len(Chain[f.profile]) /\ f.pc # "child"
    BY <2>1, <2>2, <2>3, FrameType
  <2>5. Go(w, f)
    BY <1>2 DEF Fail
  <2> QED
    BY <2>4, <2>5, GoStep
<1> QED
  BY <1>1, <1>2

-----------------------------------------------------------------------------
(* Permits.                                                                *)

(* Callers are finitely many.                                              *)
LEMMA CallersFinite == IsFiniteSet(Callers) /\ \A S \in SUBSET Callers :
  IsFiniteSet(S) /\ Cardinality(S) \in Nat
BY CallerAssumption, FS_AddElement, FS_Subset, FS_CardinalityType DEF Callers

(* A caller that begins or ends a child changes their number by one.       *)
LEMMA CountChildren ==
  ASSUME NEW w \in Callers, NEW b \in BOOLEAN,
         \A v \in Callers : Busy(v, "child")' = IF v = w THEN b ELSE Busy(v, "child")
  PROVE  /\ Busy(w, "child") /\ ~b => Cardinality(InChild)' = Cardinality(InChild) - 1
         /\ ~Busy(w, "child") /\ b => Cardinality(InChild)' = Cardinality(InChild) + 1
         /\ Busy(w, "child") = b   => Cardinality(InChild)' = Cardinality(InChild)
<1>1. IsFiniteSet(InChild) /\ Cardinality(InChild) \in Nat
  BY CallersFinite DEF InChild
<1>2. CASE Busy(w, "child") /\ ~b
  <2>1. InChild' = InChild \ {w} /\ w \in InChild
    BY <1>2 DEF InChild
  <2> QED
    BY <1>1, <1>2, <2>1, FS_RemoveElement
<1>3. CASE ~Busy(w, "child") /\ b
  <2>1. InChild' = InChild \cup {w} /\ w \notin InChild
    BY <1>3 DEF InChild
  <2> QED
    BY <1>1, <1>3, <2>1, FS_AddElement
<1>4. CASE Busy(w, "child") = b
  <2>1. InChild' = InChild
    BY <1>4 DEF InChild
  <2> QED
    BY <1>4, <2>1
<1> QED
  BY <1>2, <1>3, <1>4 DEF Busy

(* What a step of a caller has to keep.                                    *)
Kept == StackInv /\ permits \in 0 .. MaxChildren /\ PermitsConserved

(* A step that neither begins nor ends a child.                            *)
LEMMA SamePermits ==
  ASSUME Kept, StackInv', UNCHANGED permits, NEW w \in Callers, NEW b \in BOOLEAN,
         Busy(w, "child") = b,
         \A v \in Callers : Busy(v, "child")' = IF v = w THEN b ELSE Busy(v, "child")
  PROVE  Kept'
<1>1. Cardinality(InChild)' = Cardinality(InChild)
  BY CountChildren
<1> QED
  BY <1>1 DEF Kept, PermitsConserved, InChild

(* Every step of a caller keeps it.                                        *)
LEMMA CallerStep ==
  ASSUME Kept, NEW w \in Callers,
         ServerStep(w) \/ OwnStep(w) \/ ChildRefused(w) \/ ChildStart(w) \/ ChildEnds(w)
  PROVE  Kept' /\ UNCHANGED <<inbox, sent>>
<1>1. ASSUME NEW pc \in {"ask", "tools", "final", "queue"}, Busy(w, pc)
      PROVE  ~Busy(w, "child") /\ stack[w] # << >>
  BY <1>1 DEF Busy
<1>2. ASSUME RequestFails(w) \/ ChildRefused(w)
      PROVE  Kept' /\ UNCHANGED <<inbox, sent>>
  <2>1. ~Busy(w, "child") /\ stack[w] # << >> /\ Fail(w) /\ UNCHANGED <<permits, inbox, sent>>
    BY <1>1, <1>2 DEF RequestFails, ChildRefused
  <2>2. StackInv' /\ \A v \in Callers : Busy(v, "child")' = IF v = w THEN FALSE ELSE Busy(v, "child")
    BY <2>1, FailStep DEF Kept
  <2>3. Busy(w, "child") = FALSE
    BY <2>1 DEF Busy
  <2> QED
    BY <2>1, <2>2, <2>3, SamePermits
<1>3. ASSUME Answer(w)
      PROVE  Kept' /\ UNCHANGED <<inbox, sent>>
  <2>1. ~Busy(w, "child") /\ stack[w] # << >> /\ Return(w) /\ UNCHANGED <<permits, inbox, sent>>
    BY <1>1, <1>3 DEF Answer
  <2>2. StackInv' /\ \A v \in Callers : Busy(v, "child")' = IF v = w THEN FALSE ELSE Busy(v, "child")
    BY <2>1, ReturnStep DEF Kept
  <2>3. Busy(w, "child") = FALSE
    BY <2>1 DEF Busy
  <2> QED
    BY <2>1, <2>2, <2>3, SamePermits
<1>4. ASSUME NEW f \in Frames, f.backend <= Len(Chain[f.profile]), f.pc # "child",
             Go(w, f), ~Busy(w, "child"), stack[w] # << >>, UNCHANGED permits
      PROVE  Kept'
  <2>1. StackInv' /\ \A v \in Callers : Busy(v, "child")' = IF v = w THEN FALSE ELSE Busy(v, "child")
    BY <1>4, GoStep DEF Kept
  <2>2. Busy(w, "child") = FALSE
    BY <1>4 DEF Busy
  <2> QED
    BY <1>4, <2>1, <2>2, SamePermits
<1>5. ASSUME stack[w] # << >>
      PROVE  /\ \A n \in 0 .. MaxCalls, pc \in {"ask", "tools", "final", "queue", "child"} :
                  LET f == [Top(w) EXCEPT !.pc = pc, !.calls = n]
                  IN f \in Frames /\ f.backend <= Len(Chain[f.profile]) /\ f.pc = pc
             /\ \A n \in 0 .. MaxCalls :
                  LET f == [Top(w) EXCEPT !.calls = n]
                  IN f \in Frames /\ f.backend <= Len(Chain[f.profile]) /\ f.pc = Top(w).pc
             /\ \A n \in 0 .. MaxRounds - 1, pc \in {"ask", "tools", "final", "queue", "child"} :
                  LET f == [Top(w) EXCEPT !.pc = pc, !.round = n]
                  IN f \in Frames /\ f.backend <= Len(Chain[f.profile]) /\ f.pc = pc
             /\ \A pc \in {"ask", "tools", "final", "queue", "child"} :
                  LET f == [Top(w) EXCEPT !.pc = pc]
                  IN f \in Frames /\ f.backend <= Len(Chain[f.profile]) /\ f.pc = pc
             /\ Top(w).calls \in 0 .. MaxCalls /\ Top(w).round \in 0 .. MaxRounds - 1
  BY <1>5, TopType DEF Kept, Frames
<1>6. ASSUME AnswerEmpty(w)
      PROVE  Kept' /\ UNCHANGED <<inbox, sent>>
  BY <1>1, <1>4, <1>5, <1>6 DEF AnswerEmpty
<1>7. ASSUME AnswerCalls(w)
      PROVE  Kept' /\ UNCHANGED <<inbox, sent>>
  <2>1. PICK n \in 0 .. MaxCalls : Go(w, [Top(w) EXCEPT !.pc = "tools", !.calls = n])
    BY <1>7 DEF AnswerCalls
  <2> QED
    BY <1>1, <1>4, <1>5, <1>7, <2>1 DEF AnswerCalls
<1>8. ASSUME Tool(w)
      PROVE  Kept' /\ UNCHANGED <<inbox, sent>>
  <2>1. stack[w] # << >> /\ ~Busy(w, "child") /\ Top(w).pc = "tools"
    BY <1>8 DEF Tool, Busy
  <2>2. Top(w).calls \in 0 .. MaxCalls /\ Top(w).calls > 0
    BY <1>5, <1>8, <2>1 DEF Tool
  <2>3. Top(w).calls - 1 \in 0 .. MaxCalls
    BY <2>2, NumberAssumption
  <2> QED
    BY <1>4, <1>5, <1>8, <2>1, <2>3 DEF Tool
<1>9. ASSUME NextRound(w)
      PROVE  Kept' /\ UNCHANGED <<inbox, sent>>
  <2>1. stack[w] # << >> /\ ~Busy(w, "child")
    BY <1>9 DEF NextRound, Busy
  <2>2. CASE Top(w).round + 1 < MaxRounds
    <3>1. Top(w).round \in 0 .. MaxRounds - 1
      BY <1>5, <2>1
    <3>2. Top(w).round + 1 \in 0 .. MaxRounds - 1
      BY <2>2, <3>1, NumberAssumption
    <3> QED
      BY <1>4, <1>5, <1>9, <2>1, <2>2, <3>2 DEF NextRound
  <2>3. CASE ~(Top(w).round + 1 < MaxRounds)
    BY <1>4, <1>5, <1>9, <2>1, <2>3 DEF NextRound
  <2> QED
    BY <2>2, <2>3
<1>10. ASSUME NEW a \in Agents, Delegate(w, a)
       PROVE  Kept' /\ UNCHANGED <<inbox, sent>>
  <2>1. Busy(w, "child") = FALSE
    BY <1>10 DEF Delegate, Busy
  <2>2. AgentProfile[a] \in Profiles
    BY AgentAssumption
  <2>3. StackInv' /\ \A v \in Callers : Busy(v, "child")' = Busy(v, "child")
    BY <1>10, <2>2, PushStep DEF Delegate, Kept
  <2>4. \A v \in Callers : Busy(v, "child")' = IF v = w THEN FALSE ELSE Busy(v, "child")
    BY <2>1, <2>3
  <2> QED
    BY <1>10, <2>1, <2>3, <2>4, SamePermits DEF Delegate
<1>11. ASSUME ChildStart(w)
       PROVE  Kept' /\ UNCHANGED <<inbox, sent>>
  <2>1. stack[w] # << >> /\ ~Busy(w, "child")
    BY <1>11 DEF ChildStart, Busy
  <2> DEFINE f == [Top(w) EXCEPT !.pc = "child"]
  <2>2. f \in Frames /\ f.backend <= Len(Chain[f.profile]) /\ f.pc = "child" /\ Go(w, f)
    BY <1>5, <1>11, <2>1 DEF ChildStart
  <2> HIDE DEF f
  <2>3. StackInv' /\ \A v \in Callers : Busy(v, "child")' = IF v = w THEN TRUE ELSE Busy(v, "child")
    BY <2>1, <2>2, GoStep DEF Kept
  <2>4. Cardinality(InChild)' = Cardinality(InChild) + 1
    BY <2>1, <2>3, CountChildren
  <2>5. permits' = permits - 1 /\ permits > 0 /\ UNCHANGED <<inbox, sent>>
    BY <1>11 DEF ChildStart
  <2>6. permits \in 0 .. MaxChildren /\ permits + Cardinality(InChild) = MaxChildren
    BY DEF Kept, PermitsConserved, InChild
  <2>7. Cardinality(InChild) \in Nat
    BY CallersFinite DEF InChild
  <2>8. permits' \in 0 .. MaxChildren /\ permits' + Cardinality(InChild)' = MaxChildren
    BY <2>4, <2>5, <2>6, <2>7, NumberAssumption
  <2> QED
    BY <2>3, <2>5, <2>8 DEF Kept, PermitsConserved, InChild
<1>12. ASSUME ChildEnds(w)
       PROVE  Kept' /\ UNCHANGED <<inbox, sent>>
  <2>1. stack[w] # << >> /\ Busy(w, "child") /\ (Return(w) \/ Fail(w))
    BY <1>12 DEF ChildEnds, ChildExit, ChildFails, Busy
  <2>2. StackInv' /\ \A v \in Callers : Busy(v, "child")' = IF v = w THEN FALSE ELSE Busy(v, "child")
    BY <2>1, ReturnStep, FailStep DEF Kept
  <2>3. Cardinality(InChild)' = Cardinality(InChild) - 1
    BY <2>1, <2>2, CountChildren
  <2>4. permits' = permits + 1 /\ UNCHANGED <<inbox, sent>>
    BY <1>12 DEF ChildEnds, ChildExit, ChildFails
  <2>5. permits \in 0 .. MaxChildren /\ permits + Cardinality(InChild) = MaxChildren
    BY DEF Kept, PermitsConserved, InChild
  <2>6. Cardinality(InChild) \in Nat /\ Cardinality(InChild)' \in Nat
    BY CallersFinite DEF InChild
  <2>7. permits' \in 0 .. MaxChildren /\ permits' + Cardinality(InChild)' = MaxChildren
    BY <2>3, <2>4, <2>5, <2>6, NumberAssumption
  <2> QED
    BY <2>2, <2>4, <2>7 DEF Kept, PermitsConserved, InChild
<1> QED
  BY <1>2, <1>3, <1>6, <1>7, <1>8, <1>9, <1>10, <1>11, <1>12
  DEF ServerStep, OwnStep

(* A caller that has no call begins one.                                   *)
LEMMA FirstCall ==
  ASSUME Kept, NEW w \in Callers, stack[w] = << >>, NEW p \in Profiles, NEW t \in BOOLEAN,
         stack' = [stack EXCEPT ![w] = <<Frame(p, t, 1)>>], UNCHANGED permits
  PROVE  Kept'
<1> DEFINE f == Frame(p, t, 1)
<1>1. 1 \in 1 .. Len(Chain[p])
  BY ChainAssumption
<1>2. f \in Frames /\ f.profile = p /\ f.backend = 1 /\ f.pc # "child"
  BY <1>1, FrameType
<1> HIDE DEF f
<1>3. /\ stack \in [Callers -> Seq(Frames)] /\ stack'[w] = <<f>>
      /\ \A v \in Callers : v # w => stack'[v] = stack[v]
      /\ DOMAIN stack' = Callers /\ stack' = [v \in Callers |-> stack'[v]]
  BY DEF Kept, StackInv, f
<1>4. Len(<<f>>) = 1 /\ <<f>>[1] = f /\ <<f>> \in Seq(Frames) /\ <<f>> # << >>
  BY <1>2
<1>5. stack' \in [Callers -> Seq(Frames)]
  BY <1>3, <1>4
<1>6. \A v \in Callers : Depth(v)' <= MaxDepth
  <2>1. Depth(w)' <= MaxDepth
    BY <1>3, <1>4, NumberAssumption DEF Depth, HostDepth
  <2> QED
    BY <2>1, <1>3 DEF Kept, StackInv, Depth, HostDepth
<1>7. InChain'
  <2>1. ASSUME NEW v \in Callers, NEW i \in 1 .. Len(stack'[v])
        PROVE  stack'[v][i].backend <= Len(Chain[stack'[v][i].profile])
    <3>1. CASE v # w
      BY <1>3, <2>1, <3>1 DEF Kept, StackInv, InChain
    <3>2. CASE v = w
      <4>1. i = 1 /\ stack'[v][i] = f
        BY <1>3, <1>4, <2>1, <3>2
      <4>2. f.backend <= Len(Chain[f.profile])
        BY <1>1, <1>2
      <4> QED
        BY <4>1, <4>2
    <3> QED
      BY <3>1, <3>2
  <2> QED
    BY <2>1 DEF InChain
<1>8. Waiting'
  <2>1. ASSUME NEW v \in Callers, NEW i \in 1 .. Len(stack'[v]) - 1
        PROVE  stack'[v][i].pc = "tools"
    <3>1. CASE v # w
      BY <1>3, <2>1, <3>1 DEF Kept, StackInv, Waiting
    <3>2. CASE v = w
      BY <1>3, <1>4, <2>1, <3>2
    <3> QED
      BY <3>1, <3>2
  <2> QED
    BY <2>1 DEF Waiting
<1>9. Busy(w, "child") = FALSE
  BY DEF Busy
<1>10. Busy(w, "child")' = FALSE
  BY <1>2, <1>3, <1>4 DEF Busy, Top
<1>11. \A v \in Callers : Busy(v, "child")' = IF v = w THEN FALSE ELSE Busy(v, "child")
  BY <1>3, <1>10 DEF Busy, Top
<1>12. StackInv'
  BY <1>5, <1>6, <1>7, <1>8 DEF StackInv
<1> QED
  BY <1>9, <1>11, <1>12, SamePermits

(* A step that touches neither calls nor permits keeps everything.         *)
LEMMA Untouched == Kept /\ UNCHANGED <<stack, permits>> => Kept'
BY DEF Kept, StackInv, InChain, Waiting, Depth, HostDepth, PermitsConserved, Busy, Top

-----------------------------------------------------------------------------
(* The theorems.                                                           *)

(* Commands on their way are commands, as many as were sent at most.       *)
Mail == inbox \in Seq(Commands) /\ sent \in 0 .. MaxCommands

(* The invariant, which implies the types and the conservation of permits. *)
THEOREM DelegationInvariance == Spec => [](Kept /\ Mail)
<1>1. Init => Kept /\ Mail
  <2> SUFFICES ASSUME Init PROVE Kept /\ Mail
    OBVIOUS
  <2>1. StackInv
    BY NumberAssumption DEF Init, StackInv, InChain, Waiting, Depth, HostDepth
  <2>2. InChild = {}
    BY DEF Init, InChild, Busy
  <2>3. permits \in 0 .. MaxChildren /\ PermitsConserved
    BY <2>2, NumberAssumption, FS_EmptySet DEF Init, PermitsConserved, InChild
  <2> QED
    BY <2>1, <2>3, NumberAssumption DEF Init, Kept, Mail
<1>2. Kept /\ Mail /\ [Next]_vars => Kept' /\ Mail'
  <2> SUFFICES ASSUME Kept, Mail, [Next]_vars PROVE Kept' /\ Mail'
    OBVIOUS
  <2>1. ASSUME NEW w \in Callers,
               ServerStep(w) \/ OwnStep(w) \/ ChildRefused(w) \/ ChildStart(w) \/ ChildEnds(w)
        PROVE  Kept' /\ Mail'
    BY <2>1, CallerStep DEF Mail
  <2>2. ASSUME NEW j \in Jobs, NEW p \in Profiles, StartJob(j, p)
        PROVE  Kept' /\ Mail'
    <3>1. j \in Callers /\ TRUE \in BOOLEAN
      BY DEF Callers
    <3> QED
      BY <2>2, <3>1, FirstCall DEF StartJob, Mail
  <2>3. ASSUME NEW c \in Commands, Send(c)
        PROVE  Kept' /\ Mail'
    <3>1. inbox' \in Seq(Commands) /\ sent' \in 0 .. MaxCommands
      BY <2>3, NumberAssumption DEF Send, Mail
    <3> QED
      BY <2>3, <3>1, Untouched DEF Send, Mail
  <2>4. ASSUME Handle
        PROVE  Kept' /\ Mail'
    <3>1. inbox \in Seq(Commands) /\ inbox # << >>
      BY <2>4 DEF Handle, Mail
    <3>2. inbox' \in Seq(Commands) /\ Head(inbox) \in Commands
      BY <2>4, <3>1 DEF Handle
    <3>3. PICK call \in Called(Head(inbox)) : stack' = [stack EXCEPT ![Loop] = call]
      BY <2>4 DEF Handle
    <3>4. Loop \in Callers /\ stack[Loop] = << >> /\ UNCHANGED <<permits, sent>>
      BY <2>4 DEF Callers, Handle
    <3>5. CASE call = << >>
      <4>1. stack' = stack
        BY <3>3, <3>4, <3>5 DEF Kept, StackInv
      <4> QED
        BY <3>2, <3>4, <4>1, Untouched DEF Mail
    <3>6. CASE call # << >>
      <4>1. PICK p \in Profiles, t \in BOOLEAN : call = <<Frame(p, t, 1)>>
        <5>1. CASE Head(inbox).kind = "agent"
          <6>1. Head(inbox).of \in Agents
            BY <3>2, <5>1 DEF Commands
          <6>2. AgentProfile[Head(inbox).of] \in Profiles
            BY <6>1, AgentAssumption
          <6>3. call = <<Frame(AgentProfile[Head(inbox).of], TRUE, 1)>>
            BY <3>6, <5>1 DEF Called
          <6> QED
            BY <6>2, <6>3
        <5>2. CASE Head(inbox).kind = "suggest"
          <6>1. Head(inbox).of \in Profiles
            BY <3>2, <5>2 DEF Commands
          <6>2. call = <<Frame(Head(inbox).of, FALSE, 1)>>
            BY <3>6, <5>2 DEF Called
          <6> QED
            BY <6>1, <6>2
        <5>3. Head(inbox).kind \in {"agent", "suggest"}
          BY <3>6 DEF Called
        <5> QED
          BY <5>1, <5>2, <5>3
      <4>2. Kept'
        BY <3>3, <3>4, <4>1, FirstCall
      <4> QED
        BY <3>2, <3>4, <4>2 DEF Mail
    <3> QED
      BY <3>5, <3>6
  <2>5. ASSUME UNCHANGED vars
        PROVE  Kept' /\ Mail'
    BY <2>5, Untouched DEF vars, Mail
  <2> QED
    BY <2>1, <2>2, <2>3, <2>4, <2>5 DEF Next
<1> QED
  BY <1>1, <1>2, PTL DEF Spec

(* Every call has its type, and no subagent is nested deeper than the      *)
(* limit.                                                                  *)
THEOREM DepthLimited == Spec => []TypeOK
<1>1. Kept /\ Mail => TypeOK
  BY DEF Kept, StackInv, Mail, TypeOK
<1> QED
  BY <1>1, DelegationInvariance, PTL

(* Free permits and children add up to the cap, with callers that wait for *)
(* subagents holding none.                                                 *)
THEOREM ChildrenConserved == Spec => []PermitsConserved
<1>1. Kept /\ Mail => PermitsConserved
  BY DEF Kept
<1> QED
  BY <1>1, DelegationInvariance, PTL

-----------------------------------------------------------------------------
(* Calls wind down. The numbers first: what a call costs.                  *)

LEMMA Times ==
  ASSUME NEW a \in Nat, NEW b \in Nat, NEW c \in Nat
  PROVE  /\ a * b \in Nat /\ 0 * b = 0 /\ 1 * b = b
         /\ (a + 1) * b = a * b + b
         /\ a <= c => a * b <= c * b
<1>1. a * b \in Nat /\ 0 * b = 0 /\ 1 * b = b
  OBVIOUS
<1>2. (a + 1) * b = a * b + b
  OBVIOUS
<1>3. ASSUME a <= c PROVE a * b <= c * b
  <2>1. PICK d \in Nat : c = a + d
    BY <1>3
  <2>2. (a + d) * b = a * b + d * b /\ d * b \in Nat /\ a * b \in Nat
    OBVIOUS
  <2> QED
    BY <2>1, <2>2
<1> QED
  BY <1>1, <1>2, <1>3

LEMMA CostTypes ==
  ASSUME NEW call \in Nat
  PROVE  /\ RoundCost(call) \in Nat /\ BackendCost(call) \in Nat
         /\ MaxChain * BackendCost(call) \in Nat
<1>1. MaxCalls * call \in Nat /\ MaxRounds \in Nat /\ MaxChain \in Nat
  BY Times, NumberAssumption, ChainAssumption
<1>2. RoundCost(call) \in Nat
  BY <1>1 DEF RoundCost
<1>3. MaxRounds * RoundCost(call) \in Nat
  BY <1>1, <1>2, Times
<1>4. BackendCost(call) \in Nat
  BY <1>3 DEF BackendCost
<1> QED
  BY <1>1, <1>2, <1>4, Times

LEMMA WholeFollows ==
  \A n \in 0 .. MaxDepth :
    Whole[n] \in Nat /\ Whole[n] = MaxChain * BackendCost(IF n = 0 THEN 1 ELSE 1 + Whole[n - 1])
<1> DEFINE first == MaxChain * BackendCost(1)
           step == [p \in (1 .. MaxDepth) \X Nat |-> MaxChain * BackendCost(1 + p[2])]
           next(f) == [n \in 0 .. MaxDepth |->
             MaxChain * BackendCost(IF n = 0 THEN 1 ELSE 1 + f[n - 1])]
<1>1. MaxDepth \in Nat /\ first \in Nat
  BY NumberAssumption, CostTypes
<1>2. step \in [(1 .. MaxDepth) \X Nat -> Nat]
  <2> SUFFICES ASSUME NEW p \in (1 .. MaxDepth) \X Nat
               PROVE  MaxChain * BackendCost(1 + p[2]) \in Nat
    OBVIOUS
  <2>1. 1 + p[2] \in Nat
    OBVIOUS
  <2> QED
    BY <2>1, CostTypes
<1>3. PICK f \in [0 .. MaxDepth -> Nat] : Follows(f, MaxDepth, first, step)
  <2> HIDE DEF first, step
  <2> QED
    BY <1>1, <1>2, RecursionExists
<1>4. f = next(f)
  <2>1. f[0] = first /\ 0 \in 0 .. MaxDepth
        /\ \A n \in 0 .. MaxDepth : n = 0 \/ n \in 1 .. MaxDepth
    BY <1>1, <1>3 DEF Follows
  <2>2. ASSUME NEW n \in 1 .. MaxDepth PROVE f[n] = next(f)[n]
    <3>1. f[n] = step[<<n, f[n - 1]>>]
      BY <1>3, Zenon DEF Follows
    <3>2. n - 1 \in 0 .. MaxDepth /\ n \in 0 .. MaxDepth /\ n # 0
      BY <1>1
    <3>3. <<n, f[n - 1]>> \in (1 .. MaxDepth) \X Nat
      BY <1>3, <3>2
    <3>4. f[n] = MaxChain * BackendCost(1 + f[n - 1])
      BY <3>1, <3>3
    <3> QED
      BY <3>2, <3>4, Zenon
  <2>3. \A n \in 0 .. MaxDepth : f[n] = next(f)[n]
    BY <2>1, <2>2
  <2> QED
    BY <1>3, <2>3
<1>5. PICK whole : whole = Whole
  OBVIOUS
<1>6. whole = next(whole)
  BY <1>4, <1>5, Zenon DEF Whole
<1>7. \A n \in 0 .. MaxDepth :
        whole[n] = MaxChain * BackendCost(IF n = 0 THEN 1 ELSE 1 + whole[n - 1])
  BY <1>6, Zenon
<1>8. \A n \in 0 .. MaxDepth : whole[n] \in Nat
  <2> DEFINE T == {n \in 0 .. MaxDepth : whole[n] \in Nat}
  <2>1. 0 \in T
    <3>1. 0 \in 0 .. MaxDepth /\ whole[0] = first
      BY <1>1, <1>7
    <3> QED
      BY <1>1, <3>1
  <2>2. ASSUME NEW n \in 1 .. MaxDepth, n - 1 \in T PROVE n \in T
    <3>1. n \in 0 .. MaxDepth /\ n # 0
      BY <1>1
    <3>2. whole[n] = MaxChain * BackendCost(1 + whole[n - 1])
      BY <1>7, <3>1
    <3>3. 1 + whole[n - 1] \in Nat
      BY <2>2
    <3> QED
      BY <3>1, <3>2, <3>3, CostTypes
  <2> HIDE DEF T
  <2>3. 0 .. MaxDepth \subseteq T
    BY <1>1, <2>1, <2>2, InductionUpTo
  <2> QED
    BY <2>3 DEF T
<1> QED
  BY <1>5, <1>7, <1>8

(* A tool call costs at least a step, and one that begins a subagent that  *)
(* subagent's whole call besides.                                          *)
LEMMA CallCostIs ==
  ASSUME NEW n \in 0 .. MaxDepth
  PROVE  /\ CallCost(n) \in Nat \ {0}
         /\ n # 0 => CallCost(n) = 1 + MaxChain * BackendCost(CallCost(n - 1))
<1>1. CASE n = 0
  BY <1>1 DEF CallCost
<1>2. CASE n # 0
  <2>1. n - 1 \in 0 .. MaxDepth
    BY <1>2, NumberAssumption
  <2>2. /\ Whole[n - 1] \in Nat
        /\ Whole[n - 1] = MaxChain * BackendCost(CallCost(n - 1))
    BY <2>1, WholeFollows, Zenon DEF CallCost
  <2>3. CallCost(n) = 1 + Whole[n - 1]
    BY <1>2 DEF CallCost
  <2> QED
    BY <2>2, <2>3
<1> QED
  BY <1>1, <1>2

(* What is to come of a frame: of the later backends, of the later rounds, *)
(* and of the tool calls of this one.                                      *)
Later(f, n) == (Len(Chain[f.profile]) - f.backend) * BackendCost(CallCost(n))
Rest(f, n)  == (MaxRounds - f.round - 1) * RoundCost(CallCost(n))
Tools(f, n) == f.calls * CallCost(n)

LEMMA FrameLeftIs ==
  ASSUME NEW f \in Frames, f.backend <= Len(Chain[f.profile]), NEW n \in 0 .. MaxDepth
  PROVE  /\ Later(f, n) \in Nat /\ Rest(f, n) \in Nat /\ Tools(f, n) \in Nat
         /\ f.pc = "ask" =>
              FrameLeft(f, n) = Later(f, n) + (Rest(f, n) + RoundCost(CallCost(n)) + 2)
         /\ f.pc = "tools" => FrameLeft(f, n) = Later(f, n) + (Rest(f, n) + Tools(f, n) + 3)
         /\ f.pc = "queue" => FrameLeft(f, n) = Later(f, n) + 2
         /\ f.pc \in {"final", "child"} => FrameLeft(f, n) = Later(f, n) + 1
<1>1. PICK call \in Nat : call = CallCost(n)
  BY CallCostIs
<1>2. RoundCost(call) \in Nat /\ BackendCost(call) \in Nat
  BY <1>1, CostTypes
<1>3. /\ f.profile \in Profiles /\ f.backend \in Nat /\ f.round \in 0 .. MaxRounds - 1
      /\ f.calls \in Nat /\ MaxRounds \in Nat
  BY NumberAssumption, ChainAssumption DEF Frames
<1>4. Len(Chain[f.profile]) \in Nat
  BY <1>3, ChainAssumption
<1>5. PICK a \in Nat : a = Len(Chain[f.profile]) - f.backend
  BY <1>3, <1>4
<1>6. PICK b \in Nat : b = MaxRounds - f.round - 1 /\ MaxRounds - f.round = b + 1
  BY <1>3
<1>7. PICK later \in Nat : later = a * BackendCost(call) /\ later = Later(f, n)
  BY <1>1, <1>2, <1>5, Times DEF Later
<1>8. PICK rest \in Nat : rest = b * RoundCost(call) /\ rest = Rest(f, n)
  BY <1>1, <1>2, <1>6, Times DEF Rest
<1>9. PICK tools \in Nat : tools = f.calls * call /\ tools = Tools(f, n)
  BY <1>1, <1>3, Times DEF Tools
<1>10. (MaxRounds - f.round) * RoundCost(call) = rest + RoundCost(call)
  BY <1>2, <1>6, <1>8, Times
<1>11. FrameLeft(f, n) =
         Later(f, n) + CASE f.pc = "ask"   -> (MaxRounds - f.round) * RoundCost(call) + 2
                         [] f.pc = "tools" -> Rest(f, n) + Tools(f, n) + 3
                         [] f.pc = "queue" -> 2
                         [] OTHER          -> 1
  BY <1>1, Zenon DEF FrameLeft, Later, Rest, Tools
<1>12. f.pc = "ask" => FrameLeft(f, n) = later + (rest + RoundCost(call) + 2)
  BY <1>7, <1>10, <1>11
<1>13. f.pc = "tools" => FrameLeft(f, n) = later + (rest + tools + 3)
  BY <1>7, <1>8, <1>9, <1>11
<1>14. f.pc = "queue" => FrameLeft(f, n) = later + 2
  BY <1>7, <1>11
<1>15. f.pc \in {"final", "child"} => FrameLeft(f, n) = later + 1
  BY <1>7, <1>11
<1> QED
  BY <1>1, <1>7, <1>8, <1>9, <1>12, <1>13, <1>14, <1>15, Zenon

(* There is a step left of every call, and more than later backends take.  *)
LEMMA FrameLeftType ==
  ASSUME NEW f \in Frames, f.backend <= Len(Chain[f.profile]), NEW n \in 0 .. MaxDepth
  PROVE  FrameLeft(f, n) \in Nat \ {0} /\ Later(f, n) \in Nat /\ Later(f, n) < FrameLeft(f, n)
<1>1. RoundCost(CallCost(n)) \in Nat
  BY CallCostIs, CostTypes
<1>2. f.pc \in {"ask", "tools", "final", "queue", "child"}
  BY DEF Frames
<1>3. PICK later, rest, tools : later = Later(f, n) /\ rest = Rest(f, n) /\ tools = Tools(f, n)
  OBVIOUS
<1>4. /\ later \in Nat /\ rest \in Nat /\ tools \in Nat
      /\ f.pc = "ask" => FrameLeft(f, n) = later + (rest + RoundCost(CallCost(n)) + 2)
      /\ f.pc = "tools" => FrameLeft(f, n) = later + (rest + tools + 3)
      /\ f.pc = "queue" => FrameLeft(f, n) = later + 2
      /\ f.pc \in {"final", "child"} => FrameLeft(f, n) = later + 1
  BY <1>3, FrameLeftIs
<1>5. FrameLeft(f, n) \in Nat /\ later < FrameLeft(f, n)
  BY <1>1, <1>2, <1>4
<1> QED
  BY <1>3, <1>4, <1>5

(* A step within a call uses up some of it.                                *)
LEMMA FramePays ==
  ASSUME NEW f \in Frames, f.backend <= Len(Chain[f.profile]), NEW n \in 0 .. MaxDepth,
         NEW g \in Frames, g.profile = f.profile, g.backend = f.backend,
         \/ f.pc = "ask" /\ g.pc = "final"
         \/ f.pc = "ask" /\ g.pc = "tools" /\ g.round = f.round
         \/ f.pc = "tools" /\ g.pc = "final"
         \/ f.pc = "tools" /\ g.pc = "ask" /\ g.round = f.round + 1
         \/ f.pc = "queue" /\ g.pc = "child"
  PROVE  FrameLeft(g, n) < FrameLeft(f, n)
<1>1. PICK call \in Nat : call = CallCost(n)
  BY CallCostIs
<1>2. PICK later : later = Later(f, n) /\ later = Later(g, n)
  BY DEF Later
<1>3. PICK rest, tools : rest = Rest(f, n) /\ tools = Tools(f, n)
  OBVIOUS
<1>4. PICK rest2, tools2 : rest2 = Rest(g, n) /\ tools2 = Tools(g, n)
  OBVIOUS
<1>5. /\ later \in Nat /\ rest \in Nat /\ tools \in Nat
      /\ f.pc = "ask" => FrameLeft(f, n) = later + (rest + RoundCost(call) + 2)
      /\ f.pc = "tools" => FrameLeft(f, n) = later + (rest + tools + 3)
      /\ f.pc = "queue" => FrameLeft(f, n) = later + 2
  BY <1>1, <1>2, <1>3, FrameLeftIs
<1>6. /\ rest2 \in Nat /\ tools2 \in Nat
      /\ g.pc = "ask" => FrameLeft(g, n) = later + (rest2 + RoundCost(call) + 2)
      /\ g.pc = "tools" => FrameLeft(g, n) = later + (rest2 + tools2 + 3)
      /\ g.pc \in {"final", "child"} => FrameLeft(g, n) = later + 1
  <2>1. g.backend <= Len(Chain[g.profile])
    OBVIOUS
  <2> QED
    BY <1>1, <1>2, <1>4, <2>1, FrameLeftIs
<1>7. RoundCost(call) \in Nat
  BY <1>1, CostTypes
<1>8. CASE f.pc = "ask" /\ g.pc = "tools" /\ g.round = f.round
  <2>1. rest2 = rest
    BY <1>3, <1>4, <1>8 DEF Rest
  <2>2. g.calls \in Nat /\ MaxCalls \in Nat /\ g.calls <= MaxCalls
    BY NumberAssumption DEF Frames
  <2>3. PICK most \in Nat : most = MaxCalls * call /\ tools2 <= most
    BY <1>1, <1>4, <2>2, Times DEF Tools
  <2>4. RoundCost(call) = 2 + most
    BY <2>3 DEF RoundCost
  <2> QED
    BY <1>5, <1>6, <1>8, <2>1, <2>3, <2>4
<1>9. CASE f.pc = "tools" /\ g.pc = "ask" /\ g.round = f.round + 1
  <2>1. f.round \in Nat /\ MaxRounds \in Nat /\ g.round \in Nat /\ g.round <= MaxRounds - 1
    BY NumberAssumption DEF Frames
  <2>2. PICK b \in Nat : b = MaxRounds - g.round - 1 /\ MaxRounds - f.round - 1 = b + 1
    BY <1>9, <2>1
  <2>3. PICK cost \in Nat : cost = RoundCost(call)
    BY <1>7
  <2>4. rest2 = b * cost /\ rest = (b + 1) * cost
    BY <1>1, <1>3, <1>4, <2>2, <2>3 DEF Rest
  <2>5. rest = rest2 + cost
    BY <2>4, Times
  <2>6. /\ FrameLeft(f, n) = later + (rest + tools + 3)
        /\ FrameLeft(g, n) = later + (rest2 + cost + 2)
    BY <1>5, <1>6, <1>9, <2>3
  <2> QED
    BY <1>5, <1>6, <2>5, <2>6
<1>10. CASE f.pc = "ask" /\ g.pc = "final"
  BY <1>5, <1>6, <1>7, <1>10
<1>11. CASE f.pc = "tools" /\ g.pc = "final"
  BY <1>5, <1>6, <1>11
<1>12. CASE f.pc = "queue" /\ g.pc = "child"
  BY <1>5, <1>6, <1>12
<1> QED
  BY <1>8, <1>9, <1>10, <1>11, <1>12

(* So does a tool call: as much as it may cost.                            *)
LEMMA ToolPays ==
  ASSUME NEW f \in Frames, f.backend <= Len(Chain[f.profile]), NEW n \in 0 .. MaxDepth,
         NEW g \in Frames, g.profile = f.profile, g.backend = f.backend,
         f.pc = "tools", g.pc = "tools", g.round = f.round, g.calls = f.calls - 1
  PROVE  FrameLeft(g, n) + CallCost(n) = FrameLeft(f, n)
<1>1. PICK call \in Nat : call = CallCost(n)
  BY CallCostIs
<1>2. PICK later : later = Later(f, n) /\ later = Later(g, n)
  BY DEF Later
<1>3. PICK rest : rest = Rest(f, n) /\ rest = Rest(g, n)
  BY DEF Rest
<1>4. PICK tools, tools2 : tools = Tools(f, n) /\ tools2 = Tools(g, n)
  OBVIOUS
<1>5. /\ later \in Nat /\ rest \in Nat /\ tools \in Nat
      /\ FrameLeft(f, n) = later + (rest + tools + 3)
  BY <1>2, <1>3, <1>4, FrameLeftIs
<1>6. tools2 \in Nat /\ FrameLeft(g, n) = later + (rest + tools2 + 3)
  <2>1. g.backend <= Len(Chain[g.profile])
    OBVIOUS
  <2> QED
    BY <1>2, <1>3, <1>4, <2>1, FrameLeftIs
<1>7. g.calls \in Nat /\ f.calls \in Nat /\ f.calls = g.calls + 1
  BY NumberAssumption DEF Frames
<1>8. tools = tools2 + call
  BY <1>1, <1>4, <1>7, Times DEF Tools
<1> QED
  BY <1>1, <1>5, <1>6, <1>8

(* A backend begins with no more than its share of the call.               *)
LEMMA FreshLeft ==
  ASSUME NEW p \in Profiles, NEW t \in BOOLEAN, NEW b \in 1 .. Len(Chain[p]),
         NEW n \in 0 .. MaxDepth
  PROVE  /\ FrameLeft(Frame(p, t, b), n) \in Nat
         /\ FrameLeft(Frame(p, t, b), n) <= (Len(Chain[p]) - b + 1) * BackendCost(CallCost(n))
         /\ (Len(Chain[p]) - b + 1) * BackendCost(CallCost(n)) <=
              MaxChain * BackendCost(CallCost(n))
<1>1. PICK f : f = Frame(p, t, b)
  OBVIOUS
<1>2. /\ f \in Frames /\ f.profile = p /\ f.backend = b /\ f.pc \in {"ask", "final", "queue"}
  BY <1>1, FrameType
<1>3. f.round = 0
  BY <1>1 DEF Frame
<1>4. Len(Chain[p]) \in Nat /\ Len(Chain[p]) <= MaxChain /\ MaxChain \in Nat
  BY ChainAssumption
<1>5. PICK call \in Nat : call = CallCost(n)
  BY CallCostIs
<1>6. RoundCost(call) \in Nat /\ BackendCost(call) \in Nat
  BY <1>5, CostTypes
<1>7. f.backend <= Len(Chain[f.profile])
  BY <1>2, <1>4
<1>8. PICK later, rest : later = Later(f, n) /\ rest = Rest(f, n)
  OBVIOUS
<1>9. /\ later \in Nat /\ rest \in Nat
      /\ f.pc = "ask" => FrameLeft(f, n) = later + (rest + RoundCost(call) + 2)
      /\ f.pc = "queue" => FrameLeft(f, n) = later + 2
      /\ f.pc \in {"final", "child"} => FrameLeft(f, n) = later + 1
  BY <1>2, <1>5, <1>7, <1>8, FrameLeftIs
<1>10. BackendCost(call) = rest + RoundCost(call) + 2
  <2>1. PICK m \in Nat : MaxRounds = m + 1 /\ m = MaxRounds - f.round - 1
    BY <1>3, NumberAssumption
  <2>2. MaxRounds * RoundCost(call) = rest + RoundCost(call)
    BY <1>5, <1>6, <1>8, <2>1, Times DEF Rest
  <2> QED
    BY <2>2 DEF BackendCost
<1>11. FrameLeft(f, n) \in Nat /\ FrameLeft(f, n) <= later + BackendCost(call)
  BY <1>2, <1>6, <1>9, <1>10
<1>12. PICK a \in Nat : a = Len(Chain[p]) - b /\ a + 1 <= MaxChain
  <2>1. Len(Chain[p]) - b \in Nat /\ (Len(Chain[p]) - b) + 1 <= MaxChain
    BY <1>4
  <2> QED
    BY <2>1
<1>13. (a + 1) * BackendCost(call) = later + BackendCost(call)
       /\ (a + 1) * BackendCost(call) <= MaxChain * BackendCost(call)
  <2>1. a + 1 \in Nat
    BY <1>12
  <2>2. later = a * BackendCost(call)
    BY <1>2, <1>5, <1>8, <1>12 DEF Later
  <2> QED
    BY <1>4, <1>6, <1>12, <2>1, <2>2, Times
<1> QED
  BY <1>1, <1>5, <1>11, <1>12, <1>13

-----------------------------------------------------------------------------
(* Stacks.                                                                 *)

Priced(w, s) ==
  /\ s \in Seq(Frames) /\ HostDepth(w, Len(s)) <= MaxDepth
  /\ \A i \in 1 .. Len(s) : s[i].backend <= Len(Chain[s[i].profile])

(* How many calls may follow w's i-th, one inside the other.               *)
Level(w, i) == MaxDepth - HostDepth(w, i)

LEMMA LevelIs ==
  ASSUME NEW w \in Callers, NEW s, Priced(w, s), NEW i \in 1 .. Len(s)
  PROVE  /\ Level(w, i) \in 0 .. MaxDepth
         /\ s[i] \in Frames /\ s[i].backend <= Len(Chain[s[i].profile])
<1>1. s \in Seq(Frames) /\ HostDepth(w, Len(s)) <= MaxDepth /\ Len(s) \in Nat
  BY DEF Priced
<1>2. Level(w, i) \in 0 .. MaxDepth
  BY <1>1, NumberAssumption DEF Level, HostDepth
<1> QED
  BY <1>1, <1>2 DEF Priced

LEMMA RemainingFollows ==
  ASSUME NEW w \in Callers, NEW s, Priced(w, s)
  PROVE  /\ Remaining(w, s)[0] = 0
         /\ \A i \in 1 .. Len(s) :
              Remaining(w, s)[i] = Remaining(w, s)[i - 1] + FrameLeft(s[i], Level(w, i))
         /\ \A i \in 0 .. Len(s) : Remaining(w, s)[i] \in Nat
<1> DEFINE n == Len(s)
           step == [p \in (1 .. n) \X Nat |-> p[2] + FrameLeft(s[p[1]], Level(w, p[1]))]
           next(f) == [i \in 0 .. n |->
             IF i = 0 THEN 0 ELSE f[i - 1] + FrameLeft(s[i], MaxDepth - HostDepth(w, i))]
<1>1. n \in Nat /\ 0 \in Nat
  BY DEF Priced
<1>2. \A i \in 1 .. n : FrameLeft(s[i], Level(w, i)) \in Nat
  BY LevelIs, FrameLeftType
<1>3. step \in [(1 .. n) \X Nat -> Nat]
  BY <1>2
<1>4. PICK f \in [0 .. n -> Nat] : Follows(f, n, 0, step)
  <2> HIDE DEF step
  <2> QED
    BY <1>1, <1>3, RecursionExists
<1>5. f = next(f)
  <2>1. f[0] = 0 /\ \A i \in 0 .. n : i = 0 \/ i \in 1 .. n
    BY <1>1, <1>4 DEF Follows
  <2>2. ASSUME NEW i \in 1 .. n PROVE f[i] = next(f)[i]
    <3>1. f[i] = step[<<i, f[i - 1]>>]
      BY <1>4, Zenon DEF Follows
    <3>2. i - 1 \in 0 .. n /\ i \in 0 .. n /\ i # 0
      BY <1>1
    <3>3. <<i, f[i - 1]>> \in (1 .. n) \X Nat
      BY <1>4, <3>2
    <3>4. f[i] = f[i - 1] + FrameLeft(s[i], Level(w, i))
      BY <3>1, <3>3
    <3> QED
      BY <3>2, <3>4, Zenon DEF Level
  <2>3. \A i \in 0 .. n : f[i] = next(f)[i]
    BY <2>1, <2>2
  <2> QED
    BY <1>4, <2>3
<1>6. PICK left : left = Remaining(w, s)
  OBVIOUS
<1>7. left = next(left)
  BY <1>5, <1>6, Zenon DEF Remaining
<1>8. left[0] = 0 /\ \A i \in 1 .. n : left[i] = left[i - 1] + FrameLeft(s[i], Level(w, i))
  <2>1. /\ 0 \in 0 .. n /\ \A i \in 1 .. n : i \in 0 .. n /\ i # 0
    BY <1>1
  <2>2. \A i \in 0 .. n :
          left[i] = IF i = 0 THEN 0 ELSE left[i - 1] + FrameLeft(s[i], Level(w, i))
    BY <1>7, Zenon DEF Level
  <2> QED
    BY <2>1, <2>2
<1>9. \A i \in 0 .. n : left[i] \in Nat
  <2> DEFINE T == {i \in 0 .. n : left[i] \in Nat}
  <2>1. 0 \in T
    BY <1>1, <1>8
  <2>2. ASSUME NEW i \in 1 .. n, i - 1 \in T PROVE i \in T
    <3>1. i \in 0 .. n
      BY <1>1
    <3> QED
      BY <1>2, <1>8, <2>2, <3>1
  <2> HIDE DEF T
  <2>3. 0 .. n \subseteq T
    BY <1>1, <2>1, <2>2, InductionUpTo
  <2> QED
    BY <2>3 DEF T
<1> QED
  BY <1>6, <1>8, <1>9

LEMMA RemainingSame ==
  ASSUME NEW w \in Callers, NEW s, Priced(w, s), NEW t, Priced(w, t),
         NEW m \in Nat, m <= Len(s), m <= Len(t), \A i \in 1 .. m : s[i] = t[i]
  PROVE  Remaining(w, s)[m] = Remaining(w, t)[m]
<1> DEFINE T == {i \in 0 .. m : Remaining(w, s)[i] = Remaining(w, t)[i]}
<1>1. Len(s) \in Nat /\ Len(t) \in Nat
  BY DEF Priced
<1>2. 0 \in T
  BY RemainingFollows
<1>3. ASSUME NEW i \in 1 .. m, i - 1 \in T PROVE i \in T
  <2>1. i \in 1 .. Len(s) /\ i \in 1 .. Len(t) /\ i \in 0 .. m
    BY <1>1
  <2>2. /\ Remaining(w, s)[i] = Remaining(w, s)[i - 1] + FrameLeft(s[i], Level(w, i))
        /\ Remaining(w, t)[i] = Remaining(w, t)[i - 1] + FrameLeft(t[i], Level(w, i))
    BY <2>1, RemainingFollows
  <2> QED
    BY <1>3, <2>1, <2>2
<1> HIDE DEF T
<1>4. 0 .. m \subseteq T
  BY <1>2, <1>3, InductionUpTo
<1>5. m \in 0 .. m
  OBVIOUS
<1> QED
  BY <1>4, <1>5 DEF T

LEMMA StacksPriced ==
  ASSUME StackInv, NEW w \in Callers
  PROVE  Priced(w, stack[w])
BY DEF StackInv, InChain, Depth, Priced

LEMMA StacksPricedNext ==
  ASSUME StackInv', NEW w \in Callers
  PROVE  Priced(w, stack'[w])
BY DEF StackInv, InChain, Depth, Priced

(* What is below the innermost call, and that call.                        *)
LEMMA LeftParts ==
  ASSUME NEW w \in Callers, NEW s, Priced(w, s), Len(s) # 0
  PROVE  /\ Len(s) - 1 \in Nat /\ Len(s) \in 1 .. Len(s)
         /\ Remaining(w, s)[Len(s) - 1] \in Nat
         /\ FrameLeft(s[Len(s)], Level(w, Len(s))) \in Nat \ {0}
         /\ Remaining(w, s)[Len(s)] =
              Remaining(w, s)[Len(s) - 1] + FrameLeft(s[Len(s)], Level(w, Len(s)))
<1>1. Len(s) \in Nat
  BY DEF Priced
<1>2. Len(s) - 1 \in 0 .. Len(s) /\ Len(s) \in 1 .. Len(s) /\ Len(s) - 1 \in Nat
  BY <1>1
<1> QED
  BY <1>2, LevelIs, FrameLeftType, RemainingFollows

LEMMA GoPays ==
  ASSUME StackInv, NEW w \in Callers, stack[w] # << >>, NEW f \in Frames,
         f.backend <= Len(Chain[f.profile]), Go(w, f),
         \A n \in 0 .. MaxDepth : FrameLeft(f, n) < FrameLeft(Top(w), n)
  PROVE  /\ \A v \in Callers : v # w => stack'[v] = stack[v]
         /\ Left(w)' < Left(w)
<1>1. PICK s : s = stack[w]
  OBVIOUS
<1>2. PICK t : t = stack'[w]
  OBVIOUS
<1>3. s \in Seq(Frames) /\ Len(s) \in Nat \ {0} /\ Top(w) = s[Len(s)]
  BY <1>1, TopType DEF Top
<1>4. /\ t = [s EXCEPT ![Len(s)] = f]
      /\ \A v \in Callers : v # w => stack'[v] = stack[v]
  BY <1>1, <1>2 DEF Go, StackInv
<1>5. /\ Len(t) = Len(s) /\ t[Len(s)] = f
      /\ \A i \in 1 .. Len(s) - 1 : t[i] = s[i]
  BY <1>3, <1>4
<1>6. Priced(w, s) /\ Priced(w, t)
  BY <1>1, <1>2, StacksPriced, StacksPricedNext, GoStep
<1>7. Level(w, Len(s)) \in 0 .. MaxDepth
  BY <1>3, <1>6, LevelIs, LeftParts
<1>8. FrameLeft(f, Level(w, Len(s))) < FrameLeft(s[Len(s)], Level(w, Len(s)))
  BY <1>3, <1>7
<1>9. Remaining(w, t)[Len(s) - 1] = Remaining(w, s)[Len(s) - 1]
  <2>1. Len(s) - 1 \in Nat /\ Len(s) - 1 <= Len(s) /\ Len(s) - 1 <= Len(t)
    BY <1>3, <1>5
  <2> QED
    BY <1>5, <1>6, <2>1, RemainingSame
<1>10. PICK below \in Nat, old \in Nat, new \in Nat :
         /\ below = Remaining(w, s)[Len(s) - 1]
         /\ old = FrameLeft(s[Len(s)], Level(w, Len(s)))
         /\ new = FrameLeft(t[Len(t)], Level(w, Len(t)))
  BY <1>3, <1>5, <1>6, LeftParts
<1>11. Remaining(w, s)[Len(s)] = below + old /\ Remaining(w, t)[Len(t)] = below + new
  BY <1>3, <1>5, <1>6, <1>9, <1>10, LeftParts
<1>12. new < old
  BY <1>5, <1>8, <1>10
<1>13. Remaining(w, t)[Len(t)] < Remaining(w, s)[Len(s)]
  BY <1>10, <1>11, <1>12
<1> QED
  BY <1>1, <1>2, <1>4, <1>13 DEF Left

LEMMA Front ==
  ASSUME NEW S, NEW s \in Seq(S), Len(s) # 0, NEW t, t = SubSeq(s, 1, Len(s) - 1)
  PROVE  Len(t) = Len(s) - 1 /\ \A i \in 1 .. Len(s) - 1 : t[i] = s[i]
<1>1. PICK n \in Nat : n = Len(s) - 1 /\ n <= Len(s)
  OBVIOUS
<1>2. \A i \in 1 .. n : i + 1 - 1 = i
  OBVIOUS
<1>3. SubSeq(s, 1, n) = [i \in 1 .. n |-> s[i + 1 - 1]]
  BY <1>1
<1>4. SubSeq(s, 1, n) = [i \in 1 .. n |-> s[i]]
  BY <1>2, <1>3
<1>5. Len([i \in 1 .. n |-> s[i]]) = n
  OBVIOUS
<1> QED
  BY <1>1, <1>4, <1>5

LEMMA ReturnPays ==
  ASSUME StackInv, NEW w \in Callers, stack[w] # << >>, Return(w)
  PROVE  /\ \A v \in Callers : v # w => stack'[v] = stack[v]
         /\ Left(w)' < Left(w)
<1>1. PICK s : s = stack[w]
  OBVIOUS
<1>2. PICK t : t = stack'[w]
  OBVIOUS
<1>3. s \in Seq(Frames) /\ Len(s) \in Nat \ {0}
  BY <1>1, TopType
<1>4. /\ t = SubSeq(s, 1, Len(s) - 1)
      /\ \A v \in Callers : v # w => stack'[v] = stack[v]
  BY <1>1, <1>2 DEF Return, StackInv
<1>5. Len(t) = Len(s) - 1 /\ \A i \in 1 .. Len(s) - 1 : t[i] = s[i]
  <2>1. s \in Seq(Frames) /\ Len(s) # 0
    BY <1>3
  <2> QED
    BY <1>4, <2>1, Front
<1>6. Priced(w, s) /\ Priced(w, t)
  BY <1>1, <1>2, StacksPriced, StacksPricedNext, ReturnStep
<1>7. Remaining(w, t)[Len(t)] = Remaining(w, s)[Len(s) - 1]
  <2>1. Len(s) - 1 \in Nat /\ Len(s) - 1 <= Len(s) /\ Len(s) - 1 <= Len(t)
    BY <1>3, <1>5
  <2> QED
    BY <1>5, <1>6, <2>1, RemainingSame
<1>8. PICK below \in Nat, old \in Nat \ {0} :
        /\ below = Remaining(w, s)[Len(s) - 1]
        /\ old = FrameLeft(s[Len(s)], Level(w, Len(s)))
  BY <1>3, <1>6, LeftParts
<1>9. Remaining(w, s)[Len(s)] = below + old
  BY <1>3, <1>6, <1>8, LeftParts
<1>10. Remaining(w, t)[Len(t)] < Remaining(w, s)[Len(s)]
  BY <1>7, <1>8, <1>9
<1> QED
  BY <1>1, <1>2, <1>4, <1>10 DEF Left

(* The next backend begins with less than was left to the one that failed. *)
LEMMA FailPays ==
  ASSUME StackInv, NEW w \in Callers, stack[w] # << >>, Fail(w)
  PROVE  /\ \A v \in Callers : v # w => stack'[v] = stack[v]
         /\ Left(w)' < Left(w)
<1>1. CASE Top(w).backend = Len(Chain[Top(w).profile])
  BY <1>1, ReturnPays DEF Fail
<1>2. CASE Top(w).backend # Len(Chain[Top(w).profile])
  <2>1. PICK g \in Frames : g = Top(w) /\ g.backend <= Len(Chain[g.profile])
    BY TopType
  <2>2. /\ g.profile \in Profiles /\ g.tooled \in BOOLEAN /\ g.backend \in 1 .. MaxChain
        /\ Len(Chain[g.profile]) \in Nat /\ MaxChain \in Nat
    BY ChainAssumption DEF Frames
  <2>3. g.backend + 1 \in 1 .. Len(Chain[g.profile])
    BY <1>2, <2>1, <2>2
  <2>4. PICK f : f = Frame(g.profile, g.tooled, g.backend + 1)
    OBVIOUS
  <2>5. f \in Frames /\ f.profile = g.profile /\ f.backend = g.backend + 1
    BY <2>2, <2>3, <2>4, FrameType
  <2>6. ASSUME NEW n \in 0 .. MaxDepth PROVE FrameLeft(f, n) < FrameLeft(g, n)
    <3>1. /\ FrameLeft(f, n) \in Nat
          /\ FrameLeft(f, n) <=
               (Len(Chain[g.profile]) - (g.backend + 1) + 1) * BackendCost(CallCost(n))
      BY <2>2, <2>3, <2>4, FreshLeft
    <3>2. Len(Chain[g.profile]) - (g.backend + 1) + 1 = Len(Chain[g.profile]) - g.backend
      BY <2>2
    <3>3. FrameLeft(f, n) <= Later(g, n)
      BY <3>1, <3>2 DEF Later
    <3>4. Later(g, n) \in Nat /\ FrameLeft(g, n) \in Nat /\ Later(g, n) < FrameLeft(g, n)
      BY <2>1, FrameLeftType
    <3> QED
      BY <3>1, <3>3, <3>4
  <2>7. Go(w, f) /\ f.backend <= Len(Chain[f.profile])
    BY <1>2, <2>1, <2>2, <2>3, <2>4, <2>5 DEF Fail
  <2> QED
    BY <2>1, <2>5, <2>6, <2>7, GoPays
<1> QED
  BY <1>1, <1>2

LEMMA Grown ==
  ASSUME NEW S, NEW s \in Seq(S), Len(s) # 0, NEW g \in S, NEW f \in S,
         NEW t, t = Append([s EXCEPT ![Len(s)] = g], f)
  PROVE  /\ Len(t) = Len(s) + 1 /\ t[Len(s) + 1] = f /\ t[Len(s)] = g
         /\ \A i \in 1 .. Len(s) - 1 : t[i] = s[i]
<1> DEFINE h == [s EXCEPT ![Len(s)] = g]
<1>1. /\ h \in Seq(S) /\ Len(h) = Len(s) /\ h[Len(s)] = g
      /\ \A i \in 1 .. Len(s) - 1 : h[i] = s[i]
  OBVIOUS
<1>2. t = Append(h, f)
  OBVIOUS
<1> HIDE DEF h
<1>3. Len(t) = Len(s) + 1 /\ t[Len(s) + 1] = f
  BY <1>1, <1>2
<1>4. \A i \in 1 .. Len(s) : t[i] = h[i]
  BY <1>1, <1>2
<1>5. Len(s) \in 1 .. Len(s) /\ \A i \in 1 .. Len(s) - 1 : i \in 1 .. Len(s)
  OBVIOUS
<1> QED
  BY <1>1, <1>3, <1>4, <1>5

(* A subagent takes no more than the tool call it is made by.              *)
LEMMA PushPays ==
  ASSUME StackInv, NEW w \in Callers, Busy(w, "tools"), Top(w).calls > 0,
         Depth(w) < MaxDepth, NEW p \in Profiles, Push(w, p)
  PROVE  /\ \A v \in Callers : v # w => stack'[v] = stack[v]
         /\ Left(w)' < Left(w)
<1>1. PICK s : s = stack[w]
  OBVIOUS
<1>2. PICK t : t = stack'[w]
  OBVIOUS
<1>3. /\ s \in Seq(Frames) /\ Len(s) \in Nat \ {0} /\ Top(w) = s[Len(s)]
      /\ Top(w) \in Frames /\ Top(w).backend <= Len(Chain[Top(w).profile])
  BY <1>1, TopType DEF Top, Busy
<1>4. PICK f : f = Frame(p, TRUE, 1)
  OBVIOUS
<1>5. PICK g : g = [s[Len(s)] EXCEPT !.calls = @ - 1]
  OBVIOUS
<1>6. f \in Frames
  <2>1. 1 \in 1 .. Len(Chain[p]) /\ TRUE \in BOOLEAN
    BY ChainAssumption
  <2> QED
    BY <1>4, <2>1, FrameType
<1>7. /\ g \in Frames /\ g.pc = "tools" /\ g.backend = s[Len(s)].backend
      /\ g.profile = s[Len(s)].profile /\ g.round = s[Len(s)].round
      /\ g.calls = s[Len(s)].calls - 1 /\ s[Len(s)].pc = "tools"
  <2>1. s[Len(s)] \in Frames /\ s[Len(s)].calls > 0 /\ s[Len(s)].pc = "tools"
    BY <1>3 DEF Busy
  <2>2. s[Len(s)].calls - 1 \in 0 .. MaxCalls
    BY <2>1, NumberAssumption DEF Frames
  <2> QED
    BY <1>5, <2>1, <2>2 DEF Frames
<1>8. /\ t = Append([s EXCEPT ![Len(s)] = g], f)
      /\ \A v \in Callers : v # w => stack'[v] = stack[v]
  BY <1>1, <1>2, <1>3, <1>4, <1>5 DEF Push, StackInv
<1>9. /\ Len(t) = Len(s) + 1 /\ t[Len(s) + 1] = f /\ t[Len(s)] = g
      /\ \A i \in 1 .. Len(s) - 1 : t[i] = s[i]
  BY <1>3, <1>6, <1>7, <1>8, Grown
<1>10. Priced(w, s) /\ Priced(w, t)
  BY <1>1, <1>2, StacksPriced, StacksPricedNext, PushStep
<1>11. PICK n \in 1 .. MaxDepth : n = Level(w, Len(s)) /\ Level(w, Len(s) + 1) = n - 1
  <2>1. HostDepth(w, Len(s)) < MaxDepth
    BY <1>1 DEF Depth
  <2>2. PICK d \in Nat : d = HostDepth(w, Len(s)) /\ HostDepth(w, Len(s) + 1) = d + 1
    <3>1. PICK k \in Nat \ {0} : k = Len(s)
      BY <1>3
    <3>2. CASE w = Loop
      BY <3>1, <3>2 DEF HostDepth
    <3>3. CASE w # Loop
      <4>1. HostDepth(w, k) = k - 1 /\ HostDepth(w, k + 1) = k + 1 - 1
        BY <3>3 DEF HostDepth
      <4> QED
        BY <3>1, <4>1
    <3> QED
      BY <3>2, <3>3
  <2>3. MaxDepth - d \in 1 .. MaxDepth /\ MaxDepth - (d + 1) = MaxDepth - d - 1
    BY <2>1, <2>2, NumberAssumption
  <2> QED
    BY <2>2, <2>3 DEF Level
<1>12. n \in 0 .. MaxDepth /\ n # 0 /\ n - 1 \in 0 .. MaxDepth
  BY <1>11, NumberAssumption
<1>13. PICK below \in Nat, old \in Nat, new \in Nat, sub \in Nat :
         /\ below = Remaining(w, s)[Len(s) - 1]
         /\ old = FrameLeft(s[Len(s)], n) /\ new = FrameLeft(g, n)
         /\ sub = FrameLeft(f, n - 1)
         /\ Remaining(w, s)[Len(s)] = below + old
         /\ Remaining(w, t)[Len(t)] = below + new + sub
  <2>1. /\ Remaining(w, s)[Len(s) - 1] \in Nat
        /\ FrameLeft(s[Len(s)], n) \in Nat
        /\ Remaining(w, s)[Len(s)] = Remaining(w, s)[Len(s) - 1] + FrameLeft(s[Len(s)], n)
    BY <1>3, <1>10, <1>11, LeftParts
  <2>2. Len(t) = Len(s) + 1 /\ Len(t) # 0 /\ Len(t) - 1 = Len(s)
    BY <1>3, <1>9
  <2>3. /\ FrameLeft(f, n - 1) \in Nat
        /\ Remaining(w, t)[Len(t)] = Remaining(w, t)[Len(s)] + FrameLeft(f, n - 1)
    BY <1>9, <1>10, <1>11, <2>2, LeftParts
  <2>4. /\ FrameLeft(g, n) \in Nat
        /\ Remaining(w, t)[Len(s)] = Remaining(w, t)[Len(s) - 1] + FrameLeft(g, n)
    <3>1. Len(s) \in 1 .. Len(t)
      BY <1>3, <2>2
    <3>2. g \in Frames /\ g.backend <= Len(Chain[g.profile])
      BY <1>3, <1>7
    <3> QED
      BY <1>9, <1>10, <1>11, <1>12, <3>1, <3>2, RemainingFollows, FrameLeftType
  <2>5. Remaining(w, t)[Len(s) - 1] = Remaining(w, s)[Len(s) - 1]
    <3>1. Len(s) - 1 \in Nat /\ Len(s) - 1 <= Len(s) /\ Len(s) - 1 <= Len(t)
      BY <1>3, <2>2
    <3> QED
      BY <1>9, <1>10, <3>1, RemainingSame
  <2> QED
    BY <2>1, <2>3, <2>4, <2>5
<1>14. PICK call \in Nat : call = CallCost(n) /\ sub < call
  <2>1. CallCost(n) \in Nat /\ CallCost(n) = 1 + MaxChain * BackendCost(CallCost(n - 1))
    BY <1>12, CallCostIs
  <2>2. MaxChain * BackendCost(CallCost(n - 1)) \in Nat
    BY <1>12, CallCostIs, CostTypes
  <2>3. sub <= MaxChain * BackendCost(CallCost(n - 1))
    <3>1. 1 \in 1 .. Len(Chain[p]) /\ TRUE \in BOOLEAN /\ Len(Chain[p]) \in Nat
      BY ChainAssumption
    <3>2. PICK share : share = (Len(Chain[p]) - 1 + 1) * BackendCost(CallCost(n - 1))
      OBVIOUS
    <3>3. sub <= share /\ share <= MaxChain * BackendCost(CallCost(n - 1))
      BY <1>4, <1>12, <1>13, <3>1, <3>2, FreshLeft
    <3>4. share \in Nat
      <4>1. PICK k \in Nat : k = Len(Chain[p]) - 1 + 1
        BY <3>1
      <4>2. BackendCost(CallCost(n - 1)) \in Nat
        BY <1>12, CallCostIs, CostTypes
      <4> QED
        BY <3>2, <4>1, <4>2, Times
    <3> QED
      BY <1>13, <2>2, <3>3, <3>4
  <2> QED
    BY <1>13, <2>1, <2>2, <2>3
<1>15. new + call = old
  BY <1>3, <1>7, <1>12, <1>13, <1>14, ToolPays
<1>16. below + new + sub < below + old
  BY <1>14, <1>15
<1>17. Remaining(w, t)[Len(t)] < Remaining(w, s)[Len(s)]
  BY <1>13, <1>16
<1> QED
  BY <1>1, <1>2, <1>8, <1>17 DEF Left

LEMMA CallerPays ==
  ASSUME StackInv, NEW w \in Callers,
         ServerStep(w) \/ OwnStep(w) \/ ChildRefused(w) \/ ChildStart(w) \/ ChildEnds(w)
  PROVE  /\ \A v \in Callers : v # w => stack'[v] = stack[v]
         /\ Left(w)' < Left(w)
<1> DEFINE Pays == /\ \A v \in Callers : v # w => stack'[v] = stack[v]
                   /\ Left(w)' < Left(w)
<1>1. stack[w] # << >>
  BY DEF ServerStep, OwnStep, ChildEnds, RequestFails, Answer, AnswerEmpty, AnswerCalls, Tool,
         NextRound, Delegate, ChildRefused, ChildStart, ChildExit, ChildFails, Busy
<1>2. /\ Top(w) \in Frames /\ Top(w).backend <= Len(Chain[Top(w).profile])
      /\ Top(w).calls \in 0 .. MaxCalls /\ Top(w).round \in 0 .. MaxRounds - 1
  BY <1>1, TopType DEF Frames
<1>3. ASSUME RequestFails(w) \/ ChildRefused(w) \/ ChildFails(w)
      PROVE  Pays
  BY <1>1, <1>3, FailPays DEF RequestFails, ChildRefused, ChildFails
<1>4. ASSUME Answer(w) \/ ChildExit(w)
      PROVE  Pays
  BY <1>1, <1>4, ReturnPays DEF Answer, ChildExit
<1>5. ASSUME NEW f \in Frames, f.profile = Top(w).profile, f.backend = Top(w).backend,
             Go(w, f),
             \/ Top(w).pc = "ask" /\ f.pc = "final"
             \/ Top(w).pc = "ask" /\ f.pc = "tools" /\ f.round = Top(w).round
             \/ Top(w).pc = "tools" /\ f.pc = "final"
             \/ Top(w).pc = "tools" /\ f.pc = "ask" /\ f.round = Top(w).round + 1
             \/ Top(w).pc = "queue" /\ f.pc = "child"
      PROVE  Pays
  <2>1. \A n \in 0 .. MaxDepth : FrameLeft(f, n) < FrameLeft(Top(w), n)
    BY <1>2, <1>5, FramePays
  <2>2. f.backend <= Len(Chain[f.profile])
    BY <1>2, <1>5
  <2> QED
    BY <1>1, <1>5, <2>1, <2>2, GoPays
<1>6. ASSUME NEW c \in {"ask", "tools", "final", "child"}
      PROVE  [Top(w) EXCEPT !.pc = c] \in Frames
  BY <1>2 DEF Frames
<1>7. ASSUME AnswerEmpty(w)
      PROVE  Pays
  <2>1. Top(w).pc = "ask" /\ Go(w, [Top(w) EXCEPT !.pc = "final"])
    BY <1>7 DEF AnswerEmpty, Busy
  <2>2. PICK f \in Frames : f = [Top(w) EXCEPT !.pc = "final"]
    BY <1>6
  <2>3. f.profile = Top(w).profile /\ f.backend = Top(w).backend /\ f.pc = "final"
    BY <1>2, <2>2 DEF Frames
  <2> HIDE DEF Pays
  <2> QED
    BY <1>5, <2>1, <2>2, <2>3
<1>8. ASSUME AnswerCalls(w)
      PROVE  Pays
  <2>1. PICK n \in 0 .. MaxCalls : Go(w, [Top(w) EXCEPT !.pc = "tools", !.calls = n])
    BY <1>8 DEF AnswerCalls
  <2>2. PICK f \in Frames : f = [Top(w) EXCEPT !.pc = "tools", !.calls = n]
    BY <1>2 DEF Frames
  <2>3. /\ f.profile = Top(w).profile /\ f.backend = Top(w).backend /\ f.pc = "tools"
        /\ f.round = Top(w).round
    BY <1>2, <2>2 DEF Frames
  <2>4. Top(w).pc = "ask"
    BY <1>8 DEF AnswerCalls, Busy
  <2> HIDE DEF Pays
  <2> QED
    BY <1>5, <2>1, <2>2, <2>3, <2>4
<1>9. ASSUME Tool(w)
      PROVE  Pays
  <2>1. Top(w).pc = "tools" /\ Top(w).calls > 0 /\ Go(w, [Top(w) EXCEPT !.calls = @ - 1])
    BY <1>9 DEF Tool, Busy
  <2>2. Top(w).calls - 1 \in 0 .. MaxCalls
    BY <1>2, <2>1, NumberAssumption
  <2>3. PICK f \in Frames : f = [Top(w) EXCEPT !.calls = @ - 1]
    BY <1>2, <2>2 DEF Frames
  <2>4. /\ f.profile = Top(w).profile /\ f.backend = Top(w).backend /\ f.pc = "tools"
        /\ f.round = Top(w).round /\ f.calls = Top(w).calls - 1
    BY <1>2, <2>1, <2>3 DEF Frames
  <2>5. f.backend <= Len(Chain[f.profile])
    BY <1>2, <2>4
  <2>6. ASSUME NEW n \in 0 .. MaxDepth PROVE FrameLeft(f, n) < FrameLeft(Top(w), n)
    <3>1. FrameLeft(f, n) + CallCost(n) = FrameLeft(Top(w), n)
      BY <1>2, <2>1, <2>4, ToolPays
    <3>2. CallCost(n) \in Nat \ {0} /\ FrameLeft(f, n) \in Nat
      BY <2>5, CallCostIs, FrameLeftType
    <3> QED
      BY <3>1, <3>2
  <2>7. Go(w, f)
    BY <2>1, <2>3
  <2> QED
    BY <1>1, <2>5, <2>6, <2>7, GoPays
<1>10. ASSUME NextRound(w)
       PROVE  Pays
  <2>1. Top(w).pc = "tools"
    BY <1>10 DEF NextRound, Busy
  <2>2. CASE Top(w).round + 1 < MaxRounds
    <3>1. Top(w).round + 1 \in 0 .. MaxRounds - 1
      BY <1>2, <2>2, NumberAssumption
    <3>2. PICK f \in Frames : f = [Top(w) EXCEPT !.pc = "ask", !.round = @ + 1]
      BY <1>2, <3>1 DEF Frames
    <3>3. /\ f.profile = Top(w).profile /\ f.backend = Top(w).backend /\ f.pc = "ask"
          /\ f.round = Top(w).round + 1
      BY <1>2, <3>2 DEF Frames
    <3>4. Go(w, f)
      BY <1>10, <2>2, <3>2 DEF NextRound
    <3> HIDE DEF Pays
    <3> QED
      BY <1>5, <2>1, <3>3, <3>4
  <2>3. CASE ~(Top(w).round + 1 < MaxRounds)
    <3>1. PICK f \in Frames : f = [Top(w) EXCEPT !.pc = "final"]
      BY <1>6
    <3>2. f.profile = Top(w).profile /\ f.backend = Top(w).backend /\ f.pc = "final"
      BY <1>2, <3>1 DEF Frames
    <3>3. Go(w, f)
      BY <1>10, <2>3, <3>1 DEF NextRound
    <3> HIDE DEF Pays
    <3> QED
      BY <1>5, <2>1, <3>2, <3>3
  <2> QED
    BY <2>2, <2>3
<1>11. ASSUME NEW a \in Agents, Delegate(w, a)
       PROVE  Pays
  <2>1. AgentProfile[a] \in Profiles
    BY AgentAssumption
  <2> QED
    BY <1>11, <2>1, PushPays DEF Delegate
<1>12. ASSUME ChildStart(w)
       PROVE  Pays
  <2>1. Top(w).pc = "queue" /\ Go(w, [Top(w) EXCEPT !.pc = "child"])
    BY <1>12 DEF ChildStart, Busy
  <2>2. PICK f \in Frames : f = [Top(w) EXCEPT !.pc = "child"]
    BY <1>6
  <2>3. f.profile = Top(w).profile /\ f.backend = Top(w).backend /\ f.pc = "child"
    BY <1>2, <2>2 DEF Frames
  <2> HIDE DEF Pays
  <2> QED
    BY <1>5, <2>1, <2>2, <2>3
<1> HIDE DEF Pays
<1>13. Pays
  BY <1>3, <1>4, <1>7, <1>8, <1>9, <1>10, <1>11, <1>12
  DEF ServerStep, OwnStep, ChildEnds
<1> QED
  BY <1>13 DEF Pays

(* Every step of a call uses up some of it, for all chains, depths, rounds *)
(* and numbers of tool calls.                                              *)
THEOREM CallsAlwaysWindDown == Spec => CallsWindDown
<1>1. Kept /\ [Next]_vars =>
        [\A w \in Callers : stack[w] # << >> /\ stack'[w] # stack[w] => Left(w)' < Left(w)]_vars
  <2> SUFFICES ASSUME Kept, [Next]_vars, NEW w \in Callers,
                      stack[w] # << >>, stack'[w] # stack[w]
               PROVE  Left(w)' < Left(w)
    OBVIOUS
  <2>1. ASSUME NEW v \in Callers,
               ServerStep(v) \/ OwnStep(v) \/ ChildRefused(v) \/ ChildStart(v) \/ ChildEnds(v)
        PROVE  Left(w)' < Left(w)
    <3>1. StackInv
      BY DEF Kept
    <3>2. (\A u \in Callers : u # v => stack'[u] = stack[u]) /\ Left(v)' < Left(v)
      BY <2>1, <3>1, CallerPays
    <3>3. v = w
      BY <3>2
    <3> QED
      BY <3>2, <3>3
  <2>2. ASSUME NEW j \in Jobs, NEW p \in Profiles, StartJob(j, p)
        PROVE  FALSE
    BY <2>2 DEF StartJob, Kept, StackInv
  <2>3. ASSUME NEW c \in Commands, Send(c)
        PROVE  FALSE
    BY <2>3 DEF Send
  <2>4. ASSUME Handle
        PROVE  FALSE
    BY <2>4 DEF Handle, Kept, StackInv
  <2>5. ASSUME UNCHANGED vars
        PROVE  FALSE
    BY <2>5 DEF vars
  <2> QED
    BY <2>1, <2>2, <2>3, <2>4, <2>5 DEF Next
<1> QED
  BY <1>1, DelegationInvariance, PTL DEF Spec, CallsWindDown
=============================================================================
