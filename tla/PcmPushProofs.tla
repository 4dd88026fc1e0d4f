--------------------------- MODULE PcmPushProofs ---------------------------
(***************************************************************************)
(* Proofs about PcmPush, for every number of channels and length of chunk: *)
(* what each package of server_sppush_push carries, place by place.        *)
(***************************************************************************)
EXTENDS PcmPush, TLAPS

\* The loop: dst samples of the channel have been copied, and behind them lies
\* what the channels before it have left.
LoopInv ==
    pc = "copy" =>
        /\ src = i + dst * chlen
        /\ \A k \in 0..(dst - 1) : k \in Positions /\ buffer[k] = Own(k)
        /\ \A k \in Package : k >= dst => buffer[k] = Carried(i - 1, k)

PcmInv ==
    /\ TypeOK
    /\ LoopInv
    /\ PackageExact

(***************************************************************************)
(* Products: all that is needed of them.                                   *)
(***************************************************************************)
LEMMA TimesMonotone ==
    ASSUME NEW c \in Nat \ {0}, NEW a \in Nat, NEW b \in Nat
    PROVE  /\ a * c \in Nat
           /\ a <= a * c
           /\ (a + 1) * c = a * c + c
           /\ a <= b => a * c <= b * c
           /\ a < b => a * c + c <= b * c
<1>1. a * c \in Nat /\ a <= a * c /\ (a + 1) * c = a * c + c
  OBVIOUS
<1>2. a <= b => a * c <= b * c
  OBVIOUS
<1>3. a + 1 <= b => (a + 1) * c <= b * c
  OBVIOUS
<1> QED
  BY <1>1, <1>2, <1>3

\* A copy stays within the buffer.
LEMMA CopyInRange ==
    ASSUME PcmInv, pc = "copy", src < len
    PROVE  dst \in Positions /\ src \in 0..(len - 1)
<1>1. dst <= dst * chlen
  BY PcmAssumption, TimesMonotone DEF PcmInv, TypeOK
<1> QED
  BY <1>1, PcmAssumption, TimesMonotone
  DEF PcmInv, TypeOK, LoopInv, Positions

(***************************************************************************)
(* The invariant.                                                          *)
(***************************************************************************)
LEMMA PcmInvInit == Init => PcmInv
BY PcmAssumption
DEF Init, PcmInv, TypeOK, LoopInv, PackageExact, Positions, Stale

LEMMA PushKeeps ==
    ASSUME PcmInv, NEW n \in 1..MaxChunk, NEW c \in 1..MaxChannels, Push(n, c)
    PROVE  PcmInv'
<1>1. n \div c \in 1..Room
  BY DEF Push
<1>2. TypeOK'
  BY <1>1, PcmAssumption DEF Push, TypeOK, Positions, Stale
<1>3. LoopInv'
  BY <1>1, <1>2, PcmAssumption
  DEF Push, LoopInv, TypeOK, Carried, Package, Positions
<1>4. PackageExact'
  BY DEF Push, PackageExact
<1> QED
  BY <1>2, <1>3, <1>4 DEF PcmInv

LEMMA CopyKeeps ==
    ASSUME PcmInv, CopySample
    PROVE  PcmInv'
<1>1. /\ pc = "copy" /\ src < len
      /\ buffer' = [buffer EXCEPT ![dst] = src]
      /\ dst' = dst + 1 /\ src' = src + chlen
      /\ UNCHANGED <<pc, chlen, len, i>>
  BY DEF CopySample, Copy
<1>2. dst \in Positions /\ src \in 0..(len - 1)
  BY <1>1, CopyInRange
<1>3. /\ chlen \in Nat \ {0} /\ i \in Nat /\ dst \in Nat /\ len \in 0..Room
      /\ buffer \in [Positions -> {Stale} \cup 0..(len - 1)]
      /\ src = i + dst * chlen
  BY <1>1, PcmAssumption DEF PcmInv, TypeOK, LoopInv
<1>4. TypeOK'
  BY <1>1, <1>2, <1>3, PcmAssumption DEF PcmInv, TypeOK, Positions
<1>5. LoopInv'
  <2>1. src' = i + (dst + 1) * chlen
    BY <1>1, <1>3, TimesMonotone
  <2>2. ASSUME NEW k \in 0..dst
        PROVE  k \in Positions /\ buffer'[k] = i + k * chlen
    <3>1. CASE k = dst
      BY <1>1, <1>2, <1>3, <3>1
    <3>2. CASE k \in 0..(dst - 1)
      BY <1>1, <1>3, <3>2 DEF PcmInv, LoopInv, Own
    <3> QED
      BY <1>3, <3>1, <3>2
  <2>3. ASSUME NEW k \in Package, k >= dst + 1
        PROVE  buffer'[k] = Carried(i - 1, k)
    <3>1. k # dst /\ k >= dst
      BY <1>3, <2>3 DEF Package
    <3>2. buffer[k] = Carried(i - 1, k)
      BY <1>1, <3>1 DEF PcmInv, LoopInv
    <3> QED
      BY <1>1, <1>3, <3>1, <3>2
  <2>4. Package' = Package /\ \A k : Carried(i - 1, k)' = Carried(i - 1, k)
    BY <1>1 DEF Package, Carried
  <2> QED
    BY <1>1, <1>3, <2>1, <2>2, <2>3, <2>4 DEF LoopInv, Own
<1>6. PackageExact'
  BY <1>1 DEF PackageExact
<1> QED
  BY <1>4, <1>5, <1>6 DEF PcmInv

\* The loop ends with src = i + dst * chlen past the end.  Before dst each
\* sample of the channel has been copied; from dst on the channel has none, and
\* the last one of the channels before it is the last of the first len.
LEMMA EndKeeps ==
    ASSUME PcmInv, CopyEnd
    PROVE  PcmInv'
<1>1. /\ pc = "copy" /\ pc' = "send" /\ src >= len
      /\ UNCHANGED <<chlen, len, i, src, dst, buffer>>
  BY DEF CopyEnd
<1>2. /\ chlen \in Nat \ {0} /\ i \in Nat /\ dst \in Nat /\ len \in 0..Room
      /\ buffer \in [Positions -> {Stale} \cup 0..(len - 1)]
      /\ src = i + dst * chlen
  BY <1>1, PcmAssumption DEF PcmInv, TypeOK, LoopInv
<1>3. ASSUME NEW k \in Package
      PROVE  buffer[k] = Carried(i, k)
  <2>1. /\ k \in Nat /\ k \in Positions
       /\ k * chlen \in Nat /\ dst * chlen \in Nat
    <3>1. k \in Nat /\ k \in Positions
      BY <1>2, PcmAssumption DEF Package, Positions
    <3> QED
      BY <1>2, <3>1, TimesMonotone
  <2>2. CASE k < dst
    <3>1. buffer[k] = i + k * chlen
      BY <1>1, <1>2, <2>1, <2>2 DEF PcmInv, LoopInv, Own
    <3>2. i + k * chlen # Stale
      BY <1>2, <2>1 DEF Stale
    <3>3. i + k * chlen < len
      BY <1>2, <2>1, <3>1, <3>2
    <3> QED
      BY <1>2, <2>1, <3>1, <3>3 DEF Carried
  <2>3. CASE k >= dst
    <3>1. buffer[k] = Carried(i - 1, k)
      BY <1>1, <2>3 DEF PcmInv, LoopInv
    <3>2. i + k * chlen >= len
      <4>1. dst * chlen <= k * chlen
        BY <1>2, <2>1, <2>3, TimesMonotone
      <4> QED
        BY <1>1, <1>2, <2>1, <4>1
    <3> HIDE DEF Carried
    <3> DEFINE kc == k * chlen
    <3>3. kc \in Nat
      BY <2>1
    <3>4. /\ Carried(i, k) = IF kc >= len THEN Stale ELSE len - 1
          /\ Carried(i - 1, k) = IF i = 0 \/ kc >= len THEN Stale
                                 ELSE IF i - 1 + kc < len THEN i - 1 + kc
                                 ELSE len - 1
      BY <1>2, <2>1, <3>2 DEF Carried
    <3> HIDE DEF kc
    <3>5. i + kc >= len
      BY <3>2 DEF kc
    <3>6. kc < len => i # 0 /\ (i - 1 + kc < len => i - 1 + kc = len - 1)
      BY <1>2, <3>3, <3>5
    <3> QED
      BY <3>1, <3>4, <3>6, <3>3, <1>2
  <2> QED
    BY <1>2, <2>1, <2>2, <2>3
<1>4. TypeOK'
  BY <1>1 DEF PcmInv, TypeOK, Positions
<1>5. LoopInv'
  BY <1>1 DEF LoopInv
<1>6. PackageExact'
  BY <1>1, <1>3 DEF PackageExact, Package, Carried
<1> QED
  BY <1>4, <1>5, <1>6 DEF PcmInv

\* The buffer passes to the next channel as the last one has left it.
LEMMA SendKeeps ==
    ASSUME PcmInv, SendChannel
    PROVE  PcmInv'
<1>1. pc = "send" /\ UNCHANGED <<chlen, len, buffer>>
  BY DEF SendChannel, Send
<1>2. /\ chlen \in 1..MaxChannels /\ i \in 0..(chlen - 1)
  BY DEF PcmInv, TypeOK
<1>3. CASE i + 1 < chlen
  <2>1. pc' = "copy" /\ i' = i + 1 /\ src' = i + 1 /\ dst' = 0
    BY <1>3 DEF SendChannel, Send
  <2>2. TypeOK'
    BY <1>1, <1>2, <1>3, <2>1, PcmAssumption DEF PcmInv, TypeOK, Positions
  <2>3. LoopInv'
    <3>1. i' - 1 = i /\ (i - 1)' = i
      BY <1>2, <2>1, PcmAssumption
    <3>2. \A k \in Package : buffer[k] = Carried(i, k)
      BY <1>1 DEF PcmInv, PackageExact
    <3>3. Package' = Package /\ \A h, k : Carried(h, k)' = Carried(h, k)
      BY <1>1 DEF Package, Carried
    <3>4. \A k \in Package' : buffer'[k] = Carried(i - 1, k)'
      BY <1>1, <1>2, <2>1, <3>1, <3>2 DEF Package, Carried
    <3>5. src' = i' + dst' * chlen'
      BY <1>1, <1>2, <2>1, PcmAssumption
    <3>6. 0..(dst' - 1) = {}
      BY <2>1
    <3> QED
      BY <3>4, <3>5, <3>6 DEF LoopInv
  <2>4. PackageExact'
    BY <2>1 DEF PackageExact
  <2> QED
    BY <2>2, <2>3, <2>4 DEF PcmInv
<1>4. CASE ~(i + 1 < chlen)
  BY <1>1, <1>4
  DEF SendChannel, Send, PcmInv, TypeOK, LoopInv, PackageExact, Positions
<1> QED
  BY <1>3, <1>4

THEOREM PcmInvCorrect == Spec => []PcmInv
<1>1. PcmInv /\ [Next]_pcmVars => PcmInv'
  <2> SUFFICES ASSUME PcmInv, [Next]_pcmVars PROVE PcmInv'
    OBVIOUS
  <2>1. CASE UNCHANGED pcmVars
    BY <2>1
    DEF pcmVars, PcmInv, TypeOK, LoopInv, PackageExact, Carried, Own, Package,
        Positions
  <2> QED
    BY <2>1, PushKeeps, CopyKeeps, EndKeeps, SendKeeps DEF Next
<1> QED
  BY <1>1, PcmInvInit, PTL DEF Spec

(***************************************************************************)
(* TypeOK, about channel_buffer: no copy of server_sppush_push writes past *)
(* the samples of the package.                                             *)
(***************************************************************************)
THEOREM TypeCorrect == Spec => []TypeOK
<1>1. PcmInv => TypeOK
  BY DEF PcmInv
<1> QED
  BY <1>1, PcmInvCorrect, PTL

\* PackageExact, about the loop of server_sppush_push over channels and frames.
THEOREM PackagesExact == Spec => []PackageExact
<1>1. PcmInv => PackageExact
  BY DEF PcmInv
<1> QED
  BY <1>1, PcmInvCorrect, PTL

(***************************************************************************)
(* What the closed form means for a package.                               *)
(***************************************************************************)
LEMMA PlaceOfPackage ==
    ASSUME PcmInv, pc = "send", NEW k \in Package
    PROVE  /\ chlen \in Nat \ {0} /\ i \in Nat /\ i < chlen
           /\ len \in 0..Room /\ k \in Nat /\ k * chlen \in Nat
           /\ buffer[k] = IF k * chlen >= len THEN Stale
                          ELSE IF i + k * chlen < len THEN i + k * chlen
                          ELSE len - 1
<1>1. /\ chlen \in Nat \ {0} /\ i \in Nat /\ i < chlen /\ len \in 0..Room
      /\ k \in Nat
  BY PcmAssumption DEF PcmInv, TypeOK, Package
<1>2. k * chlen \in Nat
  BY <1>1, TimesMonotone
<1> QED
  BY <1>1, <1>2 DEF PcmInv, PackageExact, Carried

(***************************************************************************)
(* AtMostOneStray, about the buffer server_sppush_push does not clear: a   *)
(* stray is at the frame in which the first len samples end.               *)
(***************************************************************************)
LEMMA StrayAtEnd ==
    ASSUME PcmInv, pc = "send", NEW k \in Strays
    PROVE  /\ k \in Nat /\ k * chlen \in Nat /\ i + k * chlen >= len
           /\ k * chlen < len
<1>1. k \in Package /\ buffer[k] # Stale /\ buffer[k] # i + k * chlen
  BY DEF Strays, Own
<1> QED
  BY <1>1, PlaceOfPackage

THEOREM OneStray == Spec => []AtMostOneStray
<1>1. PcmInv => AtMostOneStray
  <2> SUFFICES ASSUME PcmInv, pc = "send" PROVE AtMostOneStray
    BY DEF AtMostOneStray
  <2>1. /\ chlen \in Nat \ {0} /\ i \in 0..(chlen - 1) /\ len \in 0..Room
    BY PcmAssumption DEF PcmInv, TypeOK
  <2>2. ASSUME NEW k \in Strays, NEW l \in Strays PROVE ~(k < l)
    <3>1. k < l => k * chlen + chlen <= l * chlen
      BY <2>1, StrayAtEnd, TimesMonotone
    <3> QED
      BY <2>1, <3>1, StrayAtEnd
  <2>3. ASSUME NEW m \in 0..Room, len = m * chlen, NEW k \in Strays
        PROVE  FALSE
    <3>1. k < m => k * chlen + chlen <= m * chlen
      BY <2>1, PcmAssumption, StrayAtEnd, TimesMonotone
    <3>2. m <= k => m * chlen <= k * chlen
      BY <2>1, PcmAssumption, StrayAtEnd, TimesMonotone
    <3> QED
      BY <2>1, <2>3, <3>1, <3>2, StrayAtEnd, PcmAssumption
  <2>4. \A k \in Strays : k \in Nat
    BY StrayAtEnd
  <2> QED
    BY <2>2, <2>3, <2>4 DEF AtMostOneStray
<1> QED
  BY <1>1, PcmInvCorrect, PTL

\* OnlyFirstFrames, about the end of the loop in server_sppush_push.
THEOREM FirstFramesOnly == Spec => []OnlyFirstFrames
<1>1. PcmInv => OnlyFirstFrames
  <2> SUFFICES ASSUME PcmInv, pc = "send", NEW k \in Package,
                      buffer[k] # Stale
               PROVE  k * chlen < len
    BY DEF OnlyFirstFrames
  <2> QED
    BY PlaceOfPackage
<1> QED
  BY <1>1, PcmInvCorrect, PTL
=============================================================================
