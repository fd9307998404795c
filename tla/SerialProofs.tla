----------------------------- MODULE SerialProofs -----------------------------
(***************************************************************************)
(* The frames of the serial link: what rurp_communication_write makes of   *)
(* any payload is read back as that payload, for every length of a run.    *)
(* rurp_communication_read_data for every buffer, every set of messages    *)
(* and every way the port may cut, delay or lose them.  And usb_cdc.c, for *)
(* rings and packets of any size, as two queues.                           *)
(***************************************************************************)
EXTENDS Link, UsbCdc, Induction, SequenceTheorems

-----------------------------------------------------------------------------
(* rurp_communication_write. *)
(* The function that defines a fold of EncodeByte over the first n bytes of s. *)
NothingEncoded == [wire |-> <<>>, run |-> <<>>]

EncodeStep(h, t, s) ==
  IF t = {} THEN NothingEncoded ELSE EncodeByte(h[t \ {Max(t)}], s[Max(t)])

EncodeSteps(h, Dom, s) == h = [t \in SUBSET Dom |-> EncodeStep(h, t, s)]

LEMMA EncodeStepsExtend ==
  ASSUME NEW s, NEW n \in Nat, NEW h, EncodeSteps(h, 1..n, s)
  PROVE  \E g : EncodeSteps(g, 1..(n + 1), s)
<1> DEFINE g == [t \in SUBSET (1..(n + 1)) |->
                   IF n + 1 \in t THEN EncodeByte(h[t \ {n + 1}], s[n + 1]) ELSE h[t]]
<1>1. ASSUME NEW t \in SUBSET (1..(n + 1)) PROVE g[t] = EncodeStep(g, t, s)
  <2>1. CASE n + 1 \in t
    <3>1. Max(t) = n + 1
      <4> DEFINE top == n + 1
      <4>1. top \in Nat /\ t \in SUBSET (1..top) /\ top \in t
        BY <2>1
      <4> HIDE DEF top
      <4>2. Max(t) = top
        BY <4>1, MaxIsTop
      <4> QED BY <4>2 DEF top
    <3>2. t \ {n + 1} \in SUBSET (1..(n + 1)) /\ n + 1 \notin t \ {n + 1}
      OBVIOUS
    <3>3. g[t \ {n + 1}] = h[t \ {n + 1}]
      BY <3>2
    <3>4. g[t] = EncodeByte(h[t \ {n + 1}], s[n + 1])
      BY <2>1
    <3> HIDE DEF g
    <3> QED BY <2>1, <3>1, <3>3, <3>4 DEF EncodeStep
  <2>2. CASE n + 1 \notin t
    <3>1. t \in SUBSET (1..n)
      BY <2>2
    <3>2. g[t] = h[t] /\ h[t] = EncodeStep(h, t, s)
      BY <2>2, <3>1 DEF EncodeSteps
    <3>3. t \ {Max(t)} \in SUBSET (1..(n + 1)) /\ n + 1 \notin t \ {Max(t)}
      BY <2>2
    <3>4. g[t \ {Max(t)}] = h[t \ {Max(t)}]
      BY <3>3
    <3> HIDE DEF g
    <3> QED BY <3>2, <3>4 DEF EncodeStep
  <2> QED BY <2>1, <2>2
<1>2. g = [t \in SUBSET (1..(n + 1)) |-> EncodeStep(g, t, s)]
  <2>1. g = [t \in SUBSET (1..(n + 1)) |-> g[t]]
    OBVIOUS
  <2> HIDE DEF g
  <2> QED BY <1>1, <2>1
<1> QED BY <1>2 DEF EncodeSteps

LEMMA EncodeStepsExist ==
  ASSUME NEW s, NEW n \in Nat
  PROVE  \E h : EncodeSteps(h, 1..n, s)
<1> DEFINE S == {k \in Nat : \E h : EncodeSteps(h, 1..k, s)}
<1>1. 0 \in S
  <2> DEFINE h == [t \in SUBSET (1..0) |-> NothingEncoded]
  <2>1. \A t \in SUBSET (1..0) : t = {}
    OBVIOUS
  <2>2. h = [t \in SUBSET (1..0) |-> EncodeStep(h, t, s)]
    BY <2>1 DEF EncodeStep
  <2> QED BY <2>2 DEF EncodeSteps
<1>2. \A k \in Nat : k \in S => k + 1 \in S
  BY EncodeStepsExtend
<1> HIDE DEF S
<1>3. Nat \subseteq S
  BY <1>1, <1>2, SetInduction
<1> QED BY <1>3 DEF S

(* What the encoder holds after each byte of a payload. *)
Encoding(e, s) ==
  /\ DOMAIN e = 0..Len(s)
  /\ e[0] = NothingEncoded
  /\ \A k \in 1..Len(s) : e[k] = EncodeByte(e[k - 1], s[k])

LEMMA FoldOfBytes ==
  ASSUME NEW s \in Seq(Nat)
  PROVE  \E e : Encoding(e, s) /\ FoldLeft(EncodeByte, NothingEncoded, s) = e[Len(s)]
<1> DEFINE Dom == DOMAIN s
           h == CHOOSE f : EncodeSteps(f, Dom, s)
           e == [k \in 0..Len(s) |-> h[1..k]]
<1>1. Dom = 1..Len(s) /\ Len(s) \in Nat
  OBVIOUS
<1>2. EncodeSteps(h, Dom, s)
  BY <1>1, EncodeStepsExist, Zenon
<1>3. FoldLeft(EncodeByte, NothingEncoded, s) = h[Dom]
  BY Zenon DEF FoldLeft, MapThenFoldSet, EncodeSteps, EncodeStep
<1> HIDE DEF h
<1>4. e[0] = NothingEncoded
  <2>1. 1..0 = {} /\ {} \in SUBSET Dom
    OBVIOUS
  <2>2. h[{}] = NothingEncoded
    BY <1>2, <2>1 DEF EncodeSteps, EncodeStep
  <2> QED BY <2>1, <2>2, <1>1
<1>5. ASSUME NEW k \in 1..Len(s) PROVE e[k] = EncodeByte(e[k - 1], s[k])
  <2>1. 1..k \in SUBSET Dom /\ 1..k # {}
    BY <1>1
  <2>2. Max(1..k) = k
    <3>1. k \in Nat /\ 1..k \in SUBSET (1..k) /\ k \in 1..k
      OBVIOUS
    <3> QED BY <3>1, MaxIsTop
  <2>3. (1..k) \ {k} = 1..(k - 1)
    OBVIOUS
  <2>4. h[1..k] = EncodeByte(h[1..(k - 1)], s[k])
    BY <1>2, <2>1, <2>2, <2>3 DEF EncodeSteps, EncodeStep
  <2> QED BY <2>4, <1>1
<1>6. DOMAIN e = 0..Len(s) /\ e[Len(s)] = h[Dom]
  BY <1>1
<1> HIDE DEF e
<1> QED BY <1>3, <1>4, <1>5, <1>6 DEF Encoding

-----------------------------------------------------------------------------
Coded == Nat \ {0}

LEMMA CodedIsNat == ASSUME NEW s \in Seq(Coded) PROVE s \in Seq(Nat)
BY SeqMonotonic DEF Coded

(* One byte, of the decoder's locals. *)
Held(d) == d.out \o d.last
Content(d) == Held(d) \o (IF d.zero THEN <<0>> ELSE <<>>)
Decodes(d) == d \in Decoding /\ Len(d.last) <= 1

LEMMA HeldOf ==
  ASSUME NEW d, NEW h, NEW l, d.out = h, d.last = l PROVE Held(d) = h \o l
BY Zenon DEF Held

LEMMA PushIs ==
  ASSUME NEW d, Decodes(d), NEW b \in Nat
  PROVE  /\ Push(d, b) = [out |-> Held(d), run |-> d.run, full |-> d.full, zero |-> d.zero,
                          last |-> <<b>>]
         /\ Decodes(Push(d, b)) /\ Held(Push(d, b)) = Held(d) \o <<b>>
<1>1. Push(d, b) = [out |-> Held(d), run |-> d.run, full |-> d.full, zero |-> d.zero,
                    last |-> <<b>>]
  <2> DEFINE h == Held(d)
  <2>1. Push(d, b) = [d EXCEPT !.out = h, !.last = <<b>>]
    BY DEF Push, Held
  <2>2. d \in Decoding
    BY DEF Decodes
  <2> HIDE DEF h
  <2>3. Push(d, b) = [out |-> h, run |-> d.run, full |-> d.full, zero |-> d.zero,
                      last |-> <<b>>]
    BY <2>1, <2>2 DEF Decoding
  <2> QED BY <2>3 DEF h
<1>2. d.out \in Seq(Nat) /\ d.last \in Seq(Nat) /\ <<b>> \in Seq(Nat) /\ Len(<<b>>) = 1
  BY DEF Decodes, Decoding
<1>3. Held(d) \in Seq(Nat)
  BY <1>2, ConcatProperties DEF Held
<1>4. d.run \in Nat /\ d.full \in BOOLEAN /\ d.zero \in BOOLEAN
  BY DEF Decodes, Decoding
<1> HIDE DEF Held
<1>5. Decodes(Push(d, b))
  BY <1>1, <1>2, <1>3, <1>4 DEF Decodes, Decoding
<1>6. Push(d, b).out = Held(d) /\ Push(d, b).last = <<b>>
  BY <1>1
<1>7. Held(Push(d, b)) = Held(d) \o <<b>>
  BY <1>6, HeldOf
<1> QED BY <1>1, <1>5, <1>7

LEMMA DataByteIs ==
  ASSUME NEW d, Decodes(d), NEW b \in Nat, d.run > 0
  PROVE  /\ DecodeByte(d, b) = [out |-> Held(d), run |-> d.run - 1, full |-> d.full,
                                zero |-> d.run = 1 /\ ~d.full, last |-> <<b>>]
         /\ Decodes(DecodeByte(d, b)) /\ Held(DecodeByte(d, b)) = Held(d) \o <<b>>
<1> DEFINE z == d.run = 1 /\ ~d.full
<1>1. Push(d, b) = [out |-> Held(d), run |-> d.run, full |-> d.full, zero |-> d.zero,
                    last |-> <<b>>]
  BY PushIs
<1>2. DecodeByte(d, b) = [Push(d, b) EXCEPT !.run = @ - 1, !.zero = z]
  BY DEF DecodeByte, DataByte
<1>3. z \in BOOLEAN
  OBVIOUS
<1> HIDE DEF z
<1>4. DecodeByte(d, b) = [out |-> Held(d), run |-> d.run - 1, full |-> d.full,
                          zero |-> z, last |-> <<b>>]
  <2> DEFINE h == Held(d)
             p == Push(d, b)
  <2> HIDE DEF h, p
  <2>1. /\ p = [out |-> h, run |-> d.run, full |-> d.full, zero |-> d.zero, last |-> <<b>>]
        /\ DecodeByte(d, b) = [p EXCEPT !.run = @ - 1, !.zero = z]
    BY <1>1, <1>2 DEF h, p
  <2>2. DecodeByte(d, b) = [out |-> h, run |-> d.run - 1, full |-> d.full,
                            zero |-> z, last |-> <<b>>]
    BY <2>1
  <2> QED BY <2>2 DEF h
<1>5. Decodes(Push(d, b)) /\ Push(d, b).out = Held(d) /\ Held(d) \in Seq(Nat)
  BY <1>1, PushIs DEF Decodes, Decoding
<1>6. d.run \in Nat /\ d.full \in BOOLEAN /\ <<b>> \in Seq(Nat) /\ Len(<<b>>) = 1
  BY DEF Decodes, Decoding
<1>7. Decodes(DecodeByte(d, b))
  BY <1>3, <1>4, <1>5, <1>6 DEF Decodes, Decoding
<1>8. DecodeByte(d, b).out = Held(d) /\ DecodeByte(d, b).last = <<b>>
  BY <1>4
<1>9. Held(DecodeByte(d, b)) = Held(d) \o <<b>>
  BY <1>8, HeldOf
<1> QED BY <1>4, <1>7, <1>9 DEF z

LEMMA CodeByteIs ==
  ASSUME NEW d, Decodes(d), NEW b \in Coded, d.run = 0
  PROVE  /\ Decodes(DecodeByte(d, b))
         /\ DecodeByte(d, b).run = b - 1
         /\ DecodeByte(d, b).full = (b = FullCode)
         /\ DecodeByte(d, b).zero = (b = 1)
         /\ Held(DecodeByte(d, b)) = Content(d)
<1> DEFINE e == IF d.zero THEN Push(d, 0) ELSE d
           f == b = FullCode
           z == b = 1
<1>1. Decodes(e) /\ Held(e) = Content(d)
  <2>1. CASE d.zero
    <3>1. Decodes(Push(d, 0)) /\ Held(Push(d, 0)) = Held(d) \o <<0>>
      BY PushIs
    <3> QED BY <2>1, <3>1 DEF Content
  <2>2. CASE ~d.zero
    <3>1. Held(d) \in Seq(Nat)
      BY ConcatProperties DEF Held, Decodes, Decoding
    <3>2. Held(d) \o <<>> = Held(d)
      BY <3>1, ConcatEmptySeq
    <3> QED BY <2>2, <3>2 DEF Content
  <2> QED BY <2>1, <2>2
<1>2. DecodeByte(d, b) = [e EXCEPT !.run = b - 1, !.full = f, !.zero = z]
  BY DEF DecodeByte, CodeByte
<1>3. b - 1 \in Nat /\ f \in BOOLEAN /\ z \in BOOLEAN
  BY DEF Coded
<1> HIDE DEF e, f, z
<1>4. e \in Decoding
  BY <1>1 DEF Decodes
<1>5. /\ DecodeByte(d, b) \in Decoding
      /\ DecodeByte(d, b).run = b - 1 /\ DecodeByte(d, b).full = f /\ DecodeByte(d, b).zero = z
      /\ DecodeByte(d, b).out = e.out /\ DecodeByte(d, b).last = e.last
  BY <1>2, <1>3, <1>4 DEF Decoding
<1> QED BY <1>1, <1>5 DEF Decodes, Held, f, z

-----------------------------------------------------------------------------
(* What the decoder holds after each byte of w, from d. *)
Decoded(f, d, w) ==
  /\ DOMAIN f = 0..Len(w)
  /\ f[0] = d
  /\ \A k \in 1..Len(w) : f[k] = DecodeByte(f[k - 1], w[k])

Reads(d, w, d2) == \E f : Decoded(f, d, w) /\ f[Len(w)] = d2

LEMMA ReadsNothing == ASSUME NEW d PROVE Reads(d, <<>>, d)
<1> DEFINE f == [k \in 0..0 |-> d]
<1>1. Decoded(f, d, <<>>) /\ f[Len(<<>>)] = d
  BY DEF Decoded
<1> HIDE DEF f
<1> QED BY <1>1 DEF Reads

LEMMA ReadsOn ==
  ASSUME NEW S, NEW v \in Seq(S), NEW w \in Seq(S), NEW d, NEW d1, NEW d2,
         Reads(d, v, d1), Reads(d1, w, d2)
  PROVE  Reads(d, v \o w, d2)
<1>1. PICK f : Decoded(f, d, v) /\ f[Len(v)] = d1
  BY DEF Reads
<1>2. PICK g : Decoded(g, d1, w) /\ g[Len(w)] = d2
  BY DEF Reads
<1> DEFINE m == Len(v)
           n == Len(w)
           h == [k \in 0..(m + n) |-> IF k <= m THEN f[k] ELSE g[k - m]]
<1>3. m \in Nat /\ n \in Nat /\ Len(v \o w) = m + n
  BY ConcatProperties
<1>4. \A i \in 1..(m + n) : (v \o w)[i] = IF i <= m THEN v[i] ELSE w[i - m]
  BY ConcatProperties
<1>5. /\ f[0] = d /\ f[m] = d1 /\ g[0] = d1 /\ g[n] = d2
      /\ \A k \in 1..m : f[k] = DecodeByte(f[k - 1], v[k])
      /\ \A k \in 1..n : g[k] = DecodeByte(g[k - 1], w[k])
  BY <1>1, <1>2 DEF Decoded
<1> HIDE DEF m, n
<1>6. h[0] = d /\ h[m + n] = d2 /\ DOMAIN h = 0..(m + n)
  <2>1. h[m + n] = IF n = 0 THEN f[m] ELSE g[n]
    BY <1>3
  <2> QED BY <1>3, <1>5, <2>1
<1>7. ASSUME NEW k \in 1..(m + n) PROVE h[k] = DecodeByte(h[k - 1], (v \o w)[k])
  <2>1. CASE k <= m
    <3>1. k \in 1..m /\ k - 1 \in 0..(m + n) /\ k - 1 <= m
      BY <1>3, <2>1
    <3>2. h[k] = f[k] /\ h[k - 1] = f[k - 1]
      BY <2>1, <3>1
    <3> HIDE DEF h
    <3> QED BY <1>4, <1>5, <2>1, <3>1, <3>2
  <2>2. CASE k > m
    <3>1. k - m \in 1..n /\ k - 1 \in 0..(m + n) /\ ~(k <= m) /\ (k - m) - 1 = (k - 1) - m
      BY <1>3, <2>2
    <3>2. h[k] = g[k - m]
      BY <3>1
    <3>3. h[k - 1] = g[(k - m) - 1]
      <4>1. CASE k - 1 = m
        <5>1. h[k - 1] = f[m] /\ (k - m) - 1 = 0
          BY <1>3, <3>1, <4>1
        <5> HIDE DEF h
        <5> QED BY <1>5, <5>1
      <4>2. CASE k - 1 # m
        <5>1. ~(k - 1 <= m)
          BY <1>3, <2>2, <4>2
        <5> QED BY <3>1, <5>1
      <4> QED BY <4>1, <4>2
    <3> HIDE DEF h
    <3> QED BY <1>4, <1>5, <3>1, <3>2, <3>3
  <2> QED BY <1>3, <2>1, <2>2
<1> HIDE DEF h
<1>8. Decoded(h, d, v \o w) /\ h[Len(v \o w)] = d2
  BY <1>3, <1>6, <1>7 DEF Decoded
<1> QED BY <1>8 DEF Reads

LEMMA CatAssoc == \A s, t, u \in Seq(Nat) : (s \o t) \o u = s \o (t \o u)
BY ConcatAssociative

(* Between two runs. *)
Between(d) == Decodes(d) /\ d.run = 0

(* The decoder after i bytes of the run r, of which c has read the code. *)
InRun(c, r, i) ==
  [out |-> IF i = 0 THEN c.out ELSE Held(c) \o SubSeq(r, 1, i - 1),
   run |-> Len(r) - i, full |-> c.full, zero |-> i = Len(r) /\ ~c.full,
   last |-> IF i = 0 THEN c.last ELSE <<r[i]>>]

LEMMA InRunFacts ==
  ASSUME NEW c, Decodes(c), NEW r \in Seq(Coded), NEW i \in 0..Len(r)
  PROVE  /\ Decodes(InRun(c, r, i))
         /\ Held(InRun(c, r, i)) = Held(c) \o SubSeq(r, 1, i)
<1> DEFINE d == InRun(c, r, i)
<1>1. Held(c) \in Seq(Nat) /\ c.out \in Seq(Nat) /\ c.last \in Seq(Nat) /\ c.full \in BOOLEAN
      /\ Len(c.last) <= 1
  BY ConcatProperties DEF Held, Decodes, Decoding
<1>2. r \in Seq(Nat) /\ Len(r) \in Nat
  BY CodedIsNat
<1>3. (i = Len(r) /\ ~c.full) \in BOOLEAN /\ Len(r) - i \in Nat
  BY <1>2
<1>4. CASE i = 0
  <2>1. d.out = c.out /\ d.last = c.last
    BY <1>4 DEF InRun
  <2>2. Held(d) = Held(c)
    BY <2>1, HeldOf DEF Held
  <2>3. SubSeq(r, 1, i) = <<>> /\ Held(c) \o <<>> = Held(c)
    BY <1>1, <1>4, SubSeqEmpty, ConcatEmptySeq
  <2>4. d = [out |-> c.out, run |-> Len(r) - i, full |-> c.full,
             zero |-> i = Len(r) /\ ~c.full, last |-> c.last]
    BY <1>4 DEF InRun
  <2>5. Decodes(d)
    <3> DEFINE z == i = Len(r) /\ ~c.full
               n == Len(r) - i
    <3> HIDE DEF z, n, d
    <3>1. d = [out |-> c.out, run |-> n, full |-> c.full, zero |-> z, last |-> c.last]
      BY <2>4 DEF z, n
    <3>2. z \in BOOLEAN /\ n \in Nat
      BY <1>3 DEF z, n
    <3> QED BY <1>1, <3>1, <3>2 DEF Decodes, Decoding
  <2> QED BY <2>2, <2>3, <2>5
<1>5. CASE i # 0
  <2>1. i \in 1..Len(r)
    BY <1>2, <1>5
  <2> DEFINE h == Held(c) \o SubSeq(r, 1, i - 1)
  <2>2. r[i] \in Nat /\ <<r[i]>> \in Seq(Nat) /\ Len(<<r[i]>>) = 1
    BY <1>2, <2>1, ElementOfSeq
  <2>3. SubSeq(r, 1, i - 1) \in Seq(Nat)
    BY <1>2, <2>1, SubSeqProperties
  <2>4. h \in Seq(Nat)
    BY <1>1, <2>3, ConcatProperties
  <2>5. d.out = h /\ d.last = <<r[i]>>
    BY <1>5 DEF InRun
  <2>6. SubSeq(r, 1, i) = SubSeq(r, 1, i - 1) \o <<r[i]>>
    <3>1. 1 \in 1..Len(r) /\ i \in 1..Len(r)
      BY <2>1
    <3> QED BY <3>1, SubSeqRecursiveSecond
  <2>7. Held(d) = Held(c) \o SubSeq(r, 1, i)
    <3>1. Held(d) = h \o <<r[i]>>
      BY <2>5, HeldOf
    <3>2. h \o <<r[i]>> = Held(c) \o (SubSeq(r, 1, i - 1) \o <<r[i]>>)
      BY <1>1, <2>2, <2>3, CatAssoc, Zenon
    <3> QED BY <2>6, <3>1, <3>2
  <2>8. Decodes(d)
    <3> DEFINE z == i = Len(r) /\ ~c.full
               n == Len(r) - i
               l == <<r[i]>>
    <3>0. d = [out |-> h, run |-> n, full |-> c.full, zero |-> z, last |-> l]
      BY <1>5 DEF InRun
    <3>1. z \in BOOLEAN /\ n \in Nat /\ l \in Seq(Nat) /\ Len(l) = 1
      BY <1>3, <2>2
    <3> HIDE DEF z, n, l, h, d
    <3>2. d \in Decoding
      BY <1>1, <2>4, <3>0, <3>1 DEF Decoding
    <3>3. d.last = l
      BY <3>0
    <3>4. Len(d.last) = 1
      BY <3>1, <3>3
    <3>5. Len(d.last) <= 1
      BY <3>4
    <3> QED BY <3>2, <3>5 DEF Decodes
  <2> QED BY <2>7, <2>8
<1> QED BY <1>4, <1>5

LEMMA InRunStep ==
  ASSUME NEW c, Decodes(c), NEW r \in Seq(Coded), NEW i \in 1..Len(r)
  PROVE  DecodeByte(InRun(c, r, i - 1), r[i]) = InRun(c, r, i)
<1> DEFINE d == InRun(c, r, i - 1)
<1>1. Len(r) \in Nat /\ i - 1 \in 0..Len(r) /\ r[i] \in Nat
  BY ElementOfSeq DEF Coded
<1>2. Decodes(d) /\ Held(d) = Held(c) \o SubSeq(r, 1, i - 1)
  BY <1>1, InRunFacts
<1>3. d.run = Len(r) - (i - 1) /\ d.full = c.full
  BY DEF InRun
<1>4. d.run > 0 /\ d.run - 1 = Len(r) - i /\ (d.run = 1 <=> i = Len(r))
  BY <1>1, <1>3
<1> HIDE DEF d
<1>5. DecodeByte(d, r[i]) = [out |-> Held(d), run |-> d.run - 1, full |-> d.full,
                             zero |-> d.run = 1 /\ ~d.full, last |-> <<r[i]>>]
  BY <1>1, <1>2, <1>4, DataByteIs
<1>6. (d.run = 1 /\ ~d.full) = (i = Len(r) /\ ~c.full)
  BY <1>3, <1>4
<1>7. InRun(c, r, i) = [out |-> Held(c) \o SubSeq(r, 1, i - 1),
                        run |-> Len(r) - i, full |-> c.full,
                        zero |-> i = Len(r) /\ ~c.full, last |-> <<r[i]>>]
  <2>1. i # 0
    BY <1>1
  <2> QED BY <2>1, Zenon DEF InRun
<1> QED BY <1>2, <1>3, <1>4, <1>5, <1>6, <1>7 DEF d

(* A run and its code, from between two runs: what it stands for is added, a zero that is
   pending until more is read included. *)
LEMMA ReadsRun ==
  ASSUME NEW d, Between(d), NEW r \in Seq(Coded), Len(r) + 1 <= FullCode
  PROVE  \E d2 : /\ Between(d2) /\ Reads(d, <<Len(r) + 1>> \o r, d2)
                 /\ Held(d2) = Content(d) \o r
                 /\ d2.zero = (Len(r) + 1 # FullCode)
<1> DEFINE b == Len(r) + 1
           c == DecodeByte(d, b)
           d2 == InRun(c, r, Len(r))
<1>1. Len(r) \in Nat /\ b \in Coded /\ b \in Nat
  BY DEF Coded
<1>2. /\ Decodes(c) /\ c.run = Len(r) /\ c.full = (b = FullCode) /\ c.zero = (b = 1)
      /\ Held(c) = Content(d)
  BY <1>1, CodeByteIs DEF Between
<1>3. Reads(d, <<b>>, c)
  <2> DEFINE f == [k \in 0..1 |-> IF k = 0 THEN d ELSE c]
  <2>1. Decoded(f, d, <<b>>) /\ f[Len(<<b>>)] = c
    BY DEF Decoded
  <2> HIDE DEF f
  <2> QED BY <2>1 DEF Reads
<1>4. InRun(c, r, 0) = c
  <2>1. InRun(c, r, 0) = [out |-> c.out, run |-> Len(r), full |-> c.full,
                          zero |-> 0 = Len(r) /\ ~c.full, last |-> c.last]
    BY <1>1 DEF InRun
  <2>2. (0 = Len(r) /\ ~c.full) = c.zero
    <3>1. b = 1 => b # FullCode
      BY CobsAssumption
    <3>2. (b = 1) = (0 = Len(r))
      BY <1>1
    <3> HIDE DEF b, c
    <3> QED BY <1>2, <3>1, <3>2
  <2> HIDE DEF c, b
  <2>3. c \in Decoding
    BY <1>2 DEF Decodes
  <2>4. c = [out |-> c.out, run |-> c.run, full |-> c.full, zero |-> c.zero, last |-> c.last]
    BY <2>3 DEF Decoding
  <2> QED BY <1>2, <2>1, <2>2, <2>4
<1>5. Reads(c, r, d2)
  <2> DEFINE f == [i \in 0..Len(r) |-> InRun(c, r, i)]
  <2> HIDE DEF c
  <2>1. f[0] = c /\ f[Len(r)] = d2 /\ DOMAIN f = 0..Len(r)
    BY <1>1, <1>4
  <2>2. ASSUME NEW k \in 1..Len(r) PROVE f[k] = DecodeByte(f[k - 1], r[k])
    <3>1. f[k] = InRun(c, r, k) /\ f[k - 1] = InRun(c, r, k - 1)
      BY <1>1
    <3> QED BY <1>2, <3>1, InRunStep
  <2> HIDE DEF f
  <2>3. Decoded(f, c, r)
    BY <2>1, <2>2 DEF Decoded
  <2> QED BY <2>1, <2>3 DEF Reads
<1>6. Reads(d, <<b>> \o r, d2)
  <2>1. <<b>> \in Seq(Coded)
    BY <1>1
  <2> HIDE DEF c, d2, b
  <2> QED BY <1>3, <1>5, <2>1, ReadsOn
<1>7. Decodes(d2) /\ Held(d2) = Held(c) \o r /\ d2.run = 0 /\ d2.zero = ~c.full
  <2> HIDE DEF c
  <2>1. Len(r) \in 0..Len(r) /\ SubSeq(r, 1, Len(r)) = r
    BY <1>1, SubSeqFull
  <2>2. Decodes(d2) /\ Held(d2) = Held(c) \o r
    BY <1>2, <2>1, InRunFacts
  <2>3. d2.run = Len(r) - Len(r) /\ d2.zero = (Len(r) = Len(r) /\ ~c.full)
    BY DEF InRun
  <2>4. d2.zero = ~c.full
    BY <2>3
  <2> QED BY <1>1, <2>2, <2>3, <2>4
<1>8. d2.zero = (b # FullCode)
  <2> HIDE DEF c, d2, b
  <2> QED BY <1>2, <1>7
<1> HIDE DEF c, d2
<1> QED BY <1>2, <1>6, <1>7, <1>8 DEF Between

-----------------------------------------------------------------------------
(* What the encoder holds after k bytes of s: a wire that decodes to the bytes before the
   run under way. *)
Encoded(e, s, k) ==
  /\ e.wire \in Seq(Coded) /\ e.run \in Seq(Coded) /\ Len(e.run) + 2 <= FullCode
  /\ \E d : /\ Between(d) /\ Reads(StartDecoding, e.wire, d)
            /\ Content(d) \o e.run = SubSeq(s, 1, k)

LEMMA ContentType == ASSUME NEW d, Decodes(d) PROVE Held(d) \in Seq(Nat) /\ Content(d) \in Seq(Nat)
<1>1. Held(d) \in Seq(Nat)
  BY ConcatProperties DEF Held, Decodes, Decoding
<1>2. (IF d.zero THEN <<0>> ELSE <<>>) \in Seq(Nat)
  OBVIOUS
<1> QED BY <1>1, <1>2, ConcatProperties DEF Content

LEMMA ContentOf ==
  ASSUME NEW d PROVE Content(d) = Held(d) \o (IF d.zero THEN <<0>> ELSE <<>>)
BY DEF Content

(* A run is put on the wire. *)
LEMMA WireGrows ==
  ASSUME NEW w \in Seq(Coded), NEW d, Between(d), Reads(StartDecoding, w, d),
         NEW r \in Seq(Coded), Len(r) + 1 <= FullCode
  PROVE  /\ w \o <<Len(r) + 1>> \o r \in Seq(Coded)
         /\ \E d2 : /\ Between(d2) /\ Reads(StartDecoding, w \o <<Len(r) + 1>> \o r, d2)
                    /\ Held(d2) = Content(d) \o r
                    /\ d2.zero = (Len(r) + 1 # FullCode)
<1> DEFINE c == <<Len(r) + 1>>
<1>1. c \in Seq(Coded)
  BY DEF Coded
<1>2. PICK d2 : /\ Between(d2) /\ Reads(d, c \o r, d2) /\ Held(d2) = Content(d) \o r
                /\ d2.zero = (Len(r) + 1 # FullCode)
  BY ReadsRun
<1> HIDE DEF c
<1>3. c \o r \in Seq(Coded) /\ (w \o c) \o r = w \o (c \o r) /\ w \o (c \o r) \in Seq(Coded)
  <2>1. c \o r \in Seq(Coded)
    BY <1>1, ConcatProperties
  <2>2. (w \o c) \o r = w \o (c \o r)
    BY <1>1, ConcatAssociative
  <2> QED BY <2>1, <2>2, ConcatProperties
<1>4. Reads(StartDecoding, (w \o c) \o r, d2)
  BY <1>2, <1>3, ReadsOn
<1> QED BY <1>2, <1>3, <1>4 DEF c

Encoders == [wire : Seq(Coded), run : Seq(Coded)]

LEMMA EncodedByte ==
  ASSUME NEW s \in Seq(Nat), NEW e \in Encoders, NEW k \in Nat, k < Len(s), Encoded(e, s, k)
  PROVE  Encoded(EncodeByte(e, s[k + 1]), s, k + 1)
<1> DEFINE b == s[k + 1]
           n == EncodeByte(e, b)
<1>1. PICK d : /\ Between(d) /\ Reads(StartDecoding, e.wire, d)
               /\ Content(d) \o e.run = SubSeq(s, 1, k)
  BY DEF Encoded
<1>2. /\ e.wire \in Seq(Coded) /\ e.run \in Seq(Coded) /\ Len(e.run) + 2 <= FullCode
      /\ e.run \in Seq(Nat)
  BY CodedIsNat DEF Encoded
<1>3. k + 1 \in 1..Len(s) /\ b \in Nat /\ Len(s) \in Nat /\ Len(e.run) \in Nat
  BY <1>2, ElementOfSeq
<1>4. SubSeq(s, 1, k + 1) = SubSeq(s, 1, k) \o <<b>>
  <2>1. 1 \in 1..Len(s) /\ k + 1 \in 1..Len(s) /\ (k + 1) - 1 = k
    BY <1>3
  <2> QED BY <2>1, SubSeqRecursiveSecond
<1>5. /\ Content(d) \in Seq(Nat) /\ <<b>> \in Seq(Nat)
      /\ (Content(d) \o e.run) \o <<b>> = Content(d) \o (e.run \o <<b>>)
  <2>1. Content(d) \in Seq(Nat) /\ <<b>> \in Seq(Nat)
    BY <1>1, <1>3, ContentType DEF Between
  <2> QED BY <1>2, <2>1, CatAssoc, Zenon
<1>6. FullCode \in Nat /\ FullCode > 1 /\ <<>> \in Seq(Coded) /\ Len(<<>>) = 0
  BY CobsAssumption
<1> HIDE DEF b
<1> DEFINE v == e.wire
           q == e.run
<1>a. /\ v \in Seq(Coded) /\ q \in Seq(Coded) /\ q \in Seq(Nat) /\ Len(q) \in Nat
      /\ Len(q) + 2 <= FullCode /\ Reads(StartDecoding, v, d) /\ Between(d)
      /\ Content(d) \o q = SubSeq(s, 1, k)
      /\ (Content(d) \o q) \o <<b>> = Content(d) \o (q \o <<b>>)
  BY <1>1, <1>2, <1>3, <1>5
<1>b. n = IF b = 0 THEN [wire |-> v \o <<Len(q) + 1>> \o q, run |-> <<>>]
          ELSE IF Len(q) + 2 = FullCode
               THEN [wire |-> v \o <<FullCode>> \o Append(q, b), run |-> <<>>]
               ELSE [e EXCEPT !.run = Append(q, b)]
  BY DEF EncodeByte
<1>c. v \in Seq(Coded) /\ Between(d) /\ Reads(StartDecoding, v, d)
  BY <1>a
<1> HIDE DEF n, v, q
<1>d. SUFFICES Encoded(n, s, k + 1)
  BY DEF n, b
<1>7. CASE b = 0
  <2> DEFINE w == v \o <<Len(q) + 1>> \o q
  <2>1. n.wire = w /\ n.run = <<>>
    BY <1>b, <1>7
  <2>2. Len(q) + 1 <= FullCode /\ Len(q) + 1 # FullCode
    BY <1>a, <1>6
  <2>3. w \in Seq(Coded)
    BY <1>a, <1>c, <2>2, WireGrows
  <2>4. PICK d2 : /\ Between(d2) /\ Reads(StartDecoding, w, d2)
                  /\ Held(d2) = Content(d) \o q
                  /\ d2.zero = (Len(q) + 1 # FullCode)
    BY <1>a, <1>c, <2>2, WireGrows
  <2>5. Content(d2) = Held(d2) \o <<b>>
    BY <1>7, <2>2, <2>4, ContentOf
  <2>6. Content(d2) = SubSeq(s, 1, k + 1)
    BY <1>4, <1>a, <2>4, <2>5
  <2>7. Content(d2) \o <<>> = Content(d2)
    BY <2>4, ContentType, ConcatEmptySeq DEF Between
  <2> HIDE DEF w
  <2>8. n.run \in Seq(Coded) /\ Len(n.run) + 2 <= FullCode
    BY <1>6, <2>1
  <2>9. n.wire \in Seq(Coded) /\ Reads(StartDecoding, n.wire, d2)
        /\ Content(d2) \o n.run = SubSeq(s, 1, k + 1)
    BY <2>1, <2>3, <2>4, <2>6, <2>7
  <2> QED BY <2>4, <2>8, <2>9 DEF Encoded
<1>8. CASE b # 0 /\ Len(q) + 2 = FullCode
  <2> DEFINE r == Append(q, b)
             w == v \o <<Len(r) + 1>> \o r
  <2>1. r \in Seq(Coded) /\ Len(r) + 1 = FullCode /\ r = q \o <<b>>
    <3>1. b \in Coded
      BY <1>3, <1>8 DEF Coded
    <3>2. r \in Seq(Coded) /\ Len(r) = Len(q) + 1 /\ r = q \o <<b>>
      BY <1>a, <3>1, AppendProperties, AppendIsConcat
    <3> QED BY <1>a, <1>6, <1>8, <3>2
  <2>2. n.wire = w /\ n.run = <<>>
    BY <1>b, <1>8, <2>1
  <2> HIDE DEF r
  <2>3. r \in Seq(Coded) /\ Len(r) + 1 <= FullCode
    BY <1>6, <2>1
  <2>4. w \in Seq(Coded)
    BY <1>c, <2>3, WireGrows
  <2>5. PICK d2 : /\ Between(d2) /\ Reads(StartDecoding, w, d2)
                  /\ Held(d2) = Content(d) \o r
                  /\ d2.zero = (Len(r) + 1 # FullCode)
    BY <1>c, <2>3, WireGrows
  <2>6. Content(d2) = Held(d2) \o <<>> /\ Held(d2) \o <<>> = Held(d2)
    <3>1. ~d2.zero
      BY <2>1, <2>5
    <3>2. Held(d2) \in Seq(Nat)
      BY <2>5, ContentType DEF Between
    <3> QED BY <3>1, <3>2, ContentOf, ConcatEmptySeq
  <2>7. Content(d2) = SubSeq(s, 1, k + 1)
    BY <1>4, <1>a, <2>1, <2>5, <2>6
  <2>8. Content(d2) \o <<>> = Content(d2)
    BY <2>6
  <2> HIDE DEF w
  <2>9. n.run \in Seq(Coded) /\ Len(n.run) + 2 <= FullCode
    BY <1>6, <2>2
  <2>10. n.wire \in Seq(Coded) /\ Reads(StartDecoding, n.wire, d2)
         /\ Content(d2) \o n.run = SubSeq(s, 1, k + 1)
    BY <2>2, <2>4, <2>5, <2>7, <2>8
  <2> QED BY <2>5, <2>9, <2>10 DEF Encoded
<1>9. CASE b # 0 /\ Len(q) + 2 # FullCode
  <2> DEFINE r == Append(q, b)
  <2>1. r \in Seq(Coded) /\ Len(r) + 2 <= FullCode /\ r = q \o <<b>>
    <3>1. b \in Coded
      BY <1>3, <1>9 DEF Coded
    <3>2. r \in Seq(Coded) /\ Len(r) = Len(q) + 1 /\ r = q \o <<b>>
      BY <1>a, <3>1, AppendProperties, AppendIsConcat
    <3>3. Len(q) + 3 <= FullCode
      BY <1>a, <1>6, <1>9
    <3> HIDE DEF r
    <3> QED BY <1>a, <1>6, <3>2, <3>3
  <2>2. n = [e EXCEPT !.run = r]
    BY <1>b, <1>9
  <2> HIDE DEF r
  <2>3. n.wire = v /\ n.run = r
    BY <2>2 DEF v, Encoders
  <2>4. Content(d) \o r = SubSeq(s, 1, k + 1)
    BY <1>4, <1>a, <2>1
  <2> QED BY <1>a, <2>1, <2>3, <2>4 DEF Encoded
<1> QED BY <1>7, <1>8, <1>9

LEMMA EncoderIsRecord ==
  ASSUME NEW e \in Encoders, NEW b
  PROVE  LET n == EncodeByte(e, b) IN n = [wire |-> n.wire, run |-> n.run]
<1> DEFINE v == e.wire \o <<Len(e.run) + 1>> \o e.run
           w == e.wire \o <<FullCode>> \o Append(e.run, b)
           r == Append(e.run, b)
           n == EncodeByte(e, b)
<1>1. n = IF b = 0 THEN [wire |-> v, run |-> <<>>]
          ELSE IF Len(e.run) + 2 = FullCode THEN [wire |-> w, run |-> <<>>]
               ELSE [e EXCEPT !.run = r]
  BY DEF EncodeByte
<1> HIDE DEF v, w, r, n
<1>2. n = [wire |-> n.wire, run |-> n.run]
  BY <1>1 DEF Encoders
<1> QED BY <1>2 DEF n

(* After each byte, what is on the wire and in the run stands for the bytes so far. *)
LEMMA EncoderKeepsUp ==
  ASSUME NEW s \in Seq(Nat), NEW e, Encoding(e, s)
  PROVE  e[Len(s)] \in Encoders /\ Encoded(e[Len(s)], s, Len(s))
<1> DEFINE S == {k \in Nat : k <= Len(s) => e[k] \in Encoders /\ Encoded(e[k], s, k)}
<1>0. Len(s) \in Nat
  OBVIOUS
<1>1. 0 \in S
  <2>1. e[0] = NothingEncoded
    BY DEF Encoding
  <2>2. <<>> \in Seq(Coded) /\ Len(<<>>) = 0 /\ FullCode \in Nat /\ FullCode > 1
    BY CobsAssumption
  <2>3. NothingEncoded \in Encoders
    BY <2>2 DEF NothingEncoded, Encoders
  <2>4. Between(StartDecoding) /\ Content(StartDecoding) = <<>>
    <3>1. Decodes(StartDecoding) /\ StartDecoding.run = 0 /\ StartDecoding.zero = FALSE
      BY DEF StartDecoding, Decodes, Decoding
    <3>2. Held(StartDecoding) = <<>>
      BY DEF Held, StartDecoding
    <3>3. Content(StartDecoding) = <<>>
      BY <3>1, <3>2 DEF Content
    <3> QED BY <3>1, <3>3 DEF Between
  <2>5. Reads(StartDecoding, <<>>, StartDecoding)
    BY ReadsNothing
  <2>6. SubSeq(s, 1, 0) = <<>> /\ <<>> \o <<>> = <<>>
    BY SubSeqEmpty
  <2>7. NothingEncoded.wire = <<>> /\ NothingEncoded.run = <<>>
    BY DEF NothingEncoded
  <2>8. Encoded(NothingEncoded, s, 0)
    <3>1. Len(NothingEncoded.run) + 2 <= FullCode
      BY <2>2, <2>7
    <3> HIDE DEF NothingEncoded
    <3> QED BY <2>2, <2>4, <2>5, <2>6, <2>7, <3>1 DEF Encoded
  <2> QED BY <2>1, <2>3, <2>8
<1>2. ASSUME NEW k \in Nat, k \in S PROVE k + 1 \in S
  <2> SUFFICES ASSUME k + 1 <= Len(s) PROVE e[k + 1] \in Encoders /\ Encoded(e[k + 1], s, k + 1)
    OBVIOUS
  <2>1. k < Len(s) /\ k + 1 \in 1..Len(s) /\ (k + 1) - 1 = k /\ k <= Len(s)
    BY <1>0
  <2>2. e[k] \in Encoders /\ Encoded(e[k], s, k)
    BY <1>2, <2>1
  <2>3. e[k + 1] = EncodeByte(e[k], s[k + 1])
    BY <2>1 DEF Encoding
  <2> HIDE DEF S
  <2>4. Encoded(EncodeByte(e[k], s[k + 1]), s, k + 1)
    BY <2>1, <2>2, EncodedByte
  <2>5. EncodeByte(e[k], s[k + 1]) = [wire |-> EncodeByte(e[k], s[k + 1]).wire,
                                      run |-> EncodeByte(e[k], s[k + 1]).run]
    BY <2>2, EncoderIsRecord
  <2>6. EncodeByte(e[k], s[k + 1]) \in Encoders
    BY <2>4, <2>5 DEF Encoded, Encoders
  <2> QED BY <2>3, <2>4, <2>6
<1> HIDE DEF S
<1>3. Nat \subseteq S
  BY <1>1, <1>2, SetInduction
<1>4. Len(s) \in S /\ Len(s) <= Len(s)
  BY <1>0, <1>3
<1> QED BY <1>4 DEF S

(* A frame without its delimiter. *)
Body(e, crc) == IF crc = 0 THEN e.wire \o <<Len(e.run) + 1>> \o e.run \o <<1>>
                ELSE e.wire \o <<Len(e.run) + 2>> \o e.run \o <<crc>>

LEMMA EncodeIs ==
  ASSUME NEW p \in Seq(Nat)
  PROVE  \E e : /\ e \in Encoders /\ Encoded(e, p, Len(p))
                /\ Encode(p) = Body(e, Crc(p)) \o <<Delimiter>>
<1> DEFINE x == FoldLeft(EncodeByte, NothingEncoded, p)
<1>1. PICK e : Encoding(e, p) /\ x = e[Len(p)]
  BY FoldOfBytes
<1>2. x \in Encoders /\ Encoded(x, p, Len(p))
  BY <1>1, EncoderKeepsUp
<1>3. Encode(p) = Body(x, Crc(p)) \o <<Delimiter>>
  BY Zenon DEF Encode, Body, NothingEncoded
<1> HIDE DEF x
<1> QED BY <1>2, <1>3

(* The whole frame, up to its delimiter, reads as the payload and its checksum. *)
LEMMA BodyReads ==
  ASSUME NEW p \in Seq(Nat), NEW e \in Encoders, Encoded(e, p, Len(p)), NEW c \in Nat
  PROVE  /\ Body(e, c) \in Seq(Coded)
         /\ \E d : Between(d) /\ Reads(StartDecoding, Body(e, c), d) /\ Held(d) = p \o <<c>>
<1> DEFINE v == e.wire
           q == e.run
<1>1. PICK d : /\ Between(d) /\ Reads(StartDecoding, v, d)
               /\ Content(d) \o q = SubSeq(p, 1, Len(p))
  BY DEF Encoded
<1>2. /\ v \in Seq(Coded) /\ q \in Seq(Coded) /\ Len(q) + 2 <= FullCode
      /\ q \in Seq(Nat) /\ Len(q) \in Nat
  BY CodedIsNat DEF Encoded
<1>3. Content(d) \o q = p /\ Content(d) \in Seq(Nat) /\ FullCode \in Nat
  BY <1>1, SubSeqFull, ContentType, CobsAssumption DEF Between
<1>4. v \in Seq(Coded) /\ Between(d) /\ Reads(StartDecoding, v, d)
  BY <1>1, <1>2
<1>5. CASE c = 0
  <2> DEFINE w == v \o <<Len(q) + 1>> \o q
             z == <<>>
             y == <<Len(z) + 1>> \o z
  <2>1. Len(q) + 1 <= FullCode /\ Len(q) + 1 # FullCode
    BY <1>2, <1>3
  <2> HIDE DEF v, q
  <2>2. w \in Seq(Coded)
    BY <1>2, <1>4, <2>1, WireGrows
  <2>3. PICK a : /\ Between(a) /\ Reads(StartDecoding, w, a)
                 /\ Held(a) = Content(d) \o q /\ a.zero = (Len(q) + 1 # FullCode)
    BY <1>2, <1>4, <2>1, WireGrows
  <2>4. z \in Seq(Coded) /\ Len(z) + 1 <= FullCode /\ y = <<1>> /\ y \in Seq(Coded)
    BY CobsAssumption DEF Coded
  <2> HIDE DEF w, z, y
  <2>5. PICK b : Between(b) /\ Reads(a, y, b) /\ Held(b) = Content(a) \o z
    BY <2>3, <2>4, ReadsRun DEF y
  <2>6. Content(a) = p \o <<0>>
    BY <1>3, <2>1, <2>3, ContentOf
  <2>7. Held(b) = p \o <<c>>
    <3>1. Content(a) \o <<>> = Content(a)
      BY <2>3, ContentType, ConcatEmptySeq DEF Between
    <3> QED BY <1>5, <2>5, <2>6, <3>1 DEF z
  <2>8. Reads(StartDecoding, w \o y, b) /\ w \o y \in Seq(Coded)
    BY <2>2, <2>3, <2>4, <2>5, ReadsOn, ConcatProperties
  <2>9. Body(e, c) = w \o y
    BY <1>5, <2>4, Zenon DEF Body, w, v, q
  <2> QED BY <2>5, <2>7, <2>8, <2>9
<1>6. CASE c # 0
  <2> DEFINE r == q \o <<c>>
             w == v \o <<Len(r) + 1>> \o r
  <2>1. r \in Seq(Coded) /\ Len(r) = Len(q) + 1
    <3>1. c \in Coded /\ <<c>> \in Seq(Coded) /\ Len(<<c>>) = 1
      BY <1>6 DEF Coded
    <3> QED BY <1>2, <3>1, ConcatProperties
  <2>2. Len(r) + 1 <= FullCode /\ Len(r) + 1 = Len(q) + 2
    BY <1>2, <1>3, <2>1
  <2> HIDE DEF r, v, q
  <2>3. w \in Seq(Coded)
    BY <1>4, <2>1, <2>2, WireGrows
  <2>4. PICK a : /\ Between(a) /\ Reads(StartDecoding, w, a)
                 /\ Held(a) = Content(d) \o r /\ a.zero = (Len(r) + 1 # FullCode)
    BY <1>4, <2>1, <2>2, WireGrows
  <2>5. Content(d) \o r = p \o <<c>>
    <3>1. <<c>> \in Seq(Nat)
      OBVIOUS
    <3>2. Content(d) \o (q \o <<c>>) = (Content(d) \o q) \o <<c>>
      BY <1>2, <1>3, <3>1, CatAssoc, Zenon
    <3> QED BY <1>3, <3>2 DEF r
  <2>6. Body(e, c) = w
    <3>1. Body(e, c) = v \o <<Len(q) + 2>> \o q \o <<c>>
      BY <1>6, Zenon DEF Body, v, q
    <3>2. (v \o <<Len(q) + 2>>) \in Seq(Nat) /\ <<c>> \in Seq(Nat)
      <4>1. v \in Seq(Nat) /\ <<Len(q) + 2>> \in Seq(Nat)
        BY <1>2, CodedIsNat
      <4> QED BY <4>1, ConcatProperties
    <3>3. ((v \o <<Len(q) + 2>>) \o q) \o <<c>> = (v \o <<Len(q) + 2>>) \o (q \o <<c>>)
      BY <1>2, <3>2, CatAssoc, Zenon
    <3> QED BY <2>2, <3>1, <3>3 DEF r
  <2> HIDE DEF w
  <2> QED BY <2>3, <2>4, <2>5, <2>6
<1> QED BY <1>5, <1>6

(* Nothing is committed before a byte is held back. *)
Filling(d) == Decodes(d) /\ (d.last = <<>> => d.out = <<>>)

LEMMA HeldGrows ==
  ASSUME NEW d, Filling(d), NEW b \in Coded
  PROVE  /\ Filling(DecodeByte(d, b))
         /\ Len(Held(DecodeByte(d, b))) = Len(Held(d)) + (IF Pushes(d) THEN 1 ELSE 0)
         /\ Len(Held(d)) \in Nat
<1> DEFINE n == DecodeByte(d, b)
<1>1. Decodes(d) /\ b \in Nat /\ d.run \in Nat /\ d.zero \in BOOLEAN
  BY DEF Filling, Decodes, Decoding, Coded
<1>2. Held(d) \in Seq(Nat) /\ Len(Held(d)) \in Nat
  BY <1>1, ContentType
<1>3. ASSUME NEW x \in Nat PROVE Len(Held(d) \o <<x>>) = Len(Held(d)) + 1
  BY <1>2, ConcatProperties
<1>4. CASE d.run > 0
  <2>1. Decodes(n) /\ Held(n) = Held(d) \o <<b>> /\ n.last = <<b>>
    BY <1>1, <1>4, DataByteIs
  <2>2. Pushes(d) /\ <<b>> # <<>>
    BY <1>4 DEF Pushes
  <2> HIDE DEF n
  <2>3. Len(Held(n)) = Len(Held(d)) + 1
    BY <1>1, <1>3, <2>1
  <2> QED BY <1>2, <2>1, <2>2, <2>3 DEF Filling, n
<1>5. CASE d.run = 0
  <2>1. Decodes(n) /\ Held(n) = Content(d)
    BY <1>1, <1>5, CodeByteIs
  <2>2. Pushes(d) <=> d.zero
    BY <1>5 DEF Pushes
  <2>3. Len(Held(n)) = Len(Held(d)) + (IF Pushes(d) THEN 1 ELSE 0)
    <3> HIDE DEF n
    <3>1. CASE d.zero
      BY <1>3, <2>1, <2>2, <3>1, ContentOf
    <3>2. CASE ~d.zero
      <4>1. Content(d) = Held(d)
        BY <1>2, <3>2, ContentOf, ConcatEmptySeq
      <4> QED BY <1>2, <2>1, <2>2, <3>2, <4>1
    <3> QED BY <3>1, <3>2
  <2>4. n.last = <<>> => n.out = <<>>
    <3> DEFINE e == IF d.zero THEN Push(d, 0) ELSE d
               f == b = FullCode
               z == b = 1
    <3>1. n = [e EXCEPT !.run = b - 1, !.full = f, !.zero = z]
      BY <1>5 DEF DecodeByte, CodeByte
    <3>2. e \in Decoding /\ (e.last = <<>> => e.out = <<>>)
      <4>1. CASE d.zero
        <5>1. Decodes(Push(d, 0))
          BY <1>1, PushIs
        <5>2. Push(d, 0) = [out |-> Held(d), run |-> d.run, full |-> d.full,
                            zero |-> d.zero, last |-> <<0>>]
          BY <1>1, PushIs
        <5>3. Push(d, 0).last = <<0>> /\ <<0>> # <<>>
          BY <5>2
        <5> QED BY <4>1, <5>1, <5>3 DEF Decodes
      <4>2. CASE ~d.zero
        BY <1>1, <4>2 DEF Filling, Decodes
      <4> QED BY <4>1, <4>2
    <3> HIDE DEF e, f, z, n
    <3>3. n.out = e.out /\ n.last = e.last
      BY <3>1, <3>2 DEF Decoding
    <3> QED BY <3>2, <3>3
  <2> HIDE DEF n
  <2> QED BY <1>2, <2>1, <2>3, <2>4 DEF Filling, n
<1> QED BY <1>1, <1>4, <1>5

LEMMA KeepsFilling ==
  ASSUME NEW w \in Seq(Coded), NEW f, Decoded(f, StartDecoding, w)
  PROVE  \A k \in 0..Len(w) : Filling(f[k])
<1> DEFINE S == {k \in Nat : k <= Len(w) => Filling(f[k])}
<1>1. 0 \in S
  <2>1. Filling(StartDecoding)
    BY DEF Filling, StartDecoding, Decodes, Decoding
  <2> QED BY <2>1 DEF Decoded
<1>2. ASSUME NEW k \in Nat, k \in S PROVE k + 1 \in S
  <2> SUFFICES ASSUME k + 1 <= Len(w) PROVE Filling(f[k + 1])
    OBVIOUS
  <2>1. k + 1 \in 1..Len(w) /\ (k + 1) - 1 = k /\ k <= Len(w) /\ w[k + 1] \in Coded
    BY ElementOfSeq
  <2>2. Filling(f[k])
    BY <1>2, <2>1
  <2>3. f[k + 1] = DecodeByte(f[k], w[k + 1])
    BY <2>1 DEF Decoded
  <2> QED BY <2>1, <2>2, <2>3, HeldGrows
<1> HIDE DEF S
<1>3. Nat \subseteq S
  BY <1>1, <1>2, SetInduction
<1>4. \A k \in Nat : k <= Len(w) => Filling(f[k])
  BY <1>3 DEF S
<1> QED BY <1>4

LEMMA HeldNoLonger ==
  ASSUME NEW w \in Seq(Coded), NEW f, Decoded(f, StartDecoding, w)
  PROVE  \A k \in 0..Len(w) : Len(Held(f[k])) <= Len(Held(f[Len(w)]))
<1> DEFINE m == Len(w)
           S == {i \in Nat : i <= m => Len(Held(f[m - i])) <= Len(Held(f[m]))}
<1>0. m \in Nat
  OBVIOUS
<1>1. \A k \in 0..m : Filling(f[k])
  BY KeepsFilling
<1>2. \A k \in 0..m : Len(Held(f[k])) \in Nat
  <2> TAKE k \in 0..m
  <2>1. 1 \in Coded /\ Filling(f[k])
    BY <1>1 DEF Coded
  <2> QED BY <2>1, HeldGrows
<1>3. 0 \in S
  <2>1. m - 0 = m /\ Len(Held(f[m])) \in Nat
    BY <1>0, <1>2
  <2> HIDE DEF m
  <2> QED BY <2>1
<1>4. ASSUME NEW i \in Nat, i \in S PROVE i + 1 \in S
  <2> SUFFICES ASSUME i + 1 <= m PROVE Len(Held(f[m - (i + 1)])) <= Len(Held(f[m]))
    OBVIOUS
  <2>1. /\ m - i \in 1..m /\ (m - i) - 1 = m - (i + 1) /\ i <= m
        /\ m - (i + 1) \in 0..m /\ m \in 0..m /\ m - i \in 0..m
    BY <1>0
  <2>2. w[m - i] \in Coded
    BY <2>1, ElementOfSeq
  <2>3. f[m - i] = DecodeByte(f[m - (i + 1)], w[m - i])
    BY <2>1 DEF Decoded
  <2>4. Len(Held(f[m - i])) <= Len(Held(f[m]))
    BY <1>4, <2>1
  <2>5. Filling(f[m - (i + 1)])
    BY <1>1, <2>1
  <2>6. Len(Held(f[m - i])) = Len(Held(f[m - (i + 1)])) + (IF Pushes(f[m - (i + 1)]) THEN 1 ELSE 0)
    BY <2>2, <2>3, <2>5, HeldGrows
  <2>7. /\ Len(Held(f[m - i])) \in Nat /\ Len(Held(f[m - (i + 1)])) \in Nat
        /\ Len(Held(f[m])) \in Nat
    BY <1>2, <2>1
  <2> QED BY <2>4, <2>6, <2>7
<1> HIDE DEF S
<1>5. Nat \subseteq S
  BY <1>3, <1>4, SetInduction
<1>6. ASSUME NEW k \in 0..m PROVE Len(Held(f[k])) <= Len(Held(f[m]))
  <2>1. m - k \in Nat /\ m - k <= m /\ m - (m - k) = k
    BY <1>0
  <2>2. m - k \in S
    BY <1>5, <2>1
  <2> QED BY <2>1, <2>2 DEF S
<1> QED BY <1>6

-----------------------------------------------------------------------------
(* What the decoder holds along the frame of payload p, up to its delimiter: it never
   overruns a buffer that has room for the payload, and ends with the payload. *)
Whole(f, p) ==
  LET w == Encode(p)
      n == Len(w) - 1
  IN  /\ w \in Seq(Nat) /\ n \in Nat /\ w[n + 1] = Delimiter
      /\ f[0] = StartDecoding
      /\ \A k \in 1..n :
           /\ w[k] # Delimiter
           /\ f[k] = DecodeByte(f[k - 1], w[k])
           /\ \A cap \in Nat : Len(p) <= cap => ~Overruns(f[k - 1], cap)
      /\ Finish(f[n]) = "payload" /\ f[n].out = p

LEMMA LastOf ==
  ASSUME NEW s \in Seq(Nat), NEW t \in Seq(Nat), NEW p \in Seq(Nat), NEW c \in Nat,
         Len(t) <= 1, t = <<>> => s = <<>>, s \o t = p \o <<c>>
  PROVE  s = p /\ t = <<c>>
<1>1. Len(s \o t) = Len(s) + Len(t) /\ Len(p \o <<c>>) = Len(p) + 1
  BY ConcatProperties
<1>2. Len(s) \in Nat /\ Len(t) \in Nat /\ Len(p) \in Nat
  OBVIOUS
<1>3. t # <<>>
  <2> SUFFICES ASSUME t = <<>> PROVE FALSE
    OBVIOUS
  <2>1. Len(s) = 0 /\ Len(t) = 0
    OBVIOUS
  <2> QED BY <1>1, <1>2, <2>1
<1>4. Len(t) = 1
  BY <1>2, <1>3, EmptySeq
<1>5. t = <<t[1]>> /\ t[1] \in Nat
  BY <1>4, ElementOfSeq
<1>6. s \o t = Append(s, t[1]) /\ p \o <<c>> = Append(p, c)
  <2>1. Append(s, t[1]) = s \o <<t[1]>>
    BY <1>5, AppendIsConcat
  <2>2. Append(p, c) = p \o <<c>>
    BY AppendIsConcat
  <2> QED BY <1>5, <2>1, <2>2
<1>7. Append(s, t[1]) = Append(p, c)
  BY <1>6
<1>8. s = p /\ t[1] = c
  BY <1>5, <1>7, AppendInjective
<1> QED BY <1>5, <1>8

(* rurp_communication_write, rurp_communication_read_data: the frame of any payload has its
   only 0 at its end, and the decoder, started on it, reads it back as that payload with a
   good checksum - and has room on the way if the payload fits: for every length of a run,
   zeros and full runs at the end of the payload included.  The firmware calls its encoder
   for RESPONSE_CODE_DATA alone, which no driver sets; the same encoding is what a host sends,
   and Encode stands for that in Link: this theorem says WholeFramesDecoded compares with
   the frames that read_data is meant to take. *)
THEOREM FramesReadAsTheirPayload ==
  ASSUME NEW p \in Seq(Nat), Crc(p) \in Nat
  PROVE  \E f : Whole(f, p)
<1> DEFINE c == Crc(p)
           w == Encode(p)
           n == Len(w) - 1
<1>1. PICK e : e \in Encoders /\ Encoded(e, p, Len(p)) /\ w = Body(e, c) \o <<Delimiter>>
  BY EncodeIs
<1> DEFINE b == Body(e, c)
<1>2. b \in Seq(Coded)
  BY <1>1, BodyReads
<1>3. PICK d : Between(d) /\ Reads(StartDecoding, b, d) /\ Held(d) = p \o <<c>>
  BY <1>1, BodyReads
<1>4. PICK f : Decoded(f, StartDecoding, b) /\ f[Len(b)] = d
  BY <1>3 DEF Reads
<1>5. w = b \o <<Delimiter>>
  BY <1>1
<1>6. Len(p) \in Nat /\ c \in Nat
  OBVIOUS
<1> HIDE DEF w, b, c
<1>7. /\ w \in Seq(Nat) /\ Len(w) = Len(b) + 1 /\ Len(b) \in Nat
      /\ w[Len(b) + 1] = Delimiter /\ \A k \in 1..Len(b) : w[k] = b[k] /\ b[k] \in Coded
  <2>1. b \in Seq(Nat) /\ <<Delimiter>> \in Seq(Nat) /\ Len(<<Delimiter>>) = 1
    BY <1>2, CodedIsNat DEF Delimiter
  <2>2. <<Delimiter>>[1] = Delimiter /\ Len(b) \in Nat
    BY <2>1
  <2>3. \A k \in 1..Len(b) : b[k] \in Coded
    BY <1>2, ElementOfSeq
  <2>4. w \in Seq(Nat) /\ Len(w) = Len(b) + 1
    BY <1>5, <2>1, ConcatProperties
  <2>5. \A i \in 1..(Len(b) + Len(<<Delimiter>>)) :
          w[i] = IF i <= Len(b) THEN b[i] ELSE <<Delimiter>>[i - Len(b)]
    BY <1>5, <2>1, ConcatProperties
  <2>6. w[Len(b) + 1] = Delimiter
    <3>1. Len(b) + 1 \in 1..(Len(b) + Len(<<Delimiter>>)) /\ ~(Len(b) + 1 <= Len(b))
          /\ (Len(b) + 1) - Len(b) = 1
      BY <2>1, <2>2
    <3> QED BY <2>2, <2>5, <3>1
  <2>7. \A k \in 1..Len(b) : w[k] = b[k]
    BY <2>1, <2>2, <2>5
  <2> QED BY <2>2, <2>3, <2>4, <2>6, <2>7
<1>8. n = Len(b)
  BY <1>7
<1> HIDE DEF n
<1>9. \A k \in 0..n : Filling(f[k]) /\ Len(Held(f[k])) <= Len(Held(d))
  BY <1>2, <1>4, <1>8, KeepsFilling, HeldNoLonger
<1>10. d.out = p /\ d.last = <<c>> /\ d.run = 0
  <2>1. Filling(d)
    <3>1. n \in 0..n /\ f[n] = d
      BY <1>4, <1>7, <1>8
    <3> QED BY <1>9, <3>1
  <2>2. d.out \in Seq(Nat) /\ d.last \in Seq(Nat) /\ Len(d.last) <= 1
    BY <2>1 DEF Filling, Decodes, Decoding
  <2>3. d.last = <<>> => d.out = <<>>
    BY <2>1 DEF Filling
  <2>4. d.out \o d.last = p \o <<c>>
    BY <1>3 DEF Held
  <2>5. d.out = p /\ d.last = <<c>>
    <3> DEFINE s == d.out
               t == d.last
    <3>1. /\ s \in Seq(Nat) /\ t \in Seq(Nat) /\ Len(t) <= 1 /\ (t = <<>> => s = <<>>)
          /\ s \o t = p \o <<c>> /\ c \in Nat
      BY <1>6, <2>2, <2>3, <2>4
    <3> HIDE DEF s, t
    <3>2. s = p /\ t = <<c>>
      BY <3>1, LastOf
    <3> QED BY <3>2 DEF s, t
  <2> QED BY <1>3, <2>5 DEF Between
<1>11. Finish(d) = "payload"
  <2>1. <<c>> # <<>>
    OBVIOUS
  <2>2. d.run = 0 /\ d.last = <<Crc(d.out)>> /\ d.last # <<>>
    BY <1>10, <2>1 DEF c
  <2> QED BY <2>2 DEF Finish
<1>12. Len(Held(d)) = Len(p) + 1
  BY <1>3, <1>6, ConcatProperties
<1>13. ASSUME NEW k \in 1..n PROVE /\ w[k] # Delimiter
                                   /\ f[k] = DecodeByte(f[k - 1], w[k])
                                   /\ \A cap \in Nat : Len(p) <= cap => ~Overruns(f[k - 1], cap)
  <2>1. k \in 1..Len(b) /\ k \in 0..n /\ k - 1 \in 0..n
    BY <1>7, <1>8
  <2>2. w[k] = b[k] /\ b[k] \in Coded /\ f[k] = DecodeByte(f[k - 1], b[k])
    BY <1>4, <1>7, <2>1 DEF Decoded
  <2>3. Filling(f[k - 1]) /\ Len(Held(f[k])) <= Len(p) + 1
    BY <1>9, <1>12, <2>1
  <2>4. ASSUME NEW cap \in Nat, Len(p) <= cap, Overruns(f[k - 1], cap) PROVE FALSE
    <3>1. Pushes(f[k - 1]) /\ f[k - 1].last # <<>> /\ Len(f[k - 1].out) >= cap
      BY <2>4 DEF Overruns
    <3>2. Len(Held(f[k])) = Len(Held(f[k - 1])) + 1
      BY <2>2, <2>3, <3>1, HeldGrows
    <3>3. f[k - 1].out \in Seq(Nat) /\ f[k - 1].last \in Seq(Nat)
      BY <2>3 DEF Filling, Decodes, Decoding
    <3>4. Len(f[k - 1].out) \in Nat /\ Len(f[k - 1].last) \in Nat /\ Len(f[k - 1].last) # 0
      BY <3>1, <3>3, EmptySeq
    <3>5. Len(Held(f[k - 1])) = Len(f[k - 1].out) + Len(f[k - 1].last)
      BY <3>3, ConcatProperties DEF Held
    <3> DEFINE x == Len(Held(f[k - 1]))
               y == Len(Held(f[k]))
               o == Len(f[k - 1].out)
               l == Len(f[k - 1].last)
    <3>6. /\ x = o + l /\ y = x + 1 /\ y <= Len(p) + 1 /\ Len(p) <= cap /\ o >= cap
          /\ o \in Nat /\ l \in Nat /\ l # 0 /\ Len(p) \in Nat /\ cap \in Nat
      BY <1>6, <2>3, <2>4, <3>1, <3>2, <3>4, <3>5
    <3> HIDE DEF x, y, o, l
    <3> QED BY <3>6
  <2>5. w[k] # Delimiter
    BY <2>2 DEF Coded, Delimiter
  <2> QED BY <2>2, <2>4, <2>5
<1>14. n \in Nat /\ w[n + 1] = Delimiter /\ w \in Seq(Nat)
  BY <1>7, <1>8
<1>15. f[0] = StartDecoding /\ Finish(f[n]) = "payload" /\ f[n].out = p
  BY <1>4, <1>8, <1>10, <1>11 DEF Decoded
<1>16. Whole(f, p)
  BY <1>13, <1>14, <1>15 DEF Whole, w, n
<1> QED BY <1>16

LEMMA EncodeType ==
  ASSUME NEW p \in Seq(Nat)
  PROVE  Encode(p) \in Seq(Nat \cup {Crc(p)}) /\ Encode(p) # <<>>
<1> DEFINE c == Crc(p)
           T == Nat \cup {c}
<1>1. PICK e : e \in Encoders /\ Encoded(e, p, Len(p)) /\ Encode(p) = Body(e, c) \o <<Delimiter>>
  BY EncodeIs
<1>2. e.wire \in Seq(Coded) /\ e.run \in Seq(Coded)
  BY <1>1 DEF Encoders
<1> HIDE DEF c
<1>3. e.wire \in Seq(T) /\ e.run \in Seq(T) /\ Len(e.run) \in Nat
  <2>1. Coded \subseteq T
    BY DEF Coded
  <2> HIDE DEF T
  <2> QED BY <1>2, <2>1, SeqMonotonic
<1>4. /\ <<Len(e.run) + 1>> \in Seq(T) /\ <<Len(e.run) + 2>> \in Seq(T) /\ <<1>> \in Seq(T)
      /\ <<c>> \in Seq(T) /\ <<Delimiter>> \in Seq(T)
  BY <1>3 DEF Delimiter
<1> DEFINE v == e.wire
           q == e.run
           x == <<Len(q) + 1>>
           y == <<Len(q) + 2>>
<1>5. /\ v \in Seq(T) /\ q \in Seq(T) /\ x \in Seq(T) /\ y \in Seq(T)
      /\ Body(e, c) = IF c = 0 THEN v \o x \o q \o <<1>> ELSE v \o y \o q \o <<c>>
  BY <1>3, <1>4 DEF Body
<1> HIDE DEF v, q, x, y, T
<1>6. v \o x \o q \o <<1>> \in Seq(T) /\ v \o y \o q \o <<c>> \in Seq(T)
  BY <1>4, <1>5, ConcatProperties
<1>7. Body(e, c) \in Seq(T)
  BY <1>5, <1>6
<1>8. Body(e, c) \o <<Delimiter>> \in Seq(T) /\ Len(Body(e, c) \o <<Delimiter>>) # 0
  <2>1. Len(<<Delimiter>>) = 1 /\ Len(Body(e, c)) \in Nat
    BY <1>7
  <2>2. /\ Body(e, c) \o <<Delimiter>> \in Seq(T)
        /\ Len(Body(e, c) \o <<Delimiter>>) = Len(Body(e, c)) + Len(<<Delimiter>>)
    BY <1>4, <1>7, ConcatProperties
  <2> QED BY <2>1, <2>2
<1>9. Len(<<>>) = 0
  OBVIOUS
<1> QED BY <1>1, <1>8, <1>9 DEF T, c

(* The checksum of a payload that has a frame of bytes is a byte. *)
LEMMA ChecksumIsByte ==
  ASSUME NEW p \in Seq(Nat), Encode(p) \in Seq(Nat)
  PROVE  Crc(p) \in Nat
<1> DEFINE c == Crc(p)
<1>1. PICK e : e \in Encoders /\ Encoded(e, p, Len(p)) /\ Encode(p) = Body(e, c) \o <<Delimiter>>
  BY EncodeIs
<1> SUFFICES ASSUME c # 0 PROVE c \in Nat
  OBVIOUS
<1> DEFINE a == e.wire \o <<Len(e.run) + 2>> \o e.run
<1>2. a \in Seq(Nat)
  <2>1. e.wire \in Seq(Nat) /\ e.run \in Seq(Nat)
    <3>1. e.wire \in Seq(Coded) /\ e.run \in Seq(Coded)
      BY <1>1 DEF Encoders
    <3> QED BY <3>1, CodedIsNat
  <2>2. <<Len(e.run) + 2>> \in Seq(Nat)
    BY <2>1
  <2> QED BY <2>1, <2>2, ConcatProperties
<1>3. Encode(p) = (a \o <<c>>) \o <<Delimiter>>
  BY <1>1, Zenon DEF Body
<1> HIDE DEF a, c
<1>4. a \o <<c>> = Append(a, c)
  BY <1>2
<1> DEFINE T == Nat \cup {c}
           m == Len(a) + 1
<1>5. a \in Seq(T) /\ Len(a) \in Nat
  BY <1>2, SeqMonotonic
<1>6. <<c>> \in Seq(T) /\ <<Delimiter>> \in Seq(T) /\ Len(<<c>>) = 1 /\ Len(<<Delimiter>>) = 1
      /\ <<c>>[1] = c
  BY DEF Delimiter
<1>7. a \o <<c>> \in Seq(T) /\ Len(a \o <<c>>) = m /\ (a \o <<c>>)[m] = c
  <2>1. a \o <<c>> \in Seq(T) /\ Len(a \o <<c>>) = m
    BY <1>5, <1>6, ConcatProperties
  <2>2. m \in 1..(Len(a) + Len(<<c>>)) /\ ~(m <= Len(a)) /\ m - Len(a) = 1
    BY <1>5, <1>6
  <2>3. (a \o <<c>>)[m] = <<c>>[m - Len(a)]
    BY <1>5, <1>6, <2>2, ConcatProperties
  <2> HIDE DEF m
  <2> QED BY <1>6, <2>1, <2>2, <2>3
<1> DEFINE x == a \o <<c>>
<1> HIDE DEF x, T, m
<1>8. x \in Seq(T) /\ Len(x) = m /\ x[m] = c /\ m \in 1..m /\ m \in Nat
  BY <1>5, <1>7 DEF x, m
<1>9. Len(x \o <<Delimiter>>) = m + 1 /\ (x \o <<Delimiter>>)[m] = c
  <2>1. Len(x \o <<Delimiter>>) = m + 1
    BY <1>6, <1>8, ConcatProperties
  <2>2. m \in 1..(Len(x) + Len(<<Delimiter>>)) /\ m <= Len(x)
    BY <1>6, <1>8
  <2> QED BY <1>6, <1>8, <2>1, <2>2, ConcatProperties
<1>10. Encode(p) = x \o <<Delimiter>>
  BY <1>3 DEF x
<1>11. m \in 1..Len(Encode(p))
  BY <1>8, <1>9, <1>10
<1> QED BY <1>9, <1>10, <1>11, ElementOfSeq

-----------------------------------------------------------------------------
(* A byte is one of its message, at its place. *)
Byte == {b \in [v : Nat, m : Messages, i : Nat] : b.i \in 1..Len(b.m) /\ b.v = b.m[b.i]}

(* The types the decoder's bounds rest on. *)
LinkTypeInv ==
  /\ mode \in {"idle", "command"}
  /\ pc \in {"poll", "take", "drain", "returned", "away", "incomplete"}
  /\ rx \in Seq(Byte) /\ wire \in Seq(Byte)
  /\ dec \in Decoding /\ Len(dec.last) <= 1
  /\ waited \in 0..Timeout /\ ends \in Nat

(* What a call has committed fits, whatever it goes on to read. *)
FitsInv == pc \in {"take", "drain", "returned"} => Len(dec.out) <= Cap

(* A call has read no delimiter before it returns, and drains for one of two reasons: only
   the one that follows an overflow waits. *)
CallInv ==
  /\ pc \in {"take", "drain"} => ends = 0
  /\ pc = "drain" => (verdict = "overflow" /\ wait) \/ (verdict = "silence" /\ ~wait)
  /\ OneDelimiterPerCall

LinkInv == LinkTypeInv /\ FitsInv /\ CallInv

LEMMA LinkConstants ==
  /\ BufferSize \in Nat \ {0} /\ Timeout \in Nat \ {0}
  /\ Messages \subseteq Seq(Nat) /\ Payloads \subseteq Seq(Nat)
BY LinkAssumption

(* The host's bytes. *)
LEMMA BytesType == ASSUME NEW m \in Messages PROVE Bytes(m) \in Seq(Byte)
<1>1. m \in Seq(Nat)
  BY LinkConstants
<1>2. \A i \in 1..Len(m) : [v |-> m[i], m |-> m, i |-> i] \in Byte
  <2> SUFFICES ASSUME NEW i \in 1..Len(m) PROVE [v |-> m[i], m |-> m, i |-> i] \in Byte
    OBVIOUS
  <2>1. m[i] \in Nat /\ i \in Nat
    BY <1>1, ElementOfSeq
  <2> QED BY <2>1 DEF Byte
<1> QED BY <1>1, <1>2 DEF Bytes

(* Taking bytes leaves bytes. *)
LEMMA RestType ==
  ASSUME NEW S, NEW s \in Seq(S), NEW n \in Nat
  PROVE  SubSeq(s, n + 1, Len(s)) \in Seq(S)
BY SubSeqProperties

LEMMA AdvanceType ==
  ASSUME rx \in Seq(Byte), NEW n \in Nat, RxAdvance(n) PROVE rx' \in Seq(Byte)
BY RestType DEF RxAdvance

(* One byte of a frame. *)
LEMMA PushFacts ==
  ASSUME NEW d \in Decoding, Len(d.last) <= 1, NEW b \in Nat
  PROVE  /\ Push(d, b) \in Decoding /\ Push(d, b).last = <<b>>
         /\ Len(Push(d, b).out) <= Len(d.out) + 1
         /\ d.last = <<>> => Len(Push(d, b).out) = Len(d.out)
<1>1. d.out \in Seq(Nat) /\ d.last \in Seq(Nat) /\ <<b>> \in Seq(Nat)
  BY DEF Decoding
<1>2. d.out \o d.last \in Seq(Nat) /\ Len(d.out \o d.last) = Len(d.out) + Len(d.last)
  BY <1>1
<1>3. /\ Push(d, b).out = d.out \o d.last /\ Push(d, b).last = <<b>>
  BY DEF Push, Decoding
<1>4. Push(d, b) \in Decoding
  BY <1>1, <1>2 DEF Push, Decoding
<1>5. Len(d.out) \in Nat /\ Len(d.last) \in Nat
  BY <1>1
<1>6. d.last = <<>> => Len(d.last) = 0
  OBVIOUS
<1>7. Len(Push(d, b).out) = Len(d.out) + Len(d.last)
  BY <1>2, <1>3
<1> HIDE DEF Push
<1>8. Len(Push(d, b).out) <= Len(d.out) + 1
  BY <1>5, <1>7
<1>9. d.last = <<>> => Len(Push(d, b).out) = Len(d.out)
  BY <1>5, <1>6, <1>7
<1> QED BY <1>3, <1>4, <1>8, <1>9

LEMMA DecodeByteFacts ==
  ASSUME NEW d \in Decoding, Len(d.last) <= 1, NEW b \in Nat \ {0}, NEW cap \in Nat,
         Len(d.out) <= cap, ~Overruns(d, cap)
  PROVE  /\ DecodeByte(d, b) \in Decoding /\ Len(DecodeByte(d, b).last) <= 1
         /\ Len(DecodeByte(d, b).out) <= cap
<1>1. Len(d.out) \in Nat /\ d.run \in Nat
  BY DEF Decoding
<1>a. \A x \in Nat : Len(<<x>>) = 1
  OBVIOUS
<1>b. ASSUME NEW x \in Nat, Pushes(d)
      PROVE  /\ Push(d, x) \in Decoding /\ Len(Push(d, x).last) <= 1
             /\ Len(Push(d, x).out) <= cap
  <2>1. d.last = <<>> \/ Len(d.out) < cap
    BY <1>1, <1>b DEF Overruns
  <2>2. Push(d, x) \in Decoding /\ Push(d, x).last = <<x>>
    BY PushFacts
  <2>3. Len(Push(d, x).out) \in Nat
    BY <2>2 DEF Decoding
  <2>4. Len(Push(d, x).out) <= cap
    BY <1>1, <2>1, <2>3, PushFacts
  <2> QED BY <1>a, <2>2, <2>4
<1>2. CASE d.run > 0
  <2> DEFINE p == Push(d, b)
  <2>1. p \in Decoding /\ Len(p.last) <= 1 /\ Len(p.out) <= cap /\ p.run = d.run
    <3>1. Pushes(d)
      BY <1>2 DEF Pushes
    <3>2. Push(d, b).run = d.run
      BY DEF Push, Decoding
    <3> QED BY <1>b, <3>1, <3>2
  <2>2. DecodeByte(d, b) = [p EXCEPT !.run = @ - 1, !.zero = d.run = 1 /\ ~d.full]
    BY <1>2 DEF DecodeByte, DataByte
  <2> HIDE DEF p
  <2>3. p.run - 1 \in Nat
    BY <1>1, <1>2, <2>1
  <2>4. /\ DecodeByte(d, b) \in Decoding /\ DecodeByte(d, b).last = p.last
        /\ DecodeByte(d, b).out = p.out
    <3>1. (d.run = 1 /\ ~d.full) \in BOOLEAN
      OBVIOUS
    <3> DEFINE z == d.run = 1 /\ ~d.full
    <3> HIDE DEF z
    <3> QED BY <2>1, <2>2, <2>3, <3>1 DEF Decoding, z
  <2> QED BY <2>1, <2>4
<1>3. CASE ~(d.run > 0)
  <2> DEFINE e == IF d.zero THEN Push(d, 0) ELSE d
  <2>1. e \in Decoding /\ Len(e.last) <= 1 /\ Len(e.out) <= cap
    <3>1. CASE d.zero
      <4>1. Pushes(d)
        BY <3>1 DEF Pushes
      <4> QED BY <1>b, <3>1, <4>1
    <3>2. CASE ~d.zero
      BY <3>2
    <3> QED BY <3>1, <3>2
  <2>2. DecodeByte(d, b) = [e EXCEPT !.run = b - 1, !.full = b = FullCode, !.zero = b = 1]
    BY <1>3 DEF DecodeByte, CodeByte
  <2> HIDE DEF e
  <2>3. b - 1 \in Nat
    OBVIOUS
  <2>4. /\ DecodeByte(d, b) \in Decoding /\ DecodeByte(d, b).last = e.last
        /\ DecodeByte(d, b).out = e.out
    BY <2>1, <2>2, <2>3 DEF Decoding
  <2> QED BY <2>1, <2>4
<1> QED BY <1>2, <1>3

LEMMA InitLink == Init => LinkInv
<1> SUFFICES ASSUME Init PROVE LinkInv
  OBVIOUS
<1>1. StartDecoding \in Decoding /\ Len(StartDecoding.last) <= 1 /\ Len(StartDecoding.out) = 0
  BY DEF StartDecoding, Decoding
<1>2. rx \in Seq(Byte) /\ wire \in Seq(Byte)
  BY DEF Init
<1>3. LinkTypeInv
  BY <1>1, <1>2, LinkConstants DEF Init, LinkTypeInv
<1> QED BY <1>3 DEF Init, LinkInv, FitsInv, CallInv, OneDelimiterPerCall

(* The main loop's steps that start no call and are in none. *)
LEMMA OutsideStep ==
  ASSUME LinkInv, pc' \in {"poll", "away", "incomplete"}, UNCHANGED <<dec, ends>>,
         mode' \in {"idle", "command"}, rx' \in Seq(Byte), wire' \in Seq(Byte),
         waited' \in 0..Timeout
  PROVE  LinkInv'
BY DEF LinkInv, LinkTypeInv, FitsInv, CallInv, OneDelimiterPerCall

(* A call begins with nothing committed. *)
LEMMA StartStep ==
  ASSUME LinkInv, StartDecoder, mode' = mode, rx' \in Seq(Byte), wire' = wire
  PROVE  LinkInv'
<1>1. StartDecoding \in Decoding /\ Len(StartDecoding.last) <= 1 /\ Len(StartDecoding.out) = 0
  BY DEF StartDecoding, Decoding
<1>2. /\ pc' = "take" /\ dec' = StartDecoding /\ waited' = 0 /\ ends' = 0
  BY DEF StartDecoder
<1>3. LinkTypeInv'
  BY <1>1, <1>2, LinkConstants DEF LinkInv, LinkTypeInv
<1>4. FitsInv'
  BY <1>1, <1>2, LinkConstants DEF FitsInv, Cap
<1>5. CallInv'
  BY <1>2 DEF CallInv, OneDelimiterPerCall
<1> QED BY <1>3, <1>4, <1>5 DEF LinkInv

LEMMA ByteFacts ==
  ASSUME rx \in Seq(Byte), rx # <<>> PROVE RxByte \in Byte /\ RxByte.v \in Nat
<1>1. RxByte \in Byte
  BY DEF RxByte
<1> QED BY <1>1 DEF Byte

LEMMA CapFacts == ASSUME LinkInv PROVE Cap \in Nat
BY LinkConstants DEF LinkInv, LinkTypeInv, Cap

(* The decoder's own steps. *)
LEMMA DecodeStep == ASSUME LinkInv, Decode PROVE LinkInv'
<1>1. /\ pc = "take" /\ rx # <<>> /\ RxAdvance(1) /\ UNCHANGED <<mode, wire>>
      /\ ends = 0 /\ Len(dec.out) <= Cap /\ rx \in Seq(Byte) /\ dec \in Decoding
  BY DEF LinkInv, LinkTypeInv, FitsInv, CallInv, Decode, Available, port
<1>2. rx' \in Seq(Byte) /\ Cap' = Cap
  BY <1>1, AdvanceType DEF Cap
<1>3. CASE DelimiterReturns
  <2>1. ends' = 1 /\ pc' = "returned" /\ UNCHANGED <<dec, waited>>
    BY <1>1, <1>3 DEF DelimiterReturns
  <2> QED BY <1>1, <1>2, <2>1 DEF LinkInv, LinkTypeInv, FitsInv, CallInv, OneDelimiterPerCall
<1>4. CASE ByteOverruns
  <2>1. /\ pc' = "drain" /\ verdict' = "overflow" /\ wait' = TRUE /\ waited' = 0
        /\ UNCHANGED <<dec, ends>>
    BY <1>4 DEF ByteOverruns, Drain
  <2> QED BY <1>1, <1>2, <2>1, LinkConstants
          DEF LinkInv, LinkTypeInv, FitsInv, CallInv, OneDelimiterPerCall
<1>5. CASE ByteDecoded
  <2>1. /\ pc' = "take" /\ waited' = 0 /\ ends' = ends
        /\ dec' = DecodeByte(dec, RxByte.v)
        /\ RxByte.v # 0 /\ ~Overruns(dec, Cap)
    BY <1>5 DEF ByteDecoded, Delimiter
  <2>2. RxByte.v \in Nat \ {0} /\ Len(dec.last) <= 1
    BY <1>1, <2>1, ByteFacts DEF LinkInv, LinkTypeInv
  <2>3. dec' \in Decoding /\ Len(dec'.last) <= 1 /\ Len(dec'.out) <= Cap
    BY <1>1, <2>1, <2>2, CapFacts, DecodeByteFacts
  <2>4. LinkTypeInv'
    BY <1>1, <1>2, <2>1, <2>3, LinkConstants DEF LinkInv, LinkTypeInv
  <2>5. FitsInv' /\ CallInv'
    BY <1>1, <1>2, <2>1, <2>3 DEF FitsInv, CallInv, OneDelimiterPerCall
  <2> QED BY <2>4, <2>5 DEF LinkInv
<1> QED BY <1>3, <1>4, <1>5 DEF Decode

LEMMA DrainStep == ASSUME LinkInv, Silence \/ DrainByte \/ DrainEnds PROVE LinkInv'
<1>1. CASE Silence
  <2>1. /\ pc = "take" /\ pc' = "drain" /\ verdict' = "silence" /\ wait' = FALSE /\ waited' = 0
        /\ UNCHANGED <<rx, mode, dec, ends, wire>>
    BY <1>1 DEF Silence, Drain, port
  <2> QED BY <2>1, LinkConstants
          DEF LinkInv, LinkTypeInv, FitsInv, CallInv, OneDelimiterPerCall, Cap
<1>2. CASE DrainByte
  <2>1. /\ pc = "drain" /\ RxAdvance(1) /\ UNCHANGED <<mode, dec, wait, verdict, wire>>
        /\ \/ pc' = "returned" /\ ends' = ends + 1 /\ waited' = waited
           \/ waited' = 0 /\ UNCHANGED <<pc, ends>>
    BY <1>2 DEF DrainByte, port
  <2>2. rx' \in Seq(Byte)
    BY <2>1, AdvanceType DEF LinkInv, LinkTypeInv
  <2> QED BY <2>1, <2>2, LinkConstants
          DEF LinkInv, LinkTypeInv, FitsInv, CallInv, OneDelimiterPerCall, Cap
<1>3. CASE DrainEnds
  <2>1. /\ pc = "drain" /\ pc' = "returned" /\ (~wait \/ waited >= Timeout)
        /\ UNCHANGED <<rx, mode, waited, dec, verdict, ends, wire>>
    BY <1>3 DEF DrainEnds, port, decoder
  <2> QED BY <2>1, LinkConstants
          DEF LinkInv, LinkTypeInv, FitsInv, CallInv, OneDelimiterPerCall, Cap
<1> QED BY <1>1, <1>2, <1>3

(* What the decoder returned is used, and its locals die. *)
LEMMA ActStep == ASSUME LinkInv, Act PROVE LinkInv'
<1>1. StartDecoding \in Decoding /\ Len(StartDecoding.last) <= 1
  BY DEF StartDecoding, Decoding
<1>2. /\ pc' = "away" /\ dec' = StartDecoding /\ ends' = 0
      /\ mode' \in {"idle", "command"} /\ UNCHANGED <<rx, waited, wire>>
  BY DEF Act, port
<1> QED BY <1>1, <1>2 DEF LinkInv, LinkTypeInv, FitsInv, CallInv, OneDelimiterPerCall

(* The words of a command, and what is none. *)
LEMMA WordStep ==
  ASSUME LinkInv,
         WordOk \/ WordDone \/ StrayO \/ StrayD \/ OtherByte \/ Incomplete \/ PollAgain
           \/ Watchdog \/ Back
  PROVE  LinkInv'
<1>0. rx \in Seq(Byte) /\ wire \in Seq(Byte) /\ mode \in {"idle", "command"}
      /\ waited \in 0..Timeout
  BY DEF LinkInv, LinkTypeInv
<1>1. CASE WordOk \/ WordDone
  <2>1. \E n \in {2, 4} : Message(n)
    BY <1>1 DEF WordOk, WordDone
  <2>2. rx' \in Seq(Byte)
    BY <1>0, <2>1, AdvanceType DEF Message
  <2>3. /\ pc' = "away" /\ UNCHANGED <<dec, ends, wire, waited>>
        /\ mode' \in {"idle", "command"}
    BY <1>0, <1>1, <2>1 DEF WordOk, WordDone, Message, decoder, port
  <2> QED BY <1>0, <2>2, <2>3, OutsideStep
<1>2. CASE StrayO \/ StrayD \/ OtherByte
  <2>1. pc = "poll" /\ \E n \in 1..3 : Junk(n)
    BY <1>2 DEF StrayO, StrayD, OtherByte, Polling
  <2>2. rx' \in Seq(Byte)
    BY <1>0, <2>1, AdvanceType DEF Junk
  <2>3. UNCHANGED <<pc, dec, ends, wire, waited, mode>>
    BY <2>1 DEF Junk, loopVars, decoder, port
  <2> QED BY <1>0, <2>1, <2>2, <2>3, OutsideStep
<1>3. CASE Incomplete \/ PollAgain \/ Watchdog \/ Back
  <2>1. /\ pc' \in {"poll", "away", "incomplete"} /\ UNCHANGED <<dec, ends, wire, rx>>
        /\ mode' \in {"idle", "command"} /\ waited' \in {waited, 0}
    BY <1>0, <1>3 DEF Incomplete, PollAgain, Watchdog, Back, decoder, port
  <2> QED BY <1>0, <2>1, LinkConstants, OutsideStep
<1> QED BY <1>1, <1>2, <1>3

(* The host and the port touch neither the loop nor its call. *)
LEMMA PortStep ==
  ASSUME LinkInv, HostSends \/ HostStops \/ ByteArrives \/ BytesLost
  PROVE  LinkInv'
<1>0. rx \in Seq(Byte) /\ wire \in Seq(Byte)
  BY DEF LinkInv, LinkTypeInv
<1>1. UNCHANGED <<mode, pc, dec, wait, verdict, waited, ends>>
  BY DEF HostSends, HostStops, ByteArrives, BytesLost, loopVars, decoder
<1>2. rx' \in Seq(Byte) /\ wire' \in Seq(Byte)
  <2>1. CASE HostSends
    BY <1>0, <2>1, BytesType DEF HostSends
  <2>2. CASE HostStops
    BY <1>0, <2>2 DEF HostStops
  <2>3. CASE ByteArrives
    <3>1. Head(wire) \in Byte /\ Tail(wire) \in Seq(Byte)
      BY <1>0, <2>3 DEF ByteArrives
    <3> QED BY <1>0, <2>3, <3>1 DEF ByteArrives
  <2>4. CASE BytesLost
    <3>1. PICK n \in 1..Len(wire) : wire' = SubSeq(wire, n + 1, Len(wire))
      BY <2>4 DEF BytesLost
    <3>2. n \in Nat /\ rx' = rx
      BY <1>0, <2>4 DEF BytesLost
    <3> QED BY <1>0, <3>1, <3>2, RestType
  <2> QED BY <2>1, <2>2, <2>3, <2>4
<1> QED BY <1>1, <1>2 DEF LinkInv, LinkTypeInv, FitsInv, CallInv, OneDelimiterPerCall, Cap

LEMMA NextLink == LinkInv /\ [Next]_vars => LinkInv'
<1> SUFFICES ASSUME LinkInv, [Next]_vars PROVE LinkInv'
  OBVIOUS
<1>1. CASE PollIdle
  BY <1>1, StartStep DEF PollIdle, LinkInv, LinkTypeInv, port
<1>2. CASE DataMarker
  <2>1. rx' \in Seq(Byte)
    BY <1>2, AdvanceType DEF DataMarker, LinkInv, LinkTypeInv
  <2> QED BY <1>2, <2>1, StartStep DEF DataMarker, port
<1>3. CASE Tick
  <2>1. /\ waited < Timeout /\ waited' = waited + 1 /\ pc # "returned"
        /\ UNCHANGED <<rx, mode, pc, dec, wait, verdict, ends, wire>>
    BY <1>3 DEF Tick, Waiting, decoder, port
  <2> QED BY <2>1, LinkConstants
          DEF LinkInv, LinkTypeInv, FitsInv, CallInv, OneDelimiterPerCall, Cap
<1>4. CASE UNCHANGED vars
  BY <1>4 DEF vars, loopVars, decoder, port, LinkInv, LinkTypeInv, FitsInv, CallInv,
              OneDelimiterPerCall, Cap
<1> QED BY <1>1, <1>2, <1>3, <1>4, DecodeStep, DrainStep, ActStep, WordStep, PortStep
        DEF Next, MainLoop

LEMMA LinkHolds == Spec => []LinkInv
  BY InitLink, NextLink, PTL DEF Spec

(* BufferHolds of Link: whatever the host sends, however it is cut, and whether or not the
   caller asked for more than there is, rurp_communication_read_data has at no point
   committed more payload than the caller's buffer takes. *)
THEOREM BufferIsNeverOverrun == Spec => []BufferHolds
<1>1. LinkInv => BufferHolds
  BY DEF LinkInv, FitsInv, BufferHolds
<1> QED BY <1>1, LinkHolds, PTL

(* OneDelimiterPerCall of Link: however a call of rurp_communication_read_data comes to an
   end (a frame, a bad checksum, an overflow, silence), it has consumed one delimiter and
   nothing past it; it has read none only if the line was silent for a whole deadline. *)
THEOREM CallsEndOnABoundary == Spec => []OneDelimiterPerCall
<1>1. LinkInv => OneDelimiterPerCall
  BY DEF LinkInv, CallInv
<1> QED BY <1>1, LinkHolds, PTL

-----------------------------------------------------------------------------
(* A frame, from its first byte on. *)

\* Bytes of the frame before its code bytes.
Skip == IF mode = "command" THEN 1 ELSE 0

\* The decoder along the frame of payload p.
Trace(p) == CHOOSE f : Whole(f, p)

(* What is heard is a byte on its way; a call that has heard none has decoded none. *)
HeardInv ==
  /\ heard \in Byte \cup {NoByte, Lost}
  /\ pc \in {"poll", "away", "incomplete"} => heard = NoByte
  /\ pc = "take" /\ heard = NoByte => dec = StartDecoding /\ mode = "idle"
  /\ pc = "drain" => heard # NoByte

(* As long as a frame that fits is heard, the decoder is on its trace and not drained. *)
OnTrace(p) ==
  heard.m = Frame(p) /\ Len(p) <= Cap =>
    /\ pc = "take" => dec = Trace(p)[heard.i - Skip]
    /\ pc # "drain"
    /\ pc = "returned" => verdict = "payload" /\ dec.out = p

FrameInv == HeardInv /\ \A p \in Payloads : OnTrace(p)

LEMMA NoByteFacts ==
  /\ NoByte = [v |-> 0, m |-> <<>>, i |-> 0] /\ Lost = [v |-> 0, m |-> <<>>, i |-> -1]
  /\ NoByte # Lost
<1>1. NoByte = [v |-> 0, m |-> <<>>, i |-> 0] /\ Lost = [v |-> 0, m |-> <<>>, i |-> -1]
  BY DEF NoByte, Lost
<1>2. NoByte.i = 0 /\ Lost.i = -1
  BY <1>1
<1> QED BY <1>1, <1>2

LEMMA RestOfSeq ==
  ASSUME NEW T, NEW S, NEW h \in T, NEW w \in Seq(T), NEW m \in Seq(S), m = <<h>> \o w
  PROVE  w \in Seq(S) /\ Len(m) = Len(w) + 1 /\ \A j \in 1..Len(w) : m[j + 1] = w[j]
<1>1. <<h>> \in Seq(T) /\ Len(<<h>>) = 1 /\ Len(w) \in Nat
  OBVIOUS
<1>2. Len(m) = Len(w) + 1
  BY <1>1, ConcatProperties
<1>3. \A i \in 1..(Len(<<h>>) + Len(w)) :
        m[i] = IF i <= Len(<<h>>) THEN <<h>>[i] ELSE w[i - Len(<<h>>)]
  BY <1>1, ConcatProperties
<1>4. ASSUME NEW j \in 1..Len(w) PROVE m[j + 1] = w[j] /\ w[j] \in S
  <2>1. j + 1 \in 1..(Len(<<h>>) + Len(w)) /\ ~(j + 1 <= Len(<<h>>))
        /\ (j + 1) - Len(<<h>>) = j /\ j + 1 \in 1..Len(m)
    BY <1>1, <1>2
  <2>2. m[j + 1] = w[j]
    BY <1>3, <2>1
  <2> QED BY <2>1, <2>2, ElementOfSeq
<1>5. w = [j \in 1..Len(w) |-> w[j]]
  OBVIOUS
<1>6. [j \in 1..Len(w) |-> w[j]] \in Seq(S)
  BY <1>1, <1>4
<1> QED BY <1>2, <1>4, <1>5, <1>6

(* A frame of a message is that of a whole trace. *)
LEMMA FrameFacts ==
  ASSUME LinkInv, NEW p \in Payloads, NEW b \in Byte, b.m = Frame(p)
  PROVE  LET w == Encode(p) n == Len(w) - 1 k == b.i - Skip
         IN  /\ Whole(Trace(p), p)
             /\ n \in Nat /\ k \in 0..(n + 1) /\ (mode = "idle" => k # 0)
             /\ k # 0 => b.v = w[k]
<1> DEFINE w == Encode(p)
           n == Len(w) - 1
           k == b.i - Skip
<1>1. b.m \in Seq(Nat) /\ b.i \in 1..Len(b.m) /\ b.v = b.m[b.i] /\ p \in Seq(Nat)
      /\ mode \in {"idle", "command"}
  BY LinkConstants DEF Byte, LinkInv, LinkTypeInv
<1>2. w \in Seq(Nat) /\ k \in 0..Len(w) /\ (mode = "idle" => k # 0) /\ (k # 0 => b.v = w[k])
  <2>1. CASE mode = "idle"
    <3>1. b.m = w /\ Skip = 0
      BY <2>1 DEF Frame, Skip
    <3> HIDE DEF w
    <3>2. b.i \in Nat /\ Len(w) \in Nat
      BY <1>1, <3>1
    <3>3. k = b.i
      BY <3>1, <3>2
    <3> HIDE DEF k
    <3> QED BY <1>1, <3>1, <3>2, <3>3
  <2>2. CASE mode = "command"
    <3>1. b.m = <<Hash>> \o w /\ Skip = 1 /\ mode # "idle"
      BY <2>2 DEF Frame, Skip
    <3>2. w \in Seq(Nat \cup {Crc(p), Hash})
      <4>1. w \in Seq(Nat \cup {Crc(p)})
        BY <1>1, EncodeType
      <4> HIDE DEF w
      <4> QED BY <4>1, SeqMonotonic
    <3> HIDE DEF w
    <3>3. w \in Seq(Nat) /\ Len(b.m) = Len(w) + 1 /\ \A j \in 1..Len(w) : b.m[j + 1] = w[j]
      <4> DEFINE T == Nat \cup {Crc(p), Hash}
                 m == b.m
      <4>1. Hash \in T /\ w \in Seq(T) /\ m \in Seq(Nat) /\ m = <<Hash>> \o w
        BY <1>1, <3>1, <3>2
      <4> HIDE DEF T, m
      <4>2. w \in Seq(Nat) /\ Len(m) = Len(w) + 1 /\ \A j \in 1..Len(w) : m[j + 1] = w[j]
        BY <4>1, RestOfSeq
      <4> QED BY <4>2 DEF m
    <3>4. Len(w) \in Nat /\ k = b.i - 1 /\ b.i = k + 1 /\ k \in 0..Len(w)
      BY <1>1, <3>1, <3>3
    <3> HIDE DEF k
    <3>5. k # 0 => b.v = w[k]
      BY <1>1, <3>3, <3>4
    <3> QED BY <3>1, <3>3, <3>4, <3>5
  <2> QED BY <1>1, <2>1, <2>2
<1>3. Whole(Trace(p), p)
  <2>1. \E f : Whole(f, p)
    BY <1>1, <1>2, ChecksumIsByte, FramesReadAsTheirPayload
  <2> QED BY <2>1, Zenon DEF Trace
<1>4. n \in Nat
  BY <1>3 DEF Whole
<1> QED BY <1>2, <1>3, <1>4

(* What is heard after a byte is that byte, as long as it follows, or nothing of use. *)
LEMMA FollowFacts ==
  ASSUME NEW h \in Byte \cup {NoByte, Lost}, NEW b \in Byte
  PROVE  /\ Follow(h, b) \in {b, Lost} /\ b # Lost /\ b # NoByte
         /\ Follow(h, b) = b =>
              \/ h = NoByte /\ b.i = 1
              \/ h \in Byte /\ h.m = b.m /\ b.i = h.i + 1
<1>1. b.i \in Nat /\ b.i >= 1
  BY DEF Byte
<1>2. NoByte.i = 0 /\ Lost.i = -1 /\ NoByte # Lost
  BY NoByteFacts
<1>3. b # Lost /\ b # NoByte
  BY <1>1, <1>2
<1>4. Follow(h, b) = IF h.i + 1 = b.i /\ (h = NoByte \/ h.m = b.m) THEN b ELSE Lost
  BY DEF Follow
<1>5. h = Lost => ~(h.i + 1 = b.i)
  BY <1>1, <1>2
<1> QED BY <1>1, <1>2, <1>3, <1>4, <1>5

LEMMA UnheardFrame ==
  ASSUME NEW p \in Payloads, NEW h \in {NoByte, Lost} PROVE h.m # Frame(p)
<1>1. h.m = <<>> /\ p \in Seq(Nat)
  BY NoByteFacts, LinkConstants
<1>2. Frame(p) # <<>>
  <2> DEFINE T == Nat \cup {Crc(p)} \cup {Hash}
             w == Encode(p)
  <2>1. w \in Seq(T) /\ w # <<>>
    <3>1. w \in Seq(Nat \cup {Crc(p)}) /\ w # <<>>
      BY <1>1, EncodeType
    <3> HIDE DEF w
    <3> QED BY <3>1, SeqMonotonic
  <2>2. <<Hash>> \in Seq(T) /\ Len(<<Hash>>) = 1
    OBVIOUS
  <2>3. Frame(p) = IF mode = "command" THEN <<Hash>> \o w ELSE w
    BY DEF Frame
  <2> HIDE DEF w, T
  <2>4. Len(<<Hash>> \o w) = 1 + Len(w) /\ Len(w) \in Nat
    BY <2>1, <2>2, ConcatProperties
  <2>5. <<Hash>> \o w # <<>>
    <3>1. Len(<<>>) = 0
      OBVIOUS
    <3> QED BY <2>4, <3>1
  <2> QED BY <2>1, <2>3, <2>5
<1> QED BY <1>1, <1>2

LEMMA InitFrame == Init => FrameInv
BY DEF Init, FrameInv, HeardInv, OnTrace

(* Outside a call nothing is heard. *)
LEMMA OutsideFrame ==
  ASSUME LinkInv, FrameInv,
         WordOk \/ WordDone \/ StrayO \/ StrayD \/ OtherByte \/ Incomplete \/ PollAgain
           \/ Watchdog \/ Back \/ Act
  PROVE  FrameInv'
<1>1. pc' \in {"poll", "away", "incomplete"} /\ heard' = NoByte
  <2>1. CASE WordOk \/ WordDone
    BY <2>1 DEF WordOk, WordDone, Message, Polling, decoder, FrameInv, HeardInv
  <2>2. CASE StrayO \/ StrayD \/ OtherByte
    BY <2>2 DEF StrayO, StrayD, OtherByte, Junk, Polling, loopVars, decoder, FrameInv, HeardInv
  <2>3. CASE Incomplete \/ PollAgain \/ Watchdog \/ Back
    BY <2>3 DEF Incomplete, PollAgain, Watchdog, Back, Polling, decoder, FrameInv, HeardInv
  <2>4. CASE Act
    BY <2>4 DEF Act
  <2> QED BY <2>1, <2>2, <2>3, <2>4
<1> QED BY <1>1 DEF FrameInv, HeardInv, OnTrace

(* A call starts, on a frame or on the '#' before one. *)
LEMMA StartFrame ==
  ASSUME LinkInv, LinkInv', FrameInv, PollIdle \/ DataMarker
  PROVE  FrameInv'
<1>1. CASE PollIdle
  <2>1. /\ pc' = "take" /\ dec' = StartDecoding /\ mode' = "idle" /\ heard' = NoByte
    BY <1>1 DEF PollIdle, StartDecoder
  <2>2. HeardInv'
    BY <2>1 DEF HeardInv
  <2>3. ASSUME NEW p \in Payloads PROVE OnTrace(p)'
    <3>1. NoByte.m # Frame(p) /\ Frame(p)' = Frame(p)
      BY <1>1, UnheardFrame DEF PollIdle, Frame
    <3> QED BY <2>1, <3>1 DEF OnTrace
  <2> QED BY <2>2, <2>3 DEF FrameInv
<1>2. CASE DataMarker
  <2> DEFINE b == RxByte
  <2>1. /\ pc' = "take" /\ dec' = StartDecoding /\ mode' = mode /\ heard' = Follow(NoByte, b)
        /\ mode = "command" /\ rx # <<>> /\ rx \in Seq(Byte)
    BY <1>2 DEF DataMarker, StartDecoder, Polling, Available, LinkInv, LinkTypeInv
  <2>2. b \in Byte
    BY <2>1, ByteFacts
  <2> HIDE DEF b
  <2>3. /\ heard' \in {b, Lost} /\ b # NoByte /\ b # Lost
        /\ heard' = b => b.i = 1
    BY <2>1, <2>2, FollowFacts, NoByteFacts DEF Byte
  <2>4. HeardInv'
    BY <2>1, <2>2, <2>3, NoByteFacts DEF HeardInv, Byte
  <2>5. ASSUME NEW p \in Payloads PROVE OnTrace(p)'
    <3>1. Frame(p)' = Frame(p)
      BY <2>1 DEF Frame
    <3>2. CASE heard' = Lost
      BY <3>1, <3>2, UnheardFrame DEF OnTrace
    <3>3. CASE heard' = b /\ b.m # Frame(p)
      BY <3>1, <3>3 DEF OnTrace
    <3>4. CASE heard' = b /\ b.m = Frame(p)
      <4>1. Whole(Trace(p), p)
        BY <2>2, <3>4, FrameFacts
      <4>2. Trace(p)[0] = StartDecoding
        BY <4>1 DEF Whole
      <4>3. heard'.i = 1 /\ Skip' = 1
        BY <2>1, <2>3, <3>4 DEF Skip
      <4>4. dec' = Trace(p)[(heard.i - Skip)']
        BY <2>1, <4>2, <4>3
      <4> QED BY <2>1, <4>4 DEF OnTrace
    <3> QED BY <2>3, <3>2, <3>3, <3>4
  <2> QED BY <2>4, <2>5 DEF FrameInv
<1> QED BY <1>1, <1>2

(* A byte of a frame finds the decoder on the frame's trace. *)
LEMMA NextOfFrame ==
  ASSUME LinkInv, FrameInv, pc = "take", NEW b \in Byte, Follow(heard, b) = b,
         NEW p \in Payloads, b.m = Frame(p), Len(p) <= Cap
  PROVE  LET w == Encode(p) n == Len(w) - 1 k == b.i - Skip
         IN  /\ Whole(Trace(p), p) /\ n \in Nat /\ k \in 1..(n + 1) /\ b.v = w[k]
             /\ dec = Trace(p)[k - 1]
<1> DEFINE w == Encode(p)
           n == Len(w) - 1
           k == b.i - Skip
<1>1. /\ Whole(Trace(p), p) /\ n \in Nat /\ k \in 0..(n + 1) /\ (mode = "idle" => k # 0)
      /\ (k # 0 => b.v = w[k])
  BY FrameFacts
<1>2. \/ heard = NoByte /\ b.i = 1
      \/ heard \in Byte /\ heard.m = b.m /\ b.i = heard.i + 1
  BY FollowFacts DEF FrameInv, HeardInv
<1>3. CASE heard = NoByte /\ b.i = 1
  <2>1. mode = "idle" /\ dec = StartDecoding /\ Skip = 0
    BY <1>3 DEF FrameInv, HeardInv, Skip
  <2>2. k = 1
    BY <1>3, <2>1
  <2>3. Trace(p)[0] = StartDecoding
    BY <1>1 DEF Whole
  <2> QED BY <1>1, <2>1, <2>2, <2>3
<1>4. CASE heard \in Byte /\ heard.m = b.m /\ b.i = heard.i + 1
  <2> DEFINE j == heard.i - Skip
  <2>1. j \in 0..(n + 1)
    BY <1>4, FrameFacts
  <2>2. dec = Trace(p)[j]
    BY <1>4 DEF FrameInv, OnTrace
  <2>3. heard.i \in Nat /\ Skip \in {0, 1}
    BY <1>4 DEF Byte, Skip
  <2>4. k = j + 1
    BY <1>4, <2>3
  <2> HIDE DEF k, j, n
  <2>5. k \in 1..(n + 1) /\ k - 1 = j /\ k # 0
    BY <1>1, <2>1, <2>4
  <2>6. /\ Whole(Trace(p), p) /\ n \in Nat /\ k \in 1..(n + 1) /\ b.v = w[k]
        /\ dec = Trace(p)[k - 1]
    BY <1>1, <2>2, <2>5
  <2> QED BY <2>6 DEF k, n
<1> QED BY <1>2, <1>3, <1>4

LEMMA DecodeFrame == ASSUME LinkInv, FrameInv, Decode PROVE FrameInv'
<1> DEFINE b == RxByte
<1>1. /\ pc = "take" /\ mode' = mode /\ heard' = Follow(heard, b)
      /\ rx # <<>> /\ rx \in Seq(Byte)
  BY DEF Decode, Available, LinkInv, LinkTypeInv
<1>2. b \in Byte
  BY <1>1, ByteFacts
<1>3. /\ heard' \in {b, Lost} /\ b # NoByte /\ b # Lost
  BY <1>1, <1>2, FollowFacts DEF FrameInv, HeardInv
<1>4. pc' \in {"take", "drain", "returned"}
  BY DEF Decode, DelimiterReturns, ByteOverruns, ByteDecoded, Drain
<1>5. HeardInv'
  BY <1>2, <1>3, <1>4, NoByteFacts DEF HeardInv
<1>6. ASSUME NEW p \in Payloads PROVE OnTrace(p)'
  <2>1. Frame(p)' = Frame(p) /\ Cap' = Cap /\ Skip' = Skip
    BY <1>1 DEF Frame, Cap, Skip
  <2>2. CASE heard' = Lost
    BY <2>1, <2>2, UnheardFrame DEF OnTrace
  <2>3. CASE heard' = b /\ ~(b.m = Frame(p) /\ Len(p) <= Cap)
    BY <2>1, <2>3 DEF OnTrace
  <2>4. CASE heard' = b /\ b.m = Frame(p) /\ Len(p) <= Cap
    <3> DEFINE w == Encode(p)
               n == Len(w) - 1
               k == b.i - Skip
               f == Trace(p)
    <3>1. Whole(f, p) /\ n \in Nat /\ k \in 1..(n + 1) /\ b.v = w[k] /\ dec = f[k - 1]
      BY <1>1, <1>2, <2>4, NextOfFrame
    <3>2. k \in 1..n \/ k = n + 1
      BY <3>1
    <3>3. Cap \in Nat
      BY CapFacts
    <3>4. /\ w[n + 1] = Delimiter
          /\ Finish(f[n]) = "payload" /\ f[n].out = p
          /\ \A i \in 1..n : /\ w[i] # Delimiter
                             /\ f[i] = DecodeByte(f[i - 1], w[i])
                             /\ \A cap \in Nat : Len(p) <= cap => ~Overruns(f[i - 1], cap)
      BY <3>1 DEF Whole
    <3>5. (heard.i - Skip)' = k
      BY <2>1, <2>4
    <3> HIDE DEF k, n, w, f
    <3>6. CASE DelimiterReturns
      <4>1. b.v = Delimiter /\ pc' = "returned" /\ verdict' = Finish(dec) /\ dec' = dec
        BY <3>6 DEF DelimiterReturns
      <4>2. k = n + 1
        BY <3>1, <3>2, <3>4, <4>1
      <4>3. dec = f[n]
        <5>1. k - 1 = n
          BY <3>1, <4>2
        <5> QED BY <3>1, <5>1
      <4> HIDE DEF b
      <4>4. verdict' = "payload" /\ dec'.out = p
        BY <3>4, <4>1, <4>3
      <4> QED BY <4>1, <4>4 DEF OnTrace
    <3>7. CASE ByteOverruns
      <4>1. b.v # Delimiter /\ Overruns(dec, Cap)
        BY <3>7 DEF ByteOverruns
      <4>2. k \in 1..n
        BY <3>1, <3>2, <3>4, <4>1
      <4>3. ~Overruns(f[k - 1], Cap)
        BY <2>4, <3>3, <3>4, <4>2
      <4> QED BY <3>1, <4>1, <4>3
    <3>8. CASE ByteDecoded
      <4>1. b.v # Delimiter /\ dec' = DecodeByte(dec, b.v) /\ pc' = "take"
        BY <3>8 DEF ByteDecoded
      <4>2. k \in 1..n
        BY <3>1, <3>2, <3>4, <4>1
      <4> HIDE DEF b
      <4>3. dec' = f[k]
        BY <3>1, <3>4, <4>1, <4>2
      <4>4. dec' = f[(heard.i - Skip)']
        BY <3>5, <4>3
      <4> QED BY <4>1, <4>4 DEF OnTrace, f
    <3> QED BY <3>6, <3>7, <3>8 DEF Decode
  <2> QED BY <1>3, <2>2, <2>3, <2>4
<1> QED BY <1>5, <1>6 DEF FrameInv

(* No frame that is heard is drained. *)
LEMMA DrainFrame ==
  ASSUME LinkInv, FrameInv, Silence \/ DrainByte \/ DrainEnds PROVE FrameInv'
<1>0. \A p \in Payloads : mode' = mode => Frame(p)' = Frame(p) /\ Cap' = Cap
  BY DEF Frame, Cap
<1>1. CASE Silence
  <2>1. heard' = Lost /\ pc' = "drain" /\ mode' = mode
    BY <1>1 DEF Silence, Drain
  <2>2. HeardInv'
    BY <2>1, NoByteFacts DEF HeardInv
  <2> QED BY <1>0, <2>1, <2>2, UnheardFrame DEF FrameInv, OnTrace
<1>2. CASE DrainByte
  <2> DEFINE b == RxByte
  <2>1. /\ pc = "drain" /\ mode' = mode /\ heard' = Follow(heard, b)
        /\ pc' \in {"drain", "returned"} /\ rx # <<>> /\ rx \in Seq(Byte)
    BY <1>2 DEF DrainByte, Available, LinkInv, LinkTypeInv
  <2>2. b \in Byte
    BY <2>1, ByteFacts
  <2> HIDE DEF b
  <2>3. /\ heard' \in {b, Lost} /\ b # NoByte /\ b # Lost
        /\ heard' = b => heard.m = b.m
    BY <2>1, <2>2, FollowFacts DEF FrameInv, HeardInv
  <2>4. HeardInv'
    BY <2>1, <2>2, <2>3, NoByteFacts DEF HeardInv
  <2>5. ASSUME NEW p \in Payloads PROVE OnTrace(p)'
    <3>1. CASE heard' = Lost
      BY <1>0, <2>1, <3>1, UnheardFrame DEF OnTrace
    <3>2. CASE heard' = b
      BY <1>0, <2>1, <2>3, <3>2 DEF FrameInv, OnTrace
    <3> QED BY <2>3, <3>1, <3>2
  <2> QED BY <2>4, <2>5 DEF FrameInv
<1>3. CASE DrainEnds
  <2>1. pc = "drain" /\ pc' = "returned" /\ mode' = mode /\ heard' = heard
    BY <1>3 DEF DrainEnds, decoder
  <2> QED BY <1>0, <2>1 DEF FrameInv, HeardInv, OnTrace
<1> QED BY <1>1, <1>2, <1>3

LEMMA NextFrame == LinkInv /\ LinkInv' /\ FrameInv /\ [Next]_vars => FrameInv'
<1> SUFFICES ASSUME LinkInv, LinkInv', FrameInv, [Next]_vars PROVE FrameInv'
  OBVIOUS
<1>1. CASE Tick \/ HostSends \/ HostStops \/ ByteArrives \/ BytesLost \/ UNCHANGED vars
  <2>1. UNCHANGED <<mode, pc, dec, verdict, heard>>
    BY <1>1 DEF Tick, HostSends, HostStops, ByteArrives, BytesLost, loopVars, decoder, vars
  <2> QED BY <2>1 DEF FrameInv, HeardInv, OnTrace, Frame, Cap, Skip
<1> QED BY <1>1, OutsideFrame, StartFrame, DecodeFrame, DrainFrame DEF Next, MainLoop

(* WholeFramesDecoded of Link: rurp_communication_read_data gives back the payload that
   rurp_communication_write framed - for every payload that fits, every checksum, every
   length a run may have, and whatever was read, cut, lost or given up on before. *)
THEOREM WholeFramesAreDecoded == Spec => []WholeFramesDecoded
<1>1. FrameInv => WholeFramesDecoded
  BY DEF FrameInv, OnTrace, WholeFramesDecoded
<1>2. Spec => []FrameInv
  BY LinkHolds, InitFrame, NextFrame, PTL DEF Spec
<1> QED BY <1>1, <1>2, PTL
-----------------------------------------------------------------------------
(* The PY32 port. *)

(* Rings.  An index is reduced once at most. *)
Reduced(x, c) == IF x < c THEN x ELSE x - c
Ring(c) == 0..(c - 1)
Slot(tail, i, c) == Reduced(tail + i - 1, c)

LEMMA ModFacts ==
  ASSUME NEW c \in Nat \ {0}, NEW x \in Nat, x < 2 * c
  PROVE  x % c = Reduced(x, c)
<1>1. CASE x < c
  BY <1>1 DEF Reduced
<1>2. CASE x >= c
  BY <1>2 DEF Reduced
<1> QED BY <1>1, <1>2

LEMMA RingLength ==
  ASSUME NEW c \in Nat \ {0, 1}, NEW head \in Ring(c), NEW tail \in Ring(c)
  PROVE  InRing(head, tail, c) \in Ring(c)
BY DEF InRing, Ring

LEMMA SlotFacts ==
  ASSUME NEW c \in Nat \ {0, 1}, NEW tail \in Ring(c), NEW i \in 1..c
  PROVE  /\ (tail + i - 1) % c = Slot(tail, i, c)
         /\ Slot(tail, i, c) \in Ring(c)
         /\ (Slot(tail, i, c) - tail + c) % c = i - 1
<1>1. tail + i - 1 \in Nat /\ tail + i - 1 < 2 * c /\ c \in Nat \ {0}
  BY DEF Ring
<1>2. (tail + i - 1) % c = Slot(tail, i, c)
  BY <1>1, ModFacts DEF Slot
<1>3. Slot(tail, i, c) \in Ring(c)
  BY <1>1 DEF Slot, Reduced, Ring
<1>4. /\ Slot(tail, i, c) - tail + c \in Nat /\ Slot(tail, i, c) - tail + c < 2 * c
      /\ Reduced(Slot(tail, i, c) - tail + c, c) = i - 1
  BY <1>1 DEF Slot, Reduced, Ring
<1>5. (Slot(tail, i, c) - tail + c) % c = i - 1
  BY <1>4, ModFacts
<1> QED BY <1>2, <1>3, <1>5

(* The sequence s is what a ring holds. *)
Holds(S, s, buffer, head, tail, c) ==
  /\ s \in Seq(S) /\ Len(s) = InRing(head, tail, c)
  /\ \A i \in 1..InRing(head, tail, c) : s[i] = buffer[Slot(tail, i, c)]

RingOf(S, buffer, head, tail, c) ==
  /\ c \in Nat \ {0, 1} /\ head \in Ring(c) /\ tail \in Ring(c)
  /\ buffer \in [Ring(c) -> S]

\* Two buffers are the same in some places behind the tail.
Agree(buffer, after, tail, places, c) ==
  \A i \in places : after[Slot(tail, i, c)] = buffer[Slot(tail, i, c)]

LEMMA ContentsFacts ==
  ASSUME NEW S, NEW buffer, NEW head, NEW tail, NEW c, RingOf(S, buffer, head, tail, c)
  PROVE  Holds(S, Contents(buffer, head, tail, c), buffer, head, tail, c)
<1> USE DEF RingOf
<1> DEFINE n == InRing(head, tail, c)
<1>1. n \in Nat /\ n < c
  BY RingLength DEF Ring
<1>2. \A i \in 1..n : (tail + i - 1) % c = Slot(tail, i, c) /\ Slot(tail, i, c) \in Ring(c)
  BY <1>1, SlotFacts
<1>3. Contents(buffer, head, tail, c) = [i \in 1..n |-> buffer[(tail + i - 1) % c]]
  BY DEF Contents
<1> HIDE DEF n
<1>4. Contents(buffer, head, tail, c) = [i \in 1..n |-> buffer[Slot(tail, i, c)]]
  BY <1>2, <1>3
<1>5. \A i \in 1..n : buffer[Slot(tail, i, c)] \in S
  BY <1>2
<1> QED BY <1>1, <1>4, <1>5 DEF n, Holds

(* Bytes are put behind the contents of a ring. *)
IsPut(buffer, after, head, tail, n, c) ==
  LET h == (head + n) % c
  IN  /\ h \in Ring(c) /\ InRing(h, tail, c) = InRing(head, tail, c) + n
      /\ n # 0 => IsStrictPrefix(Contents(buffer, head, tail, c), Contents(after, h, tail, c))
      /\ n = 0 => Contents(after, h, tail, c) = Contents(buffer, head, tail, c)

LEMMA PutFacts ==
  ASSUME NEW S, NEW buffer, NEW after, NEW head, NEW tail, NEW c, NEW n \in Nat,
         RingOf(S, buffer, head, tail, c), RingOf(S, after, head, tail, c),
         InRing(head, tail, c) + n < c,
         Agree(buffer, after, tail, 1..InRing(head, tail, c), c)
  PROVE  IsPut(buffer, after, head, tail, n, c)
<1> USE DEF RingOf, Agree
<1>0. Holds(S, Contents(buffer, head, tail, c), buffer, head, tail, c)
  BY ContentsFacts
<1> DEFINE m == InRing(head, tail, c)
           h == (head + n) % c
           s == Contents(buffer, head, tail, c)
           t == Contents(after, h, tail, c)
<1>1. m \in Nat /\ m < c
  BY RingLength DEF Ring
<1>2. h = Reduced(head + n, c)
  <2>1. head + n \in Nat /\ head + n < 2 * c
    BY <1>1 DEF Ring
  <2> QED BY <2>1, ModFacts
<1>3. h \in Ring(c) /\ InRing(h, tail, c) = m + n
  BY <1>1, <1>2 DEF Reduced, Ring, InRing
<1>4. s \in Seq(S) /\ Len(s) = m /\ \A i \in 1..m : s[i] = buffer[Slot(tail, i, c)]
  BY <1>0 DEF Holds
<1>5. t \in Seq(S) /\ Len(t) = m + n /\ \A i \in 1..(m + n) : t[i] = after[Slot(tail, i, c)]
  <2>1. RingOf(S, after, h, tail, c)
    BY <1>3
  <2>2. Holds(S, t, after, h, tail, c)
    BY <2>1, ContentsFacts
  <2> QED BY <1>3, <2>2 DEF Holds
<1>6. \A i \in 1..m : s[i] = t[i]
  BY <1>1, <1>4, <1>5
<1> HIDE DEF m, h, s, t
<1>7. IsPrefix(s, t)
  <2>1. SubSeq(s, 1, Len(s)) = SubSeq(t, 1, Len(s))
    BY <1>1, <1>4, <1>5, <1>6
  <2> QED BY <1>1, <1>4, <1>5, <2>1 DEF IsPrefix
<1>8. n # 0 => IsStrictPrefix(s, t)
  BY <1>1, <1>4, <1>5, <1>7 DEF IsStrictPrefix
<1>9. n = 0 => s = t
  BY <1>1, <1>4, <1>5, <1>6
<1> QED BY <1>3, <1>8, <1>9 DEF m, h, s, t, IsPut

(* Bytes are taken from the front of a ring. *)
IsTaken(buffer, after, head, tail, n, c) ==
  LET t == (tail + n) % c
  IN  /\ t \in Ring(c) /\ InRing(head, t, c) = InRing(head, tail, c) - n
      /\ Contents(after, head, t, c) =
           SubSeq(Contents(buffer, head, tail, c), n + 1, InRing(head, tail, c))

LEMMA TakeFacts ==
  ASSUME NEW S, NEW buffer, NEW after, NEW head, NEW tail, NEW c,
         NEW n \in 0..InRing(head, tail, c),
         RingOf(S, buffer, head, tail, c), RingOf(S, after, head, tail, c),
         Agree(buffer, after, tail, (n + 1)..InRing(head, tail, c), c)
  PROVE  IsTaken(buffer, after, head, tail, n, c)
<1> USE DEF RingOf, Agree
<1>0. Holds(S, Contents(buffer, head, tail, c), buffer, head, tail, c)
  BY ContentsFacts
<1> DEFINE m == InRing(head, tail, c)
           h == (tail + n) % c
           s == Contents(buffer, head, tail, c)
           t == Contents(after, head, h, c)
<1>1. m \in Nat /\ m < c /\ n \in Nat /\ n <= m
  BY RingLength DEF Ring
<1>2. h = Reduced(tail + n, c)
  <2>1. tail + n \in Nat /\ tail + n < 2 * c
    BY <1>1 DEF Ring
  <2> QED BY <2>1, ModFacts
<1>3. h \in Ring(c) /\ InRing(head, h, c) = m - n
  BY <1>1, <1>2 DEF Reduced, Ring, InRing
<1>4. s \in Seq(S) /\ Len(s) = m /\ \A i \in 1..m : s[i] = buffer[Slot(tail, i, c)]
  BY <1>0 DEF Holds
<1>5. t \in Seq(S) /\ Len(t) = m - n /\ \A i \in 1..(m - n) : t[i] = after[Slot(h, i, c)]
  <2>1. RingOf(S, after, head, h, c)
    BY <1>3
  <2>2. Holds(S, t, after, head, h, c)
    BY <2>1, ContentsFacts
  <2> QED BY <1>3, <2>2 DEF Holds
<1>6. \A i \in 1..(m - n) : Slot(h, i, c) = Slot(tail, i + n, c)
  <2> HIDE DEF m, h
  <2> TAKE i \in 1..(m - n)
  <2>1. CASE tail + n < c
    BY <1>1, <1>2, <2>1 DEF Slot, Reduced, Ring
  <2>2. CASE tail + n >= c
    BY <1>1, <1>2, <2>2 DEF Slot, Reduced, Ring
  <2> QED BY <1>1, <2>1, <2>2 DEF Ring
<1>a. \A i \in (n + 1)..m : after[Slot(tail, i, c)] = buffer[Slot(tail, i, c)]
  OBVIOUS
<1> HIDE DEF m, h, s, t
<1>7. \A i \in 1..(m - n) : t[i] = s[i + n]
  <2> SUFFICES ASSUME NEW i \in 1..(m - n) PROVE t[i] = s[i + n]
    OBVIOUS
  <2>1. i + n \in (n + 1)..m /\ i + n \in 1..m
    BY <1>1
  <2> QED BY <1>a, <1>4, <1>5, <1>6, <2>1
<1> DEFINE u == SubSeq(s, n + 1, m)
<1>8. u \in Seq(S) /\ Len(u) = m - n /\ \A i \in 1..(m - n) : u[i] = s[i + n]
  BY <1>1, <1>4
<1> HIDE DEF u
<1>9. t = u
  BY <1>1, <1>5, <1>7, <1>8, SeqEqual
<1> QED BY <1>3, <1>9 DEF m, h, s, t, u, IsTaken
-----------------------------------------------------------------------------
(* The port. *)
Datum == Values \cup {0}

RxInv ==
  /\ rx_head \in Ring(RxCapacity) /\ rx_tail \in Ring(RxCapacity)
  /\ rx_buffer \in [Ring(RxCapacity) -> Datum]
  /\ value \in Datum
  /\ upc = "fetched" => rx_head # rx_tail /\ value = rx_buffer[rx_tail]

(* The main loop's byte waits in a free slot until it is published; a transmitter that is
   not busy has nothing at the endpoint. *)
TxInv ==
  /\ tx_head \in Ring(TxCapacity) /\ tx_tail \in Ring(TxCapacity)
  /\ tx_buffer \in [Ring(TxCapacity) -> Datum]
  /\ upc = "stored" => ~TxFull
  /\ ~tx_busy => inFlight = "none"

LEMMA UsbConstants ==
  /\ RxCapacity \in Nat \ {0, 1} /\ TxCapacity \in Nat \ {0, 1} /\ MaxPacket \in Nat \ {0}
  /\ \A c \in Nat \ {0, 1} : Ring(c) = 0..(c - 1) /\ 0 \in Ring(c)
BY UsbAssumption DEF Ring

LEMMA InitUsb == UsbInit => RxInv /\ TxInv
BY UsbConstants DEF UsbInit, RxInv, TxInv, Datum

LEMMA RingNextFacts ==
  ASSUME NEW c \in Nat \ {0, 1}, NEW i \in Ring(c)
  PROVE  ring_next(i, c) \in Ring(c) /\ ring_next(i, c) = (i + 1) % c
<1>1. i + 1 \in Nat /\ i + 1 < 2 * c /\ c \in Nat \ {0}
  BY DEF Ring
<1>2. (i + 1) % c = Reduced(i + 1, c)
  BY <1>1, ModFacts
<1> QED BY <1>1, <1>2 DEF ring_next, Reduced, Ring

(* What the receive ring's reader sees of it: nothing but its own reads and the packets. *)
LEMMA RxUnchanged ==
  ASSUME UNCHANGED rxVars PROVE RxContents' = RxContents
BY DEF rxVars, RxContents

LEMMA RxHolds ==
  ASSUME RxInv PROVE Holds(Datum, RxContents, rx_buffer, rx_head, rx_tail, RxCapacity)
BY UsbConstants, ContentsFacts DEF RxInv, RxContents, RingOf

rxQueue == IF upc = "fetched" THEN Tail(RxContents) ELSE RxContents
rxOut == IF upc = "fetched" THEN <<value>> ELSE <<>>

LEMMA FetchStep ==
  ASSUME RxInv, Fetch PROVE RxInv' /\ RxPipe!Next
<1>1. /\ upc = "free" /\ rx_tail # rx_head /\ value' = rx_buffer[rx_tail] /\ upc' = "fetched"
      /\ UNCHANGED <<rx_buffer, rx_head, rx_tail, configured>>
  BY DEF Fetch, rxVars, busVars
<1>2. RxContents' = RxContents
  BY RxUnchanged DEF Fetch
<1>3. InRing(rx_head, rx_tail, RxCapacity) \in Nat \ {0}
  BY <1>1, UsbConstants DEF RxInv, InRing, Ring
<1>4. /\ RxContents \in Seq(Datum) /\ Len(RxContents) \in Nat \ {0}
      /\ RxContents[1] = rx_buffer[Slot(rx_tail, 1, RxCapacity)]
  BY <1>3, RxHolds DEF Holds
<1>5. Slot(rx_tail, 1, RxCapacity) = rx_tail
  BY UsbConstants DEF RxInv, Slot, Reduced, Ring
<1>6. /\ <<value'>> = SubSeq(RxContents, 1, 1)
      /\ Tail(RxContents) = SubSeq(RxContents, 2, Len(RxContents))
  BY <1>1, <1>4, <1>5
<1>7. RxPipe!Get
  <2>1. 1 \in 1..Len(RxContents)
    BY <1>4
  <2> QED BY <1>1, <1>2, <1>6, <2>1 DEF RxPipe!Get, RxPipe!Move
<1>8. RxInv'
  BY <1>1 DEF RxInv
<1> QED BY <1>7, <1>8 DEF RxPipe!Next

LEMMA AdvanceStep ==
  ASSUME RxInv, Advance PROVE RxInv' /\ RxPipe!Next
<1> DEFINE n == InRing(rx_head, rx_tail, RxCapacity)
<1>1. /\ upc = "fetched" /\ upc' = "free" /\ value' = 0
      /\ rx_tail' = ring_next(rx_tail, RxCapacity)
      /\ rx_buffer' = [rx_buffer EXCEPT ![rx_tail] = 0]
      /\ UNCHANGED <<rx_head, configured>>
  BY DEF Advance, Return, busVars
<1>2. n \in Nat \ {0} /\ n < RxCapacity
  BY <1>1, UsbConstants DEF RxInv, InRing, Ring
<1>3. rx_tail' \in Ring(RxCapacity) /\ rx_tail' = (rx_tail + 1) % RxCapacity
  BY <1>1, UsbConstants, RingNextFacts DEF RxInv
<1>4. rx_buffer' \in [Ring(RxCapacity) -> Datum]
  BY <1>1 DEF RxInv, Datum
<1>5. \A i \in 2..n : Slot(rx_tail, i, RxCapacity) \in Ring(RxCapacity) \ {rx_tail}
  BY <1>2, UsbConstants DEF RxInv, Slot, Reduced, Ring
<1>6. \A i \in 2..n :
        rx_buffer'[Slot(rx_tail, i, RxCapacity)] = rx_buffer[Slot(rx_tail, i, RxCapacity)]
  BY <1>1, <1>5 DEF RxInv
<1> HIDE DEF n
<1>7. RxContents' = SubSeq(RxContents, 2, n)
  <2>1. 1 \in 0..n /\ 1 + 1 = 2
    BY <1>2
  <2> DEFINE after == rx_buffer'
  <2>2. /\ RingOf(Datum, rx_buffer, rx_head, rx_tail, RxCapacity)
        /\ RingOf(Datum, after, rx_head, rx_tail, RxCapacity)
        /\ Agree(rx_buffer, after, rx_tail, (1 + 1)..n, RxCapacity)
    BY <1>4, <1>6, UsbConstants DEF RxInv, RingOf, Agree
  <2>3. /\ RxContents = Contents(rx_buffer, rx_head, rx_tail, RxCapacity)
        /\ RxContents' = Contents(after, rx_head, (rx_tail + 1) % RxCapacity, RxCapacity)
    BY <1>1, <1>3 DEF RxContents
  <2> HIDE DEF after
  <2>4. IsTaken(rx_buffer, after, rx_head, rx_tail, 1, RxCapacity)
    BY <2>1, <2>2, TakeFacts DEF n
  <2> QED BY <2>1, <2>3, <2>4 DEF IsTaken, n
<1>8. RxContents' = Tail(RxContents)
  BY <1>2, <1>7, RxHolds DEF Holds, n
<1>9. <<value>> # <<>>
  OBVIOUS
<1>10. RxPipe!HandOver
  BY <1>1, <1>8, <1>9 DEF RxPipe!HandOver
<1>11. RxInv'
  BY <1>1, <1>3, <1>4 DEF RxInv, Datum
<1> QED BY <1>10, <1>11 DEF RxPipe!Next

LEMMA BulkOutStep ==
  ASSUME RxInv, NEW k \in 1..MaxPacket, NEW packet \in [1..k -> Values], BulkOut(packet)
  PROVE  RxInv' /\ [RxPipe!Next]_(RxPipe!pipe)
<1> DEFINE n == Fits(packet)
           c == RxCapacity
           m == InRing(rx_head, rx_tail, RxCapacity)
           place(j) == ((j - rx_head + c) % c) + 1
<1>0. c \in Nat \ {0, 1} /\ k \in Nat
  BY UsbConstants
<1>1. /\ rx_buffer' = [j \in 0..(c - 1) |->
                         IF place(j) \in 1..n THEN packet[place(j)] ELSE rx_buffer[j]]
      /\ rx_head' = (rx_head + n) % c
      /\ UNCHANGED <<rx_tail, upc, value, configured>>
  BY DEF BulkOut, callVars, busVars
<1>2. m \in Nat /\ m < c /\ Len(RxContents) = m /\ Len(packet) = k
  <2>1. m \in Ring(c)
    BY <1>0, RingLength DEF RxInv
  <2>2. Len(RxContents) = m
    BY RxHolds DEF Holds
  <2>3. Len(packet) = k
    BY <1>0
  <2> HIDE DEF m
  <2> QED BY <1>0, <2>1, <2>2, <2>3 DEF Ring
<1>3. n \in Nat /\ n <= k /\ m + n < c
  BY <1>0, <1>2 DEF Fits, Least
<1>4. rx_buffer' \in [Ring(c) -> Datum]
  <2>1. \A j \in Ring(c) : place(j) \in 1..n => packet[place(j)] \in Values
    BY <1>3
  <2> HIDE DEF n, place
  <2> QED BY <1>1, <2>1 DEF RxInv, Datum, Ring
<1>5. ASSUME NEW i \in 1..m
      PROVE  rx_buffer'[Slot(rx_tail, i, c)] = rx_buffer[Slot(rx_tail, i, c)]
  <2> DEFINE j == Slot(rx_tail, i, c)
  <2>1. j \in Ring(c)
    BY <1>0, <1>2, SlotFacts DEF RxInv
  <2>2. place(j) = Reduced(j - rx_head + c, c) + 1
    <3>1. j - rx_head + c \in Nat /\ j - rx_head + c < 2 * c
      BY <1>0, <2>1 DEF RxInv, Ring
    <3> HIDE DEF j
    <3> QED BY <1>0, <3>1, ModFacts
  <2>3. Reduced(j - rx_head + c, c) + 1 > n
    <3> HIDE DEF n
    <3> QED BY <1>0, <1>2, <1>3 DEF Reduced, Slot, RxInv, Ring, InRing
  <2> HIDE DEF j, n, place
  <2>4. place(j) \notin 1..n
    BY <1>3, <2>2, <2>3
  <2> QED BY <1>1, <2>1, <2>4 DEF Ring, j
<1> HIDE DEF n, m, place
<1>6. /\ rx_head' \in Ring(c)
      /\ n # 0 => IsStrictPrefix(RxContents, RxContents')
      /\ n = 0 => RxContents' = RxContents
      /\ InRing(rx_head', rx_tail, c) = m + n
  <2> DEFINE after == rx_buffer'
             h == (rx_head + n) % c
             before == Contents(rx_buffer, rx_head, rx_tail, c)
             now == Contents(after, h, rx_tail, c)
  <2>1. /\ RingOf(Datum, rx_buffer, rx_head, rx_tail, c)
        /\ RingOf(Datum, after, rx_head, rx_tail, c)
        /\ InRing(rx_head, rx_tail, c) + n < c /\ n \in Nat
        /\ Agree(rx_buffer, after, rx_tail, 1..InRing(rx_head, rx_tail, c), c)
    BY <1>0, <1>3, <1>4, <1>5 DEF RxInv, RingOf, Agree, m
  <2>2. RxContents = before /\ RxContents' = now /\ rx_head' = h
    BY <1>1 DEF RxContents
  <2> HIDE DEF after
  <2>3. IsPut(rx_buffer, after, rx_head, rx_tail, n, c)
    BY <2>1, PutFacts
  <2> QED BY <2>2, <2>3 DEF IsPut, m
<1>7. RxInv'
  <2>1. upc = "fetched" => rx_head' # rx_tail /\ rx_buffer'[rx_tail] = rx_buffer[rx_tail]
    <3> SUFFICES ASSUME upc = "fetched"
                 PROVE  rx_head' # rx_tail /\ rx_buffer'[rx_tail] = rx_buffer[rx_tail]
      OBVIOUS
    <3>1. m \in Nat \ {0}
      BY <1>0, <1>2 DEF RxInv, m, InRing, Ring
    <3>2. Slot(rx_tail, 1, c) = rx_tail
      BY <1>0 DEF RxInv, Slot, Reduced, Ring
    <3>3. InRing(rx_head', rx_tail, c) # 0
      BY <1>2, <1>3, <1>6, <3>1
    <3>4. rx_head' # rx_tail
      BY <1>0, <3>3 DEF RxInv, Ring, InRing
    <3> QED BY <1>5, <3>1, <3>2, <3>4
  <2> QED BY <1>1, <1>4, <1>6, <2>1 DEF RxInv
<1>8. CASE n = 0
  <2>1. UNCHANGED <<rxQueue, rxOut, configured>>
    BY <1>1, <1>6, <1>8 DEF rxQueue, rxOut
  <2> QED BY <1>7, <2>1 DEF RxPipe!pipe, rxQueue, rxOut
<1>9. CASE n # 0
  <2>1. /\ RxContents \in Seq(Datum) /\ Len(RxContents) = m
        /\ RxContents' \in Seq(Datum) /\ Len(RxContents') = m + n
    <3>1. Holds(Datum, RxContents, rx_buffer, rx_head, rx_tail, c)
      BY RxHolds
    <3>2. Holds(Datum, RxContents', rx_buffer', rx_head', rx_tail, c)
      BY <1>0, <1>1, <1>4, <1>6, ContentsFacts DEF RxInv, RxContents, RingOf
    <3> QED BY <1>6, <3>1, <3>2 DEF Holds, m
  <2>2. upc = "fetched" => m # 0
    BY <1>0 DEF RxInv, m, InRing, Ring
  <2>3. /\ IsStrictPrefix(rxQueue, rxQueue') /\ Len(rxQueue') <= c - 1
    <3>1. CASE upc # "fetched"
      <4>1. rxQueue = RxContents /\ rxQueue' = RxContents'
        BY <1>1, <3>1 DEF rxQueue
      <4>2. Len(RxContents') <= c - 1
        BY <1>0, <1>2, <1>3, <2>1
      <4> QED BY <1>6, <1>9, <4>1, <4>2
    <3>2. CASE upc = "fetched"
      <4>1. /\ Tail(RxContents) \in Seq(Datum) /\ Len(Tail(RxContents)) = m - 1
            /\ Tail(RxContents') \in Seq(Datum) /\ Len(Tail(RxContents')) = m + n - 1
        BY <1>2, <1>3, <2>1, <2>2, <3>2
      <4>2. \A i \in 1..m : RxContents[i] = RxContents'[i]
        <5>1. SubSeq(RxContents, 1, m) = SubSeq(RxContents', 1, m)
          BY <1>6, <1>9, <2>1 DEF IsStrictPrefix, IsPrefix
        <5> QED BY <1>2, <1>3, <2>1, <5>1
      <4>3. \A i \in 1..(m - 1) : Tail(RxContents)[i] = Tail(RxContents')[i]
        BY <1>2, <1>3, <2>1, <2>2, <3>2, <4>2
      <4> DEFINE s == Tail(RxContents)
                 t == Tail(RxContents')
      <4> HIDE DEF s, t
      <4>4. SubSeq(s, 1, Len(s)) = SubSeq(t, 1, Len(s))
        <5>1. /\ s \in Seq(Datum) /\ Len(s) = m - 1 /\ t \in Seq(Datum) /\ Len(t) = m + n - 1
              /\ \A i \in 1..(m - 1) : s[i] = t[i]
          BY <4>1, <4>3 DEF s, t
        <5>2. m - 1 \in Nat
          BY <1>2, <2>2, <3>2
        <5> QED BY <1>2, <1>3, <5>1, <5>2
      <4>5. IsStrictPrefix(s, t) /\ Len(t) <= c - 1
        BY <1>0, <1>2, <1>3, <1>9, <4>1, <4>4 DEF IsStrictPrefix, IsPrefix, s, t
      <4> QED BY <1>1, <3>2, <4>5 DEF rxQueue, s, t
    <3> QED BY <3>1, <3>2
  <2>4. UNCHANGED <<rxOut, configured>>
    BY <1>1 DEF rxOut
  <2>5. RxPipe!Put
    BY <2>3, <2>4 DEF RxPipe!Put, rxQueue, rxOut, IsStrictPrefix, IsPrefix,
                      RxPipe!IsStrictPrefix, RxPipe!IsPrefix
  <2> QED BY <1>7, <2>5 DEF RxPipe!Next
<1> QED BY <1>7, <1>8, <1>9

(* What touches neither the receive ring nor a read of it. *)
LEMMA RxOtherStep ==
  ASSUME RxInv, UNCHANGED rxVars, value' \in Datum,
         UNCHANGED <<upc, value>> \/ "fetched" \notin {upc, upc'},
         \/ configured' = configured
         \/ configured /\ configured' = FALSE
         \/ ~configured /\ configured' = TRUE
  PROVE  RxInv' /\ [RxPipe!Next]_(RxPipe!pipe)
<1>1. UNCHANGED <<rxQueue, rxOut>>
  BY RxUnchanged DEF rxQueue, rxOut
<1>2. RxInv'
  BY DEF RxInv, rxVars
<1>3. CASE configured' = configured
  BY <1>1, <1>2, <1>3 DEF RxPipe!pipe, rxQueue, rxOut
<1>4. CASE configured /\ configured' = FALSE
  <2>1. RxPipe!Down
    BY <1>1, <1>4 DEF RxPipe!Down, rxQueue, rxOut
  <2> QED BY <1>2, <2>1 DEF RxPipe!Next
<1>5. CASE ~configured /\ configured' = TRUE
  <2>1. RxPipe!Up
    BY <1>1, <1>5 DEF RxPipe!Up, rxQueue, rxOut
  <2> QED BY <1>2, <2>1 DEF RxPipe!Next
<1> QED BY <1>3, <1>4, <1>5
-----------------------------------------------------------------------------
LEMMA TxRing ==
  ASSUME TxInv PROVE RingOf(Datum, tx_buffer, tx_head, tx_tail, TxCapacity)
BY UsbConstants DEF TxInv, RingOf

LEMMA TxHolds ==
  ASSUME TxInv PROVE Holds(Datum, TxContents, tx_buffer, tx_head, tx_tail, TxCapacity)
BY TxRing, ContentsFacts DEF TxContents

(* One slot is never used: a full ring holds one byte less than it has slots. *)
LEMMA FullFacts ==
  ASSUME NEW c \in Nat \ {0, 1}, NEW head \in Ring(c), NEW tail \in Ring(c)
  PROVE  ring_next(head, c) = tail <=> InRing(head, tail, c) = c - 1
BY DEF ring_next, InRing, Ring

txSent == IF inFlight = "packet" THEN cdc_in_packet ELSE <<>>

(* Nothing of the transmitter's changes. *)
LEMMA TxOtherStep ==
  ASSUME TxInv, UNCHANGED <<txRing, txOut, configured>>, upc' # "stored" \/ upc = "stored"
  PROVE  TxInv' /\ [TxPipe!Next]_(TxPipe!pipe)
<1>1. UNCHANGED <<TxContents, txSent>>
  BY DEF TxContents, txSent, txRing, txOut
<1>2. TxInv'
  BY DEF TxInv, TxFull, txRing, txOut
<1> QED BY <1>1, <1>2 DEF TxPipe!pipe, txSent

(* A byte is stored behind the ring's contents ... *)
LEMMA StoreStep == ASSUME TxInv, RxInv, Store PROVE TxInv' /\ [TxPipe!Next]_(TxPipe!pipe)
<1> DEFINE c == TxCapacity
           m == InRing(tx_head, tx_tail, c)
<1>1. /\ ~TxFull /\ tx_buffer' = [tx_buffer EXCEPT ![tx_head] = value] /\ upc' = "stored"
      /\ UNCHANGED <<tx_head, tx_tail, tx_busy, cdc_in_packet, inFlight, configured>>
  BY DEF Store, txOut, busVars
<1>0. c \in Nat \ {0, 1} /\ tx_head \in Ring(c) /\ tx_tail \in Ring(c)
  BY UsbConstants DEF TxInv
<1>2. tx_buffer' \in [Ring(c) -> Datum]
  BY <1>1 DEF TxInv, RxInv
<1>3. \A i \in 1..m : Slot(tx_tail, i, c) \in Ring(c) /\ Slot(tx_tail, i, c) # tx_head
  BY <1>0 DEF Slot, Reduced, Ring, InRing
<1>4. Agree(tx_buffer, tx_buffer', tx_tail, 1..m, c)
  <2> HIDE DEF m
  <2> QED BY <1>1, <1>3 DEF Agree, TxInv
<1>5. TxInv'
  BY <1>0, <1>1, <1>2 DEF TxInv, TxFull
<1>6. TxContents' = TxContents
  <2>1. /\ RingOf(Datum, tx_buffer, tx_head, tx_tail, c)
        /\ RingOf(Datum, tx_buffer', tx_head, tx_tail, c)
    BY <1>0, <1>2, TxRing DEF RingOf
  <2>2. m + 0 < c /\ 0 \in Nat
    BY <1>0, RingLength DEF Ring
  <2>3. IsPut(tx_buffer, tx_buffer', tx_head, tx_tail, 0, c)
    BY <1>4, <2>1, <2>2, PutFacts
  <2>4. (tx_head + 0) % c = tx_head
    <3>1. tx_head + 0 = tx_head /\ tx_head \in Nat /\ tx_head < c /\ tx_head < 2 * c
      BY <1>0 DEF Ring
    <3> QED BY <1>0, <3>1, ModFacts DEF Reduced
  <2> QED BY <1>1, <2>3, <2>4 DEF IsPut, TxContents
<1>7. txSent' = txSent
  BY <1>1 DEF txSent
<1> QED BY <1>1, <1>5, <1>6, <1>7 DEF TxPipe!pipe, txSent

(* ... and then published. *)
LEMMA PublishStep == ASSUME TxInv, Publish PROVE TxInv' /\ TxPipe!Next
<1> DEFINE c == TxCapacity
           m == InRing(tx_head, tx_tail, c)
<1>1. /\ upc = "stored" /\ upc' = "published" /\ tx_head' = ring_next(tx_head, c)
      /\ UNCHANGED <<tx_buffer, tx_tail, tx_busy, cdc_in_packet, inFlight, configured>>
  BY DEF Publish, txOut, busVars
<1>0. c \in Nat \ {0, 1} /\ tx_head \in Ring(c) /\ tx_tail \in Ring(c)
  BY UsbConstants DEF TxInv
<1>2. tx_head' \in Ring(c) /\ tx_head' = (tx_head + 1) % c
  BY <1>0, <1>1, RingNextFacts
<1>3. m + 1 < c /\ 1 \in Nat
  <2>1. m \in Ring(c) /\ m # c - 1
    BY <1>0, <1>1, RingLength, FullFacts DEF TxInv, TxFull
  <2> HIDE DEF m
  <2> QED BY <1>0, <2>1 DEF Ring
<1>4. IsPut(tx_buffer, tx_buffer, tx_head, tx_tail, 1, c)
  <2>1. Agree(tx_buffer, tx_buffer, tx_tail, 1..m, c)
    BY DEF Agree
  <2> QED BY <1>3, <2>1, TxRing, PutFacts
<1>5. IsStrictPrefix(TxContents, TxContents')
  BY <1>1, <1>2, <1>4 DEF IsPut, TxContents
<1>6. TxInv'
  BY <1>0, <1>1, <1>2 DEF TxInv
<1>7. Len(TxContents') <= c - 1
  <2>1. Holds(Datum, TxContents', tx_buffer, tx_head', tx_tail, c)
    BY <1>0, <1>1, <1>2, ContentsFacts DEF TxContents, RingOf, TxInv
  <2>2. InRing(tx_head', tx_tail, c) = m + 1
    BY <1>2, <1>4 DEF IsPut
  <2>3. m \in Nat
    BY <1>0, RingLength DEF Ring
  <2> HIDE DEF m
  <2> QED BY <1>0, <1>3, <2>1, <2>2, <2>3 DEF Holds
<1>8. txSent' = txSent
  BY <1>1 DEF txSent
<1>9. TxPipe!Put
  BY <1>1, <1>5, <1>7, <1>8 DEF TxPipe!Put, txSent, IsStrictPrefix, IsPrefix,
                      TxPipe!IsStrictPrefix, TxPipe!IsPrefix
<1> QED BY <1>6, <1>9 DEF TxPipe!Next

(* usb_start_next_transmit takes nothing or a packet from the front of the ring. *)
LEMMA StartNextFacts ==
  ASSUME TxInv, tx_head' = tx_head, NEW busy, NEW flight, StartNext(busy, flight)
  PROVE  /\ RingOf(Datum, tx_buffer', tx_head, tx_tail', TxCapacity)
         /\ InRing(tx_head, tx_tail', TxCapacity) <= InRing(tx_head, tx_tail, TxCapacity)
         /\ \/ /\ TxContents' = TxContents /\ tx_busy' = busy /\ inFlight' = flight
               /\ cdc_in_packet' = IF flight = "none" THEN <<>> ELSE cdc_in_packet
            \/ /\ ~busy /\ tx_busy' = TRUE /\ inFlight' = "packet"
               /\ \E n \in 1..Len(TxContents) :
                    /\ cdc_in_packet' = SubSeq(TxContents, 1, n)
                    /\ TxContents' = SubSeq(TxContents, n + 1, Len(TxContents))
<1> DEFINE c == TxCapacity
           m == InRing(tx_head, tx_tail, c)
           n == Least(Len(TxContents), MaxPacket)
           gone(k) == (k - tx_tail + TxCapacity) % TxCapacity < n
<1>0. c \in Nat \ {0, 1} /\ tx_head \in Ring(c) /\ tx_tail \in Ring(c)
      /\ RingOf(Datum, tx_buffer, tx_head, tx_tail, c)
  BY UsbConstants, TxRing DEF TxInv
<1>1. m \in Nat /\ m < c /\ Len(TxContents) = m
  <2>1. Len(TxContents) = m
    BY TxHolds DEF Holds
  <2>2. m \in Ring(c)
    BY <1>0, RingLength
  <2> HIDE DEF m
  <2> QED BY <1>0, <2>1, <2>2 DEF Ring
<1>2. CASE busy \/ n = 0 \/ ~configured'
  <2>1. UNCHANGED <<tx_buffer, tx_tail>> /\ tx_busy' = busy /\ inFlight' = flight
        /\ cdc_in_packet' = IF flight = "none" THEN <<>> ELSE cdc_in_packet
    BY <1>2 DEF StartNext
  <2>2. TxContents' = TxContents
    BY <2>1 DEF TxContents
  <2> HIDE DEF m
  <2> QED BY <1>0, <1>1, <2>1, <2>2 DEF m
<1>3. CASE ~(busy \/ n = 0 \/ ~configured')
  <2>1. /\ cdc_in_packet' = SubSeq(TxContents, 1, n)
        /\ tx_tail' = (tx_tail + n) % c
        /\ tx_buffer' = [k \in DOMAIN tx_buffer |-> IF gone(k) THEN 0 ELSE tx_buffer[k]]
        /\ tx_busy' = TRUE /\ inFlight' = "packet" /\ ~busy /\ n # 0
    BY <1>3 DEF StartNext
  <2>2. n \in 1..m /\ n \in 0..m
    <3> HIDE DEF m
    <3> QED BY <1>1, <2>1, UsbConstants DEF Least
  <2> HIDE DEF n
  <2>3. tx_buffer' \in [Ring(c) -> Datum]
    <3> HIDE DEF gone
    <3> QED BY <2>1 DEF TxInv, Datum
  <2>4. ASSUME NEW i \in (n + 1)..m
        PROVE  tx_buffer'[Slot(tx_tail, i, c)] = tx_buffer[Slot(tx_tail, i, c)]
    <3>1. i \in 1..c /\ i - 1 >= n
      <4> HIDE DEF m
      <4> QED BY <1>0, <1>1, <2>2
    <3>2. /\ Slot(tx_tail, i, c) \in Ring(c)
          /\ (Slot(tx_tail, i, c) - tx_tail + c) % c = i - 1
      BY <1>0, <3>1, SlotFacts
    <3>3. ~gone(Slot(tx_tail, i, c))
      BY <2>2, <3>1, <3>2
    <3> HIDE DEF gone
    <3> QED BY <2>1, <3>2, <3>3 DEF TxInv
  <2>5. IsTaken(tx_buffer, tx_buffer', tx_head, tx_tail, n, c)
    <3>1. RingOf(Datum, tx_buffer', tx_head, tx_tail, c)
      BY <1>0, <2>3 DEF RingOf
    <3>2. Agree(tx_buffer, tx_buffer', tx_tail, (n + 1)..m, c)
      <4> HIDE DEF m
      <4> QED BY <2>4 DEF Agree
    <3> QED BY <1>0, <2>2, <3>1, <3>2, TakeFacts
  <2>6. /\ tx_tail' \in Ring(c) /\ InRing(tx_head, tx_tail', c) = m - n
        /\ TxContents' = SubSeq(TxContents, n + 1, m)
    BY <2>1, <2>5 DEF IsTaken, TxContents
  <2>7. RingOf(Datum, tx_buffer', tx_head, tx_tail', c)
    BY <1>0, <2>3, <2>6 DEF RingOf
  <2>8. InRing(tx_head, tx_tail', c) <= m
    <3> HIDE DEF m
    <3> QED BY <1>1, <2>2, <2>6
  <2> QED BY <1>1, <2>1, <2>2, <2>6, <2>7, <2>8
<1> QED BY <1>2, <1>3

(* Where it is called, the transmitter is free if it starts: what leaves the ring goes to an
   endpoint that has handed over what it had. *)
LEMMA StartNextStep ==
  ASSUME TxInv, tx_head' = tx_head, NEW busy \in BOOLEAN, NEW flight, StartNext(busy, flight),
         upc' # "stored" \/ upc = "stored",
         ~busy => flight = "none" /\ inFlight # "packet",
         flight = inFlight \/ (flight = "none" /\ inFlight = "taken")
  PROVE  /\ TxInv'
         /\ TxPipe!Move \/ UNCHANGED <<TxContents, txSent>>
<1>1. RingOf(Datum, tx_buffer', tx_head, tx_tail', TxCapacity)
      /\ InRing(tx_head, tx_tail', TxCapacity) <= InRing(tx_head, tx_tail, TxCapacity)
  BY StartNextFacts
<1>2. upc' = "stored" => ~TxFull'
  <2> DEFINE c == TxCapacity
  <2>1. c \in Nat \ {0, 1} /\ tx_head \in Ring(c) /\ tx_tail \in Ring(c) /\ tx_tail' \in Ring(c)
    BY <1>1, UsbConstants DEF TxInv, RingOf
  <2>2. /\ InRing(tx_head, tx_tail, c) \in Ring(c) /\ InRing(tx_head, tx_tail', c) \in Ring(c)
    BY <2>1, RingLength
  <2>3. upc' = "stored" => InRing(tx_head, tx_tail, c) # c - 1
    BY <2>1, FullFacts DEF TxInv, TxFull
  <2>4. upc' = "stored" => InRing(tx_head, tx_tail', c) # c - 1
    BY <1>1, <2>1, <2>2, <2>3 DEF Ring
  <2> QED BY <2>1, <2>4, FullFacts DEF TxFull
<1>3. CASE /\ TxContents' = TxContents /\ tx_busy' = busy /\ inFlight' = flight
           /\ cdc_in_packet' = IF flight = "none" THEN <<>> ELSE cdc_in_packet
  <2>1. TxInv'
    BY <1>1, <1>2, <1>3 DEF TxInv, RingOf
  <2>2. txSent' = txSent
    BY <1>3 DEF txSent
  <2> QED BY <1>3, <2>1, <2>2
<1>4. CASE /\ ~busy /\ tx_busy' = TRUE /\ inFlight' = "packet"
           /\ \E n \in 1..Len(TxContents) :
                /\ cdc_in_packet' = SubSeq(TxContents, 1, n)
                /\ TxContents' = SubSeq(TxContents, n + 1, Len(TxContents))
  <2>1. TxInv'
    BY <1>1, <1>2, <1>4 DEF TxInv, RingOf
  <2>2. TxPipe!Move
    BY <1>4 DEF TxPipe!Move
  <2> QED BY <2>1, <2>2
<1> QED BY <1>3, <1>4, StartNextFacts

LEMMA TxStartStep ==
  ASSUME TxInv, StartNextSafe, upc' # "stored" \/ upc = "stored", tx_busy \in BOOLEAN
  PROVE  TxInv' /\ [TxPipe!Next]_(TxPipe!pipe)
<1>1. /\ StartNext(tx_busy, inFlight) /\ tx_head' = tx_head /\ configured' = configured
  BY DEF StartNextSafe, busVars
<1>2. TxInv' /\ (TxPipe!Move \/ UNCHANGED <<TxContents, txSent>>)
  BY <1>1, StartNextStep DEF TxInv
<1>3. CASE TxPipe!Move
  BY <1>1, <1>2, <1>3 DEF TxPipe!Get, TxPipe!Next
<1>4. CASE UNCHANGED <<TxContents, txSent>>
  BY <1>1, <1>2, <1>4 DEF TxPipe!pipe, txSent
<1> QED BY <1>2, <1>3, <1>4

LEMMA BulkInStep ==
  ASSUME TxInv, BulkIn, tx_busy \in BOOLEAN
  PROVE  TxInv' /\ [TxPipe!Next]_(TxPipe!pipe)
<1>1. inFlight = "taken" /\ tx_head' = tx_head /\ upc' = upc /\ configured' = configured
  BY DEF BulkIn, callVars, busVars
<1>2. CASE Len(cdc_in_packet) = MaxPacket
  <2>1. inFlight' = "zlp" /\ UNCHANGED <<tx_busy, tx_buffer, tx_tail>>
    BY <1>2 DEF BulkIn
  <2>2. UNCHANGED <<TxContents, txSent>>
    BY <1>1, <2>1 DEF TxContents, txSent
  <2>3. TxInv'
    BY <1>1, <2>1 DEF TxInv, TxFull
  <2> QED BY <1>1, <2>2, <2>3 DEF TxPipe!pipe, txSent
<1>3. CASE Len(cdc_in_packet) # MaxPacket
  <2>1. StartNext(FALSE, "none")
    BY <1>3 DEF BulkIn
  <2>2. TxInv' /\ (TxPipe!Move \/ UNCHANGED <<TxContents, txSent>>)
    BY <1>1, <2>1, StartNextStep
  <2>3. CASE TxPipe!Move
    BY <1>1, <2>2, <2>3 DEF TxPipe!Get, TxPipe!Next
  <2>4. CASE UNCHANGED <<TxContents, txSent>>
    BY <1>1, <2>2, <2>4 DEF TxPipe!pipe, txSent
  <2> QED BY <2>2, <2>3, <2>4
<1> QED BY <1>2, <1>3

(* The bus and the host. *)
LEMMA TxBusStep ==
  ASSUME TxInv, tx_busy \in BOOLEAN, HostTakes \/ BusReset \/ Configure
  PROVE  TxInv' /\ [TxPipe!Next]_(TxPipe!pipe)
<1>1. CASE HostTakes
  <2>1. /\ inFlight \in {"packet", "zlp"} /\ inFlight' = "taken"
        /\ UNCHANGED <<tx_buffer, tx_head, tx_tail, tx_busy, cdc_in_packet, upc, configured>>
    BY <1>1 DEF HostTakes, txRing, callVars, busVars
  <2>2. TxInv'
    BY <2>1 DEF TxInv, TxFull
  <2>3. TxContents' = TxContents /\ txSent' = <<>>
    BY <2>1 DEF TxContents, txSent
  <2>4. CASE txSent = <<>>
    BY <2>1, <2>2, <2>3, <2>4 DEF TxPipe!pipe, txSent
  <2>5. CASE txSent # <<>>
    <3>1. TxPipe!HandOver
      BY <2>1, <2>3, <2>5 DEF TxPipe!HandOver, txSent
    <3> QED BY <2>2, <3>1 DEF TxPipe!Next
  <2> QED BY <2>4, <2>5
<1>2. CASE BusReset
  <2>1. /\ configured /\ configured' = FALSE /\ inFlight' = "none"
        /\ UNCHANGED <<tx_buffer, tx_head, tx_tail, tx_busy, upc>>
    BY <1>2 DEF BusReset, txRing, callVars
  <2>2. TxInv'
    BY <2>1 DEF TxInv, TxFull
  <2>3. TxContents' = TxContents /\ txSent' = <<>>
    BY <2>1 DEF TxContents, txSent
  <2>4. TxPipe!Down
    BY <2>1, <2>3 DEF TxPipe!Down, txSent
  <2> QED BY <2>2, <2>4 DEF TxPipe!Next
<1>3. CASE Configure
  <2>1. /\ ~configured /\ configured' = TRUE /\ StartNext(tx_busy, inFlight)
        /\ tx_head' = tx_head /\ upc' = upc
    BY <1>3 DEF Configure, callVars
  <2>2. TxInv' /\ (TxPipe!Move \/ UNCHANGED <<TxContents, txSent>>)
    BY <2>1, StartNextStep DEF TxInv
  <2>3. TxPipe!Up
    <3>1. CASE TxPipe!Move
      BY <2>1, <3>1 DEF TxPipe!Up
    <3>2. CASE UNCHANGED <<TxContents, txSent>>
      BY <2>1, <3>2 DEF TxPipe!Up, txSent
    <3> QED BY <2>2, <3>1, <3>2
  <2> QED BY <2>2, <2>3 DEF TxPipe!Next
<1> QED BY <1>1, <1>2, <1>3
-----------------------------------------------------------------------------
BusyInv == tx_busy \in BOOLEAN

LEMMA BusyStep == ASSUME BusyInv, UsbNext PROVE BusyInv'
<1>1. ASSUME NEW busy \in BOOLEAN, NEW flight, StartNext(busy, flight) PROVE tx_busy' \in BOOLEAN
  BY <1>1 DEF StartNext
<1>2. CASE StartNextSafe
  BY <1>1, <1>2 DEF StartNextSafe, BusyInv
<1>3. CASE BulkIn
  BY <1>1, <1>3 DEF BulkIn, BusyInv
<1>4. CASE Configure
  BY <1>1, <1>4 DEF Configure, BusyInv
<1>5. CASE UNCHANGED tx_busy
  BY <1>5 DEF BusyInv
<1>6. StartNextSafe \/ BulkIn \/ Configure \/ UNCHANGED tx_busy
  BY DEF UsbNext, Fetch, Flush, Write, Call, Advance, Store, Publish, Start, WriteTimesOut,
         FlushReturns, TimePasses, BulkOut, HostTakes, BusReset, txOut
<1> QED BY <1>2, <1>3, <1>4, <1>5, <1>6

LEMMA RxStep ==
  ASSUME RxInv, UsbNext PROVE RxInv' /\ [RxPipe!Next]_(RxPipe!pipe)
<1> USE DEF rxVars, callVars, busVars
<1>0. value \in Datum /\ 0 \in Datum /\ \A b \in Values : b \in Datum
  BY DEF RxInv, Datum
<1>1. CASE Fetch
  BY <1>1, FetchStep
<1>2. CASE Advance
  BY <1>2, AdvanceStep
<1>3. CASE \E n \in 1..MaxPacket : \E packet \in [1..n -> Values] : BulkOut(packet)
  BY <1>3, BulkOutStep
<1>4. CASE \E b \in Values : Write(b)
  BY <1>0, <1>4, RxOtherStep DEF Write
<1>5. CASE Store \/ Publish \/ TimePasses
  BY <1>0, <1>5, RxOtherStep DEF Store, Publish, TimePasses
<1>6. CASE Start \/ WriteTimesOut \/ FlushReturns
  BY <1>0, <1>6, RxOtherStep DEF Start, WriteTimesOut, FlushReturns, Return, StartNextSafe
<1>7. CASE Flush
  BY <1>0, <1>7, RxOtherStep DEF Flush, StartNextSafe
<1>8. CASE HostTakes
  BY <1>0, <1>8, RxOtherStep DEF HostTakes
<1>9. CASE BulkIn
  BY <1>0, <1>9, RxOtherStep DEF BulkIn
<1>10. CASE BusReset
  <2>1. configured /\ configured' = FALSE /\ UNCHANGED rxVars /\ UNCHANGED <<upc, value>>
    BY <1>10 DEF BusReset
  <2>2. value' \in Datum
    BY <1>0, <2>1
  <2> QED BY <2>1, <2>2, RxOtherStep
<1>11. CASE Configure
  BY <1>0, <1>11, RxOtherStep DEF Configure
<1> QED BY <1>1, <1>2, <1>3, <1>4, <1>5, <1>6, <1>7, <1>8, <1>9, <1>10, <1>11 DEF UsbNext, Call

LEMMA TxStep ==
  ASSUME TxInv, RxInv, BusyInv, UsbNext PROVE TxInv' /\ [TxPipe!Next]_(TxPipe!pipe)
<1> USE DEF txRing, txOut, callVars, busVars
<1>0. tx_busy \in BOOLEAN
  BY DEF BusyInv
<1>1. CASE Store
  BY <1>1, StoreStep
<1>2. CASE Publish
  BY <1>2, PublishStep
<1>3. CASE Start \/ WriteTimesOut
  BY <1>0, <1>3, TxStartStep DEF Start, WriteTimesOut, Return
<1>4. CASE Flush
  BY <1>0, <1>4, TxStartStep DEF Flush
<1>5. CASE BulkIn
  BY <1>0, <1>5, BulkInStep
<1>6. CASE HostTakes \/ BusReset \/ Configure
  BY <1>0, <1>6, TxBusStep
<1>7. CASE Fetch
  BY <1>7, TxOtherStep DEF Fetch
<1>8. CASE Advance \/ FlushReturns
  BY <1>8, TxOtherStep DEF Advance, FlushReturns, Return
<1>9. CASE \E b \in Values : Write(b)
  BY <1>9, TxOtherStep DEF Write
<1>10. CASE TimePasses
  BY <1>10, TxOtherStep DEF TimePasses
<1>11. CASE \E n \in 1..MaxPacket : \E packet \in [1..n -> Values] : BulkOut(packet)
  BY <1>11, TxOtherStep DEF BulkOut
<1> QED BY <1>1, <1>2, <1>3, <1>4, <1>5, <1>6, <1>7, <1>8, <1>9, <1>10, <1>11 DEF UsbNext, Call

UsbInv == RxInv /\ TxInv /\ BusyInv

LEMMA UsbStep ==
  ASSUME UsbInv, [UsbNext]_usbVars
  PROVE  UsbInv' /\ [RxPipe!Next]_(RxPipe!pipe) /\ [TxPipe!Next]_(TxPipe!pipe)
<1>1. CASE UsbNext
  BY <1>1, RxStep, TxStep, BusyStep DEF UsbInv
<1>2. CASE UNCHANGED usbVars
  <2>1. UNCHANGED <<rx_buffer, rx_head, rx_tail, tx_buffer, tx_head, tx_tail, tx_busy>>
        /\ UNCHANGED <<cdc_in_packet, inFlight, configured, upc, value>>
    BY <1>2 DEF usbVars, rxVars, txRing, txOut, callVars, busVars
  <2>2. RxInv' /\ TxInv' /\ BusyInv'
    BY <2>1 DEF UsbInv, RxInv, TxInv, BusyInv, TxFull
  <2>3. UNCHANGED RxPipe!pipe
    BY <2>1 DEF RxPipe!pipe, RxContents
  <2>4. UNCHANGED TxPipe!pipe
    BY <2>1 DEF TxPipe!pipe, TxContents
  <2> QED BY <2>2, <2>3, <2>4 DEF UsbInv
<1> QED BY <1>1, <1>2

LEMMA PipesBeginEmpty ==
  ASSUME UsbInit PROVE RxPipe!Init /\ TxPipe!Init
<1>1. /\ rx_head = 0 /\ rx_tail = 0 /\ tx_head = 0 /\ tx_tail = 0
      /\ configured = FALSE /\ upc = "free" /\ inFlight = "none"
  BY DEF UsbInit
<1>2. /\ InRing(rx_head, rx_tail, RxCapacity) = 0
      /\ InRing(tx_head, tx_tail, TxCapacity) = 0
  BY <1>1 DEF InRing
<1>3. RxContents = <<>> /\ TxContents = <<>>
  BY <1>2, InitUsb, RxHolds, TxHolds DEF Holds
<1> QED BY <1>1, <1>3 DEF RxPipe!Init, TxPipe!Init

(* PortIsTwoPipes of UsbCdc: the detailed port implements two BytePipes.  Interrupts come
   between the byte and the index of py32_usb_read and of py32_usb_write, packets are cut
   off at a full ring, the bus is reset and configured again, and still each ring hands
   over what was put into it, in order and once. *)
THEOREM RingsAreFifos == UsbSpec => PortIsTwoPipes
<1>1. UsbInit => UsbInv /\ RxPipe!Init /\ TxPipe!Init
  <2>1. UsbInit => BusyInv
    BY DEF UsbInit, BusyInv
  <2> QED BY <2>1, InitUsb, PipesBeginEmpty DEF UsbInv
<1>2. UsbInv /\ [UsbNext]_usbVars =>
        UsbInv' /\ [RxPipe!Next]_(RxPipe!pipe) /\ [TxPipe!Next]_(TxPipe!pipe)
  BY UsbStep
<1> QED BY <1>1, <1>2, PTL DEF UsbSpec, PortIsTwoPipes, RxPipe!Spec, TxPipe!Spec
===============================================================================
