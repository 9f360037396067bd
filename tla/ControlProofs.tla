---------------------------- MODULE ControlProofs ----------------------------
(***************************************************************************)
(* Proofs about Controls: each part keeps what it promises, for every      *)
(* stage, configuration and tempo, every width of values and clocks and    *)
(* every number of steps.                                                  *)
(*                                                                         *)
(* The arithmetic comes first: the provers know what a quotient and a      *)
(* remainder are, but not what division keeps.  Then a part at a time:     *)
(*   Stage           a sound that goes on, or a lit LED, has a key that is *)
(*                   down and whose messages pass (StageInv);              *)
(*   Button          a contact that is not believed has not waited for the *)
(*                   whole debounce time (StillWaiting);                   *)
(*   Analog          its types, and the order of its map;                  *)
(*   Encoder         what was taken of the channels is what has been sent  *)
(*                   or is left to send (EncoderInv);                      *)
(*   ClockGenerator  the next tick is where the ticks sent so far put it   *)
(*                   (OnSchedule), at most a period ahead and not further  *)
(*                   behind than an update can be late (NotFarOff);        *)
(*   ClockCounter    the window measures ticks of the tempo, or will have  *)
(*                   healed when the ticks still to come have              *)
(*                   (WindowHeals).                                        *)
(* A behaviour of Controls is one of every part, running or not, at the    *)
(* end of the module.                                                      *)
(***************************************************************************)
EXTENDS Controls, TLAPS

-----------------------------------------------------------------------------
(* Division rounds down, and keeps order.                                  *)
LEMMA Quotient ==
    ASSUME NEW a \in Int, NEW n \in Nat \ {0}
    PROVE  /\ a \div n \in Int
           /\ n * (a \div n) <= a /\ a < n * (a \div n) + n
  <1>1. a \div n \in Int /\ a % n \in 0 .. n - 1 /\ a = n * (a \div n) + (a % n)
    OBVIOUS
  <1> QED
    BY <1>1

LEMMA ProductOrder ==
    ASSUME NEW p \in Int, NEW q \in Int, NEW k \in Nat, p <= q
    PROVE  k * p <= k * q /\ p * k <= q * k
  <1>1. q - p \in Nat
    OBVIOUS
  <1>2. k * (q - p) \in Nat
    BY <1>1
  <1> QED
    BY <1>2

LEMMA QuotientOrder ==
    ASSUME NEW a \in Int, NEW b \in Int, NEW n \in Nat \ {0}, a <= b
    PROVE  a \div n <= b \div n
  <1> DEFINE q == a \div n
             r == b \div n
  <1>1. q \in Int /\ r \in Int /\ n * q <= a /\ b < n * r + n
    BY Quotient
  <1> HIDE DEF q, r
  <1> SUFFICES ASSUME r + 1 <= q PROVE FALSE
    BY <1>1 DEF q, r
  <1>2. n * (r + 1) <= n * q
    BY <1>1, ProductOrder
  <1>3. n * (r + 1) = n * r + n
    BY <1>1
  <1> QED
    BY <1>1, <1>2, <1>3

LEMMA QuotientIs ==
    ASSUME NEW a \in Int, NEW n \in Nat \ {0}, NEW q \in Int,
           n * q <= a, a < n * q + n
    PROVE  a \div n = q
  <1> DEFINE r == a \div n
  <1>1. r \in Int /\ n * r <= a /\ a < n * r + n
    BY Quotient
  <1> HIDE DEF r
  <1>2. ASSUME r + 1 <= q PROVE FALSE
    <2>1. n * (r + 1) <= n * q /\ n * (r + 1) = n * r + n
      BY <1>1, <1>2, ProductOrder
    <2> QED
      BY <1>1, <2>1
  <1>3. ASSUME q + 1 <= r PROVE FALSE
    <2>1. n * (q + 1) <= n * r /\ n * (q + 1) = n * q + n
      BY <1>1, <1>3, ProductOrder
    <2> QED
      BY <1>1, <2>1
  <1> QED
    BY <1>1, <1>2, <1>3 DEF r
-----------------------------------------------------------------------------
(* A remainder is known by its class.                                      *)
LEMMA RemainderIs ==
    ASSUME NEW n \in Nat \ {0}, NEW a \in Int, NEW k \in Int, NEW r \in 0 .. n - 1,
           a = n * k + r
    PROVE  a % n = r
  <1>1. a \div n = k
    BY QuotientIs
  <1>2. a = n * (a \div n) + (a % n)
    OBVIOUS
  <1>3. a % n \in Int /\ n * k \in Int
    OBVIOUS
  <1> QED
    BY <1>1, <1>2, <1>3

LEMMA Remainder ==
    ASSUME NEW n \in Nat \ {0}, NEW a \in Int
    PROVE  a % n \in 0 .. n - 1 /\ \E k \in Int : a = n * k + (a % n)
  <1>1. a \div n \in Int /\ a % n \in 0 .. n - 1 /\ a = n * (a \div n) + (a % n)
    OBVIOUS
  <1> QED
    BY <1>1

(* Numbers that differ by a multiple of n leave the same remainder.        *)
LEMMA RemainderSame ==
    ASSUME NEW n \in Nat \ {0}, NEW a \in Int, NEW b \in Int, NEW k \in Int,
           a = b + n * k
    PROVE  a % n = b % n
  <1>1. PICK j \in Int : b = n * j + (b % n)
    BY Remainder
  <1>2. b % n \in 0 .. n - 1
    BY Remainder
  <1>3. j + k \in Int /\ n * (j + k) = n * j + n * k
    OBVIOUS
  <1>4. n * j \in Int /\ n * k \in Int
    OBVIOUS
  <1>5. a = n * (j + k) + (b % n)
    BY <1>1, <1>2, <1>3, <1>4
  <1> QED
    BY <1>2, <1>3, <1>5, RemainderIs

(* The difference of two readings of a clock that wraps at n is that of    *)
(* the times, as long as it is shorter than n.                             *)
LEMMA ClockDifference ==
    ASSUME NEW n \in Nat \ {0}, NEW a \in Int, NEW b \in Int
    PROVE  ((a % n) - (b % n)) % n = (a - b) % n
  <1>1. PICK j \in Int : a = n * j + (a % n)
    BY Remainder
  <1>2. PICK k \in Int : b = n * k + (b % n)
    BY Remainder
  <1>3. a % n \in Int /\ b % n \in Int
    BY Remainder
  <1> DEFINE x == (a % n) - (b % n)
             y == a - b
             i == k - j
  <1>4. i \in Int /\ n * i = n * k - n * j /\ n * k \in Int /\ n * j \in Int
    OBVIOUS
  <1>5. x = y + n * i /\ x \in Int /\ y \in Int
    BY <1>1, <1>2, <1>3, <1>4
  <1> HIDE DEF x, y, i
  <1>6. x % n = y % n
    BY <1>4, <1>5, RemainderSame
  <1> QED
    BY <1>6 DEF x, y

(* A reading moved on is the reading of the time moved on.                 *)
LEMMA ClockSum ==
    ASSUME NEW n \in Nat \ {0}, NEW a \in Int, NEW b \in Int
    PROVE  ((a % n) + b) % n = (a + b) % n
  <1>1. PICK j \in Int : a = n * j + (a % n)
    BY Remainder
  <1>2. a % n \in Int
    BY Remainder
  <1> DEFINE x == (a % n) + b
             y == a + b
             i == 0 - j
  <1>3. i \in Int /\ n * i = 0 - n * j /\ n * j \in Int
    OBVIOUS
  <1>4. x \in Int /\ y \in Int /\ x = y - n * j
    BY <1>1, <1>2, <1>3
  <1> HIDE DEF x, y, i
  <1>5. x = y + n * i
    BY <1>3, <1>4
  <1>6. x % n = y % n
    BY <1>3, <1>4, <1>5, RemainderSame
  <1> QED
    BY <1>6 DEF x, y

LEMMA RemainderSmall ==
    ASSUME NEW n \in Nat \ {0}, NEW d \in Int, -n <= d, d < n
    PROVE  d % n = IF d >= 0 THEN d ELSE d + n
  <1>1. CASE d >= 0
    BY <1>1, RemainderIs
  <1>2. CASE d < 0
    <2>1. d = n * (-1) + (d + n) /\ d + n \in 0 .. n - 1
      BY <1>2
    <2> QED
      BY <1>2, <2>1, RemainderIs
  <1> QED
    BY <1>1, <1>2
-----------------------------------------------------------------------------
(* A scaled position keeps its order and its ends.                         *)
LEMMA ScaledIs ==
    ASSUME NEW n \in Nat \ {0}, NEW outN \in Nat, NEW p \in 0..n
    PROVE  /\ Scaled(p, n, outN) \in 0..outN
           /\ p = 0 => Scaled(p, n, outN) = 0
           /\ p = n => Scaled(p, n, outN) = outN
           /\ \A q \in p..n : Scaled(p, n, outN) <= Scaled(q, n, outN)
  <1> DEFINE half == n \div 2
  <1>1. half \in Nat /\ half < n
    OBVIOUS
  <1> HIDE DEF half
  <1>2. ASSUME NEW q \in p..n PROVE Scaled(p, n, outN) <= Scaled(q, n, outN)
    <2>1. p * outN <= q * outN /\ p * outN \in Int /\ q * outN \in Int
      BY ProductOrder
    <2>2. p * outN + half <= q * outN + half
      BY <1>1, <2>1
    <2>3. (p * outN + half) \div n <= (q * outN + half) \div n
      BY <1>1, <2>1, <2>2, QuotientOrder
    <2> QED
      BY <2>3 DEF Scaled, half
  <1>3. Scaled(0, n, outN) = 0
    <2>1. half \div n = 0
      BY <1>1, QuotientIs
    <2> QED
      BY <1>1, <2>1 DEF Scaled, half
  <1>4. Scaled(n, n, outN) = outN
    <2>1. (n * outN + half) \div n = outN
      BY <1>1, QuotientIs
    <2> QED
      BY <2>1 DEF Scaled, half
  <1>5. 0 <= Scaled(p, n, outN)
    <2>1. 0 <= p * outN
      BY ProductOrder
    <2>2. 0 \div n <= (p * outN + half) \div n
      BY <1>1, <2>1, QuotientOrder
    <2>3. 0 \div n = 0
      BY QuotientIs
    <2> QED
      BY <2>2, <2>3 DEF Scaled, half
  <1>6. Scaled(p, n, outN) \in Int
    BY <1>1, Quotient DEF Scaled, half
  <1>7. Scaled(p, n, outN) <= Scaled(n, n, outN)
    BY <1>2
  <1> QED
    BY <1>2, <1>3, <1>4, <1>5, <1>6, <1>7

(* Both conversions of widths keep order.                                  *)
LEMMA ConversionsKeepOrder ==
    ASSUME NEW v \in Nat, NEW w \in Nat, v <= w
    PROVE  /\ Normalize(v) \in Int /\ Normalize(v) <= Normalize(w)
           /\ Denormalize(v) \in Int /\ Denormalize(v) <= Denormalize(w)
  <1>1. WireMax \in Nat \ {0} /\ NormMax \in Nat \ {0}
    BY StageAssumption
  <1>2. v * NormMax <= w * NormMax /\ v * WireMax <= w * WireMax
    BY <1>1, ProductOrder
  <1>3. Normalize(v) \in Int /\ Normalize(v) <= Normalize(w)
    BY <1>1, <1>2, Quotient, QuotientOrder DEF Normalize
  <1> DEFINE half == NormMax \div 2
  <1>4. half \in Nat
    BY <1>1
  <1> HIDE DEF half
  <1>5. v * WireMax + half <= w * WireMax + half
    BY <1>1, <1>2, <1>4
  <1>6. /\ (v * WireMax + half) \div NormMax \in Int
        /\ (v * WireMax + half) \div NormMax <= (w * WireMax + half) \div NormMax
    BY <1>1, <1>2, <1>4, <1>5, Quotient, QuotientOrder
  <1> QED
    BY <1>3, <1>6 DEF Denormalize, half

(* A map of 16-bit values keeps order, range and ends.                     *)
LEMMA MapValueKeepsOrder ==
    ASSUME NEW map \in ValueMaps, NEW v \in Int
    PROVE  LET low == Least(map.inMin, map.inMax)
               high == Most(map.inMin, map.inMax) IN
           /\ MapValue(map, v) \in Least(map.outMin, map.outMax)
                                      .. Most(map.outMin, map.outMax)
           /\ low # high /\ v <= low => MapValue(map, v) = map.outMin
           /\ low # high /\ v >= high => MapValue(map, v) = map.outMax
           /\ \A w \in Int : v <= w =>
                  IF map.outMin <= map.outMax THEN MapValue(map, v) <= MapValue(map, w)
                                              ELSE MapValue(map, v) >= MapValue(map, w)
  <1> DEFINE low == Least(map.inMin, map.inMax)
             high == Most(map.inMin, map.inMax)
             at(u) == Clamped(u, low, high) - low
  <1>1. /\ map.inMin \in Nat /\ map.inMax \in Nat
        /\ map.outMin \in Nat /\ map.outMax \in Nat
    BY StageAssumption DEF ValueMaps
  <1>2. low \in Nat /\ high \in Nat /\ low <= high /\ (low = high <=> map.inMin = map.inMax)
    BY <1>1 DEF Least, Most
  <1>3. CASE map.inMin = map.inMax
    BY <1>1, <1>2, <1>3 DEF MapValue, Least, Most
  <1>4. CASE map.inMin # map.inMax
    <2>1. high - low \in Nat \ {0}
      BY <1>2, <1>4
    <2>2. \A u \in Int : /\ at(u) \in 0 .. high - low
                         /\ u <= low => at(u) = 0
                         /\ u >= high => at(u) = high - low
      BY <1>2, <2>1 DEF Clamped, Least, Most
    <2>3. \A w \in Int : v <= w => at(v) <= at(w)
      BY <1>2 DEF Clamped, Least, Most
    <2> DEFINE share(u, n) == Scaled(at(u), high - low, n)
    <2>4. \A u \in Int : MapValue(map, u) =
             IF map.outMax >= map.outMin
             THEN map.outMin + share(u, map.outMax - map.outMin)
             ELSE map.outMin - share(u, map.outMin - map.outMax)
      BY <1>4, Zenon DEF MapValue
    <2> HIDE DEF at, low, high
    <2>5. ASSUME NEW n \in Nat
          PROVE  /\ share(v, n) \in 0..n
                 /\ v <= low => share(v, n) = 0
                 /\ v >= high => share(v, n) = n
                 /\ \A w \in Int : v <= w => share(v, n) <= share(w, n) /\ share(w, n) \in 0..n
      <3>1. /\ at(v) \in 0 .. high - low
            /\ v <= low => at(v) = 0
            /\ v >= high => at(v) = high - low
        BY <2>2
      <3>2. /\ share(v, n) \in 0..n
            /\ v <= low => share(v, n) = 0
            /\ v >= high => share(v, n) = n
        BY <2>1, <3>1, ScaledIs
      <3>3. ASSUME NEW w \in Int, v <= w
            PROVE  share(v, n) <= share(w, n) /\ share(w, n) \in 0..n
        <4>1. at(w) \in 0 .. high - low /\ at(v) <= at(w)
          BY <2>2, <2>3, <3>3
        <4>2. at(w) \in at(v) .. high - low
          BY <3>1, <4>1
        <4> QED
          BY <2>1, <3>1, <4>1, <4>2, ScaledIs
      <3> QED
        BY <3>2, <3>3
    <2> HIDE DEF share
    <2>6. CASE map.outMin <= map.outMax
      <3>1. map.outMax - map.outMin \in Nat
        BY <1>1, <2>6
      <3> QED
        BY <1>1, <2>4, <2>5, <2>6, <3>1 DEF Least, Most, low, high
    <2>7. CASE map.outMin > map.outMax
      <3>1. map.outMin - map.outMax \in Nat
        BY <1>1, <2>7
      <3> QED
        BY <1>1, <2>4, <2>5, <2>7, <3>1 DEF Least, Most, low, high
    <2> QED
      BY <1>1, <2>6, <2>7
  <1> QED
    BY <1>3, <1>4

(* ValueMap::apply7() on the 7 bits of the wire keeps order, range and     *)
(* ends for every map, whichever way round its ranges are, whatever the    *)
(* two widths.                                                             *)
LEMMA MapIsInOrder == ASSUME NEW map \in ValueMaps PROVE MapKeepsOrder(map)
  <1>1. WireMax \in Nat \ {0}
    BY StageAssumption
  <1> DEFINE at(v) == MapValue(map, Normalize(v))
  <1>2. /\ map.enabled /\ map.inMin \in Nat /\ map.inMax \in Nat
        /\ map.outMin \in Nat /\ map.outMax \in Nat
    <2>1. map.enabled = TRUE
      BY Zenon DEF ValueMaps
    <2>2. /\ map.inMin \in 0..NormMax /\ map.inMax \in 0..NormMax
          /\ map.outMin \in 0..NormMax /\ map.outMax \in 0..NormMax
      BY DEF ValueMaps
    <2> QED
      BY <2>1, <2>2, StageAssumption
  <1>3. ASSUME NEW v \in 0..WireMax
        PROVE  /\ at(v) \in Nat /\ Apply7(map, v) = Denormalize(at(v))
               /\ Normalize(v) \in Int
    <2>1. Normalize(v) \in Int
      BY <1>1, ConversionsKeepOrder
    <2>2. at(v) \in Least(map.outMin, map.outMax) .. Most(map.outMin, map.outMax)
      BY <2>1, MapValueKeepsOrder
    <2> QED
      BY <1>2, <2>1, <2>2 DEF Least, Most, Apply7
  <1> DEFINE low == Least(map.outMin, map.outMax)
             high == Most(map.outMin, map.outMax)
  <1>4. low \in Nat /\ high \in Nat
    BY <1>2 DEF Least, Most
  <1>5. ASSUME NEW v \in 0..WireMax
        PROVE  Apply7(map, v) \in Denormalize(low) .. Denormalize(high)
    <2>1. low <= at(v) /\ at(v) <= high
      BY <1>3, <1>4, MapValueKeepsOrder
    <2> HIDE DEF low, high, at
    <2>2. /\ Denormalize(low) <= Denormalize(at(v)) /\ Denormalize(low) \in Int
          /\ Denormalize(at(v)) <= Denormalize(high) /\ Denormalize(at(v)) \in Int
          /\ Denormalize(high) \in Int
      BY <1>1, <1>3, <1>4, <2>1, ConversionsKeepOrder
    <2> QED
      BY <1>3, <2>2
  <1>6. ASSUME NEW v \in 0..WireMax, v < WireMax
        PROVE  IF map.outMin <= map.outMax THEN Apply7(map, v) <= Apply7(map, v + 1)
                                           ELSE Apply7(map, v) >= Apply7(map, v + 1)
    <2>1. v + 1 \in 0..WireMax
      BY <1>1, <1>6
    <2>2. Normalize(v) <= Normalize(v + 1) /\ Normalize(v + 1) \in Int
      BY <1>1, <1>3, <2>1, ConversionsKeepOrder
    <2>3. IF map.outMin <= map.outMax THEN at(v) <= at(v + 1) ELSE at(v) >= at(v + 1)
      BY <1>3, <2>2, MapValueKeepsOrder
    <2> HIDE DEF at
    <2> QED
      BY <1>1, <1>3, <2>1, <2>3, ConversionsKeepOrder
  <1>7. ASSUME NEW v \in 0..WireMax, Least(map.inMin, map.inMax) # Most(map.inMin, map.inMax)
        PROVE  /\ Normalize(v) <= Least(map.inMin, map.inMax) =>
                      Apply7(map, v) = Denormalize(map.outMin)
               /\ Normalize(v) >= Most(map.inMin, map.inMax) =>
                      Apply7(map, v) = Denormalize(map.outMax)
    BY <1>3, <1>7, MapValueKeepsOrder
  <1> QED
    BY <1>2, <1>5, <1>6, <1>7 DEF MapKeepsOrder

(* The ends of the 16 bits are those of the wire.                          *)
LEMMA EndsOfWidths == Denormalize(0) = 0 /\ Denormalize(NormMax) = WireMax
  <1> DEFINE half == NormMax \div 2
  <1>1. WireMax \in Nat /\ NormMax \in Nat \ {0} /\ half \in Nat /\ half < NormMax
    BY StageAssumption
  <1> HIDE DEF half
  <1>2. half \div NormMax = 0
    BY <1>1, QuotientIs
  <1>3. (NormMax * WireMax + half) \div NormMax = WireMax
    <2>1. NormMax * WireMax \in Int
      BY <1>1
    <2> QED
      BY <1>1, <2>1, QuotientIs
  <1> QED
    BY <1>1, <1>2, <1>3 DEF Denormalize, half

(* A map of the wire's values yields values of the wire.                   *)
LEMMA Apply7Type ==
    ASSUME NEW map, map.enabled \in BOOLEAN, map.enabled => map \in ValueMaps,
           NEW v \in 0..WireMax
    PROVE  Apply7(map, v) \in 0..WireMax
  <1>1. CASE ~map.enabled
    BY <1>1 DEF Apply7
  <1>2. CASE map.enabled
    <2> DEFINE at == MapValue(map, Normalize(v))
    <2>1. WireMax \in Nat /\ NormMax \in Nat
      BY StageAssumption
    <2>2. Normalize(v) \in Int
      BY <2>1, ConversionsKeepOrder
    <2>3. /\ map.outMin \in 0..NormMax /\ map.outMax \in 0..NormMax
      BY <1>2 DEF ValueMaps
    <2>4. at \in 0..NormMax
      <3>1. at \in Least(map.outMin, map.outMax) .. Most(map.outMin, map.outMax)
        BY <1>2, <2>2, MapValueKeepsOrder
      <3> QED
        BY <2>1, <2>3, <3>1 DEF Least, Most
    <2> HIDE DEF at
    <2>5. /\ Denormalize(0) <= Denormalize(at) /\ Denormalize(at) <= Denormalize(NormMax)
          /\ Denormalize(at) \in Int
      BY <2>1, <2>4, ConversionsKeepOrder
    <2> QED
      BY <1>2, <2>1, <2>5, EndsOfWidths DEF Apply7, at
  <1> QED
    BY <1>1, <1>2

(* Widened to 16 bits and narrowed again a value is itself.                *)
LEMMA ThereAndBack == ASSUME NEW v \in 0..WireMax PROVE Denormalize(Normalize(v)) = v
  <1> DEFINE half == NormMax \div 2
             n == Normalize(v)
  <1>1. /\ WireMax \in Nat \ {0} /\ NormMax \in Nat \ {0} /\ v \in Nat
        /\ half \in Nat /\ WireMax <= half /\ half < NormMax
    BY StageAssumption
  <1>2. n \in Int /\ WireMax * n <= v * NormMax /\ v * NormMax < WireMax * n + WireMax
    <2>1. v * NormMax \in Int
      BY <1>1
    <2> QED
      BY <1>1, <2>1, Quotient DEF Normalize
  <1> HIDE DEF half, n
  <1> DEFINE x == n * WireMax + half
  <1>3. x \in Int /\ NormMax * v <= x /\ x < NormMax * v + NormMax
    <2>1. n * WireMax = WireMax * n /\ NormMax * v = v * NormMax
          /\ n * WireMax \in Int /\ v * NormMax \in Int
      BY <1>1, <1>2
    <2> QED
      BY <1>1, <1>2, <2>1
  <1> HIDE DEF x
  <1>4. x \div NormMax = v
    BY <1>1, <1>3, QuotientIs
  <1> QED
    BY <1>4 DEF Denormalize, x, half, n

(* The widest map changes nothing.                                         *)
LEMMA WidestMapIsIdle ==
    ASSUME NEW v \in 0..WireMax
    PROVE  Apply7(Range7(0, WireMax, 0, WireMax), v) = v
  <1> DEFINE map == Range7(0, WireMax, 0, WireMax)
             n == Normalize(v)
             half == NormMax \div 2
  <1>1. WireMax \in Nat \ {0} /\ NormMax \in Nat \ {0} /\ half \in Nat /\ half < NormMax
    BY StageAssumption
  <1>2. Normalize(0) = 0 /\ Normalize(WireMax) = NormMax
    <2>1. (0 * NormMax) \div WireMax = 0
      BY <1>1, QuotientIs
    <2>2. (WireMax * NormMax) \div WireMax = NormMax
      <3>1. WireMax * NormMax \in Int
        BY <1>1
      <3> QED
        BY <1>1, <3>1, QuotientIs
    <2> QED
      BY <2>1, <2>2 DEF Normalize
  <1>3. n \in 0..NormMax
    <2>1. Normalize(0) <= n /\ n <= Normalize(WireMax) /\ n \in Int
      BY <1>1, ConversionsKeepOrder
    <2> QED
      BY <1>2, <2>1
  <1>4. /\ map.enabled /\ map.inMin = 0 /\ map.inMax = NormMax
        /\ map.outMin = 0 /\ map.outMax = NormMax
    BY <1>2 DEF Range7
  <1> HIDE DEF map, n
  <1>5. Scaled(n, NormMax, NormMax) = n
    <2> HIDE DEF half
    <2>1. n * NormMax = NormMax * n /\ n * NormMax \in Int
      BY <1>1, <1>3
    <2>2. (n * NormMax + half) \div NormMax = n
      BY <1>1, <1>3, <2>1, QuotientIs
    <2> QED
      BY <2>2 DEF Scaled, half
  <1>6. MapValue(map, n) = n
    <2>1. /\ Least(0, NormMax) = 0 /\ Most(0, NormMax) = NormMax
          /\ Clamped(n, 0, NormMax) - 0 = n /\ NormMax - 0 = NormMax
      BY <1>1, <1>3 DEF Least, Most, Clamped
    <2>2. MapValue(map, n) = 0 + Scaled(n, NormMax, NormMax)
      BY <1>1, <1>4, <2>1 DEF MapValue
    <2> QED
      BY <1>3, <1>5, <2>2
  <1>7. Apply7(map, v) = Denormalize(MapValue(map, n))
    BY <1>4 DEF Apply7, n
  <1> QED
    BY <1>6, <1>7, ThereAndBack DEF map, n
-----------------------------------------------------------------------------
(* The keys whose messages the stage lets through.                         *)
Through(key) ==
    /\ "noteOn" \in stage.filter.kinds /\ "noteOff" \in stage.filter.kinds
    /\ key[1] \in stage.filter.channels /\ key[2] \in stage.filter.notes
    /\ NoteAfter(stage.transform, key[2]) \in 0..WireMax

SoundsOfHeld ==
    \A s \in sounding : \E key \in held : Through(key) /\ s = Image(key)

LitByHeld ==
    level # 0 => \E key \in held : /\ Through(key)
                                   /\ Image(key)[1] \in stage.led.channels
                                   /\ Image(key)[2] \in stage.led.notes

StageInv ==
    "noteOff" \in stage.filter.kinds =>
        SoundsOfHeld /\ (stage.led.kinds = Notes => LitByHeld)
-----------------------------------------------------------------------------
(* What comes out of the stage is of the kind it went in with, but for a   *)
(* note on whose velocity is mapped to none; a release stays a release.    *)
LEMMA PassedIs ==
    ASSUME NEW m \in StageMessages, NEW x \in Passed(stage, m)
    PROVE  /\ Passed(stage, m) = {x} /\ Accepts(stage.filter, m)
           /\ x.status = m.status
           /\ Kind(m) \in Notes => /\ <<x.channel, x.data1>> = Image(<<m.channel, m.data1>>)
                                  /\ NoteAfter(stage.transform, m.data1) \in 0..WireMax
           /\ Kind(m) = "noteOff" => Kind(x) = "noteOff"
           /\ Kind(m) = "noteOn" => Kind(x) \in Notes
           /\ Kind(m) \notin Notes => Kind(x) = Kind(m)
  <1>1. Passed(stage, m) = {x} /\ x = Transformed(stage.transform, m)
        /\ Accepts(stage.filter, m) /\ Representable(stage.transform, m)
    BY DEF Passed
  <1>2. CASE m.status = "system"
    BY <1>1, <1>2 DEF Transformed, Kind, NoteOffIfSilent, Notes
  <1>3. CASE m.status # "system"
    <2>1. x = [m EXCEPT !.channel = ChannelAfter(stage.transform, m.channel),
                        !.data1 = Data1After(stage.transform, m),
                        !.data2 = Data2After(stage.transform, m)]
      BY <1>1, <1>3, Zenon DEF Transformed
    <2>2. /\ x.status = m.status
          /\ x.channel = ChannelAfter(stage.transform, m.channel)
          /\ x.data1 = Data1After(stage.transform, m)
          /\ x.data2 = Data2After(stage.transform, m)
      BY <2>1 DEF StageMessages
    <2>3. ASSUME Kind(m) \in Notes
          PROVE  /\ x.data1 = NoteAfter(stage.transform, m.data1)
                 /\ m.data2 = 0 => x.data2 = 0
                 /\ NoteAfter(stage.transform, m.data1) \in 0..WireMax
      BY <1>1, <2>2, <2>3 DEF Data1After, Data2After, VelocityAfter, Notes, Representable
    <2>4. Kind(m) \in Notes => <<x.channel, x.data1>> = Image(<<m.channel, m.data1>>)
      BY <2>2, <2>3 DEF Image
    <2>5. Kind(m) = "noteOff" => Kind(x) = "noteOff"
      BY <2>2, <2>3 DEF Kind, NoteOffIfSilent, Notes
    <2>6. /\ Kind(m) = "noteOn" => Kind(x) \in Notes
          /\ Kind(m) \notin Notes => Kind(x) = Kind(m)
      BY <2>2 DEF Kind, NoteOffIfSilent, Notes
    <2> QED
      BY <1>1, <2>2, <2>3, <2>4, <2>5, <2>6
  <1> QED
    BY <1>2, <1>3

(* A key that is let through is heard to be released, too.                 *)
LEMMA ThroughPasses ==
    ASSUME NEW m \in StageMessages, Kind(m) \in Notes, Through(<<m.channel, m.data1>>)
    PROVE  Passed(stage, m) # {}
  <1>1. m.status \in Notes
    BY DEF Kind, NoteOffIfSilent, Notes
  <1>2. Accepts(stage.filter, m)
    BY <1>1 DEF Accepts, Through, Notes
  <1> QED
    BY <1>2 DEF Passed, Representable, Through

LEMMA InvPlay == ASSUME NEW m \in StageMessages, StageInv, Play(m) PROVE StageInv'
  <1> SUFFICES ASSUME "noteOff" \in stage.filter.kinds
               PROVE  SoundsOfHeld' /\ (stage.led.kinds = Notes => LitByHeld')
    BY DEF StageInv, Play
  <1> DEFINE key == <<m.channel, m.data1>>
  <1>1. /\ stage' = stage /\ held' = KeysAfter(held, m) /\ SoundsOfHeld
        /\ stage.led.kinds = Notes => LitByHeld
    BY DEF StageInv, Play
  <1>2. /\ \A k : Through(k)' <=> Through(k)
        /\ \A k : Image(k)' = Image(k)
    BY <1>1 DEF Through, Image
  <1>3. ASSUME Passed(stage, m) = {}
        PROVE  SoundsOfHeld' /\ (stage.led.kinds = Notes => LitByHeld')
    <2>1. sounding' = sounding /\ level' = level
      BY <1>3 DEF Play
    <2>2. \A k \in held : Through(k) => k \in held'
      BY <1>1, <1>3, ThroughPasses DEF KeysAfter, Notes
    <2> QED
      BY <1>1, <1>2, <2>1, <2>2 DEF SoundsOfHeld, LitByHeld
  <1>4. ASSUME NEW x \in Passed(stage, m)
        PROVE  SoundsOfHeld' /\ (stage.led.kinds = Notes => LitByHeld')
    <2>1. Passed(stage, m) = {x}
      BY PassedIs
    <2>2. /\ sounding' = KeysAfter(sounding, x)
          /\ level' = IF Accepts(stage.led, x) THEN MessageLevel(x) ELSE level
      BY <2>1 DEF Play
    <2>3. CASE Kind(m) = "noteOn"
      <3>1. /\ held' = held \cup {key} /\ <<x.channel, x.data1>> = Image(key)
            /\ Kind(x) \in Notes
        BY <1>1, <2>3, PassedIs DEF KeysAfter, Notes
      <3>2. Through(key)
        BY <2>3, PassedIs DEF Through, Accepts, Kind, NoteOffIfSilent, Notes, ChannelVoice
      <3>3. sounding' \subseteq sounding \cup {Image(key)}
        BY <2>2, <3>1 DEF KeysAfter, Notes
      <3>4. SoundsOfHeld'
        BY <1>1, <1>2, <3>1, <3>2, <3>3 DEF SoundsOfHeld
      <3>5. ASSUME stage.led.kinds = Notes PROVE LitByHeld'
        <4>1. CASE Accepts(stage.led, x)
          <5>1. x.status \in ChannelVoice
            BY <3>1 DEF Kind, NoteOffIfSilent, Notes, ChannelVoice
          <5>2. Image(key)[1] \in stage.led.channels /\ Image(key)[2] \in stage.led.notes
            BY <3>1, <4>1, <5>1 DEF Accepts, Image
          <5> QED
            BY <1>1, <1>2, <3>1, <3>2, <5>2 DEF LitByHeld
        <4>2. CASE ~Accepts(stage.led, x)
          BY <1>1, <1>2, <2>2, <3>1, <3>5, <4>2 DEF LitByHeld
        <4> QED
          BY <4>1, <4>2
      <3> QED
        BY <3>4, <3>5
    <2>4. CASE Kind(m) = "noteOff"
      <3>1. /\ held' = held \ {key} /\ <<x.channel, x.data1>> = Image(key)
            /\ Kind(x) = "noteOff"
        BY <1>1, <2>4, PassedIs DEF KeysAfter, Notes
      <3>2. sounding' = sounding \ {Image(key)}
        BY <2>2, <3>1 DEF KeysAfter, Notes
      <3>3. SoundsOfHeld'
        BY <1>1, <1>2, <3>1, <3>2 DEF SoundsOfHeld
      <3>4. ASSUME stage.led.kinds = Notes PROVE LitByHeld'
        <4>1. CASE Accepts(stage.led, x)
          BY <2>2, <3>1, <4>1 DEF LitByHeld, MessageLevel
        <4>2. CASE ~Accepts(stage.led, x)
          <5>1. ~(Image(key)[1] \in stage.led.channels /\ Image(key)[2] \in stage.led.notes)
            BY <3>1, <3>4, <4>2 DEF Accepts, Image, Notes
          <5> QED
            BY <1>1, <1>2, <2>2, <3>1, <3>4, <4>2, <5>1 DEF LitByHeld
        <4> QED
          BY <4>1, <4>2
      <3> QED
        BY <3>3, <3>4
    <2>5. CASE Kind(m) \notin Notes
      <3>1. Kind(x) \notin Notes
        BY <2>5, PassedIs
      <3>2. UNCHANGED <<held, sounding>>
        BY <1>1, <2>2, <2>5, <3>1 DEF KeysAfter, Notes
      <3>3. stage.led.kinds = Notes => level' = level
        BY <2>2, <3>1 DEF Accepts
      <3> QED
        BY <1>1, <1>2, <3>2, <3>3 DEF SoundsOfHeld, LitByHeld
    <2> QED
      BY <2>3, <2>4, <2>5 DEF Notes
  <1> QED
    BY <1>3, <1>4

(* What comes out of the stage is a message of the wire again.             *)
LEMMA PassedType ==
    ASSUME stage \in Stages, NEW m \in StageMessages, NEW x \in Passed(stage, m)
    PROVE  x \in StageMessages
  <1> DEFINE t == stage.transform
  <1>1. /\ x = Transformed(t, m) /\ Representable(t, m)
        /\ m.status \in ChannelVoice \cup {"system"} /\ m.channel \in 0 .. NumChannels - 1
        /\ m.data1 \in 0..WireMax /\ m.data2 \in 0..WireMax
    BY DEF Passed, StageMessages
  <1>2. IsTransform(t) /\ WireMax \in Nat /\ NumChannels \in Nat \ {0}
    BY StageAssumption
  <1>3. /\ t.channelOffset \in Int /\ t.channel \in -1 .. NumChannels - 1
        /\ t.controller \in -1..WireMax
    BY <1>2 DEF IsTransform
  <1>4. \A v \in 0..WireMax : /\ Apply7(t.velocity, v) \in 0..WireMax
                              /\ Apply7(t.controllerValue, v) \in 0..WireMax
                              /\ Apply7(t.pressure, v) \in 0..WireMax
    <2>1. \A map \in {t.velocity, t.controllerValue, t.pressure} :
              map.enabled \in BOOLEAN /\ (map.enabled => map \in ValueMaps)
      BY <1>2, Zenon DEF IsTransform
    <2> HIDE DEF t
    <2> QED
      BY <2>1, Apply7Type
  <1> HIDE DEF t
  <1>5. CASE m.status = "system"
    BY <1>1, <1>5 DEF Transformed
  <1>6. CASE m.status # "system"
    <2>1. ChannelAfter(t, m.channel) \in 0 .. NumChannels - 1
      BY <1>1, <1>2, <1>3 DEF ChannelAfter
    <2>2. Data1After(t, m) \in 0..WireMax
      <3>1. CASE Kind(m) \in Notes \cup {"polyPressure"}
        BY <1>1, <3>1 DEF Data1After, Representable, Notes
      <3>2. CASE Kind(m) = "controlChange"
        BY <1>1, <1>2, <1>3, <3>2 DEF Data1After, Notes
      <3>3. CASE Kind(m) = "channelPressure"
        BY <1>1, <1>4, <3>3 DEF Data1After, Notes
      <3>4. CASE Kind(m) \notin Notes \cup {"polyPressure", "controlChange", "channelPressure"}
        BY <1>1, <3>4 DEF Data1After
      <3> QED
        BY <3>1, <3>2, <3>3, <3>4
    <2>3. Data2After(t, m) \in 0..WireMax
      <3>1. VelocityAfter(t, m.data2) \in 0..WireMax
        BY <1>1, <1>2, <1>4 DEF VelocityAfter
      <3>2. CASE Kind(m) \in Notes
        BY <3>1, <3>2 DEF Data2After, Notes
      <3>3. CASE Kind(m) \in {"controlChange", "polyPressure"}
        BY <1>1, <1>4, <3>3 DEF Data2After, Notes
      <3>4. CASE Kind(m) \notin Notes \cup {"controlChange", "polyPressure"}
        BY <1>1, <3>4 DEF Data2After
      <3> QED
        BY <3>2, <3>3, <3>4
    <2>4. x = [m EXCEPT !.channel = ChannelAfter(t, m.channel),
                        !.data1 = Data1After(t, m), !.data2 = Data2After(t, m)]
      BY <1>1, <1>6, Zenon DEF Transformed
    <2> QED
      BY <2>1, <2>2, <2>3, <2>4 DEF StageMessages
  <1> QED
    BY <1>5, <1>6

LEMMA StageTypePlay ==
    ASSUME NEW m \in StageMessages, StageTypeOK, Play(m)
    PROVE  StageTypeOK'
  <1>1. ASSUME NEW keys \in SUBSET ((0 .. NumChannels - 1) \X (0..WireMax)),
               NEW x \in StageMessages
        PROVE  KeysAfter(keys, x) \in SUBSET ((0 .. NumChannels - 1) \X (0..WireMax))
    BY DEF KeysAfter, StageMessages
  <1>2. held' \in SUBSET ((0 .. NumChannels - 1) \X (0..WireMax)) /\ stage' \in Stages
    BY <1>1 DEF Play, StageTypeOK
  <1>3. CASE Passed(stage, m) = {} /\ UNCHANGED <<sounding, level>>
    BY <1>2, <1>3 DEF StageTypeOK
  <1>4. ASSUME NEW x \in Passed(stage, m), sounding' = KeysAfter(sounding, x),
               level' = IF Accepts(stage.led, x) THEN MessageLevel(x) ELSE level
        PROVE  StageTypeOK'
    <2>1. x \in StageMessages
      BY PassedType DEF StageTypeOK
    <2>2. MessageLevel(x) \in 0..WireMax
      BY <2>1, StageAssumption DEF MessageLevel, StageMessages
    <2> QED
      BY <1>1, <1>2, <1>4, <2>1, <2>2 DEF StageTypeOK
  <1> QED
    BY <1>3, <1>4 DEF Play

(* A sound that goes on is of a key that is down, and passes; so is a lit  *)
(* LED.                                                                    *)
LEMMA StageEnds == StageSpec => []NothingKeepsSounding
  <1>1. StageInit => StageTypeOK /\ StageInv
    <2> SUFFICES ASSUME StageInit PROVE StageTypeOK /\ StageInv
      OBVIOUS
    <2>1. StageTypeOK
      BY StageAssumption DEF StageInit, StageTypeOK
    <2>2. StageInv
      BY DEF StageInit, StageInv, SoundsOfHeld, LitByHeld
    <2> QED
      BY <2>1, <2>2
  <1>2. StageTypeOK /\ StageInv /\ [StageNext]_stageVars => StageTypeOK' /\ StageInv'
    <2> SUFFICES ASSUME StageTypeOK, StageInv, [StageNext]_stageVars
                 PROVE  StageTypeOK' /\ StageInv'
      OBVIOUS
    <2>1. ASSUME NEW m \in Played, Play(m) PROVE StageTypeOK' /\ StageInv'
      <3>1. m \in StageMessages
        BY StageAssumption
      <3> QED
        BY <2>1, <3>1, StageTypePlay, InvPlay
    <2>2. CASE UNCHANGED stageVars
      BY <2>2 DEF stageVars, StageTypeOK, StageInv, SoundsOfHeld, LitByHeld, Through, Image
    <2> QED
      BY <2>1, <2>2 DEF StageNext
  <1>3. StageTypeOK /\ StageInv => NothingKeepsSounding
    BY DEF StageInv, SoundsOfHeld, LitByHeld, NothingKeepsSounding, NothingSoundsOn
  <1> QED
    BY <1>1, <1>2, <1>3, PTL DEF StageSpec

LEMMA StageKeepsOrder == ASSUME stage \in Stages PROVE MapsKeepOrder
  <1>1. IsTransform(stage.transform)
    BY StageAssumption
  <1>2. ASSUME NEW map, map.enabled => map \in ValueMaps PROVE MapKeepsOrder(map)
    <2>1. CASE map.enabled
      BY <1>2, <2>1, MapIsInOrder
    <2>2. CASE ~map.enabled
      BY <2>2, Zenon DEF MapKeepsOrder
    <2> QED
      BY <2>1, <2>2
  <1>3. /\ MapKeepsOrder(stage.transform.velocity)
        /\ MapKeepsOrder(stage.transform.controllerValue)
    BY <1>1, <1>2, Zenon DEF IsTransform
  <1> QED
    BY <1>3, WidestMapIsIdle, Zenon DEF MapsKeepOrder
-----------------------------------------------------------------------------
(* The wait, as update() measures it at time t.                            *)
Waited(t) == (NowMs(t) - changedMs) % ClockRange

StillWaiting ==
    seen /\ pressed # reading => Waited(time) < DebounceMs /\ time - since <= Waited(time)

SentIsBelieved ==
    /\ sent = on
    /\ ~latch => (sent = pressed \/ sentAt = 0)

ButtonInv == ButtonTypeOK /\ StillWaiting /\ SentIsBelieved /\ (~seen => sentAt = 0)
-----------------------------------------------------------------------------
LEMMA NowType ==
    ASSUME ButtonTypeOK, NEW t \in Nat PROVE NowMs(t) \in 0 .. ClockRange - 1
  <1>1. bootMs + t \in Int
    BY DEF ButtonTypeOK
  <1> QED
    BY ButtonAssumption, <1>1, Remainder DEF NowMs

(* A later update has waited longer by the time between.                   *)
LEMMA WaitGrows ==
    ASSUME ButtonTypeOK, NEW gap \in 1..MaxGap, Waited(time) < DebounceMs
    PROVE  Waited(time + gap) = Waited(time) + gap
  <1> DEFINE a == bootMs + time
             d == NowMs(time) - changedMs
             w == Waited(time)
  <1>1. /\ ClockRange \in Nat \ {0} /\ bootMs \in Nat /\ time \in Nat /\ gap \in Nat
        /\ changedMs \in Int
    BY ButtonAssumption DEF ButtonTypeOK
  <1>2. a \in Int /\ NowMs(time) = a % ClockRange /\ NowMs(time) \in Int
    BY <1>1, Remainder DEF NowMs
  <1>3. NowMs(time + gap) = (a + gap) % ClockRange
    <2>1. bootMs + (time + gap) = a + gap
      BY <1>1
    <2> QED
      BY <2>1 DEF NowMs
  <1> HIDE DEF a
  <1>4. /\ gap \in Int /\ a + gap \in Int /\ (a + gap) % ClockRange \in Int
        /\ changedMs % ClockRange = changedMs
    <2>1. a + gap \in Int
      BY <1>1, <1>2
    <2>2. -ClockRange <= changedMs /\ changedMs < ClockRange /\ changedMs >= 0
      BY <1>1 DEF ButtonTypeOK
    <2>3. changedMs % ClockRange = changedMs
      BY <1>1, <2>2, RemainderSmall
    <2> QED
      BY <1>1, <2>1, <2>3, Remainder
  <1>5. Waited(time + gap) = ((a + gap) - changedMs) % ClockRange
    <2>1. (((a + gap) % ClockRange) - (changedMs % ClockRange)) % ClockRange
             = ((a + gap) - changedMs) % ClockRange
      BY <1>1, <1>4, ClockDifference, Zenon
    <2> QED
      BY <1>3, <1>4, <2>1 DEF Waited
  <1>6. w = (a - changedMs) % ClockRange
    <2>1. ((a % ClockRange) - (changedMs % ClockRange)) % ClockRange
             = (a - changedMs) % ClockRange
      BY <1>1, <1>2, ClockDifference, Zenon
    <2> QED
      BY <1>2, <1>4, <2>1 DEF Waited
  <1> DEFINE b == a - changedMs
  <1>7. b \in Int /\ (a + gap) - changedMs = b + gap
    BY <1>1, <1>2
  <1> HIDE DEF b
  <1>8. ((b % ClockRange) + gap) % ClockRange = (b + gap) % ClockRange
    BY <1>1, <1>4, <1>7, ClockSum, Zenon
  <1>9. w = b % ClockRange /\ w \in Nat
    <2>1. b % ClockRange \in Nat
      BY <1>1, <1>7, Remainder
    <2> QED
      BY <1>6, <2>1 DEF b
  <1>10. Waited(time + gap) = (w + gap) % ClockRange
    BY <1>5, <1>7, <1>8, <1>9
  <1>11. w + gap < ClockRange
    BY ButtonAssumption, <1>1, <1>9
  <1> HIDE DEF w
  <1>12. (w + gap) % ClockRange = w + gap
    <2> DEFINE s == w + gap
    <2>1. s \in Int /\ -ClockRange <= s /\ s < ClockRange /\ s >= 0
      BY <1>1, <1>9, <1>11
    <2> HIDE DEF s
    <2>2. s % ClockRange = s
      BY <1>1, <2>1, RemainderSmall
    <2> QED
      BY <2>2 DEF s
  <1> QED
    BY <1>10, <1>12 DEF w

LEMMA ButtonInvInit == ButtonInit => ButtonInv
  <1> SUFFICES ASSUME ButtonInit PROVE ButtonInv
    OBVIOUS
  <1>1. {latch, seen, pressed, on, reading, sent} \subseteq BOOLEAN
    BY Zenon DEF ButtonInit
  <1>2. bootMs \in 0 .. ClockRange - 1
    BY ButtonAssumption DEF ButtonInit
  <1>3. ButtonTypeOK
    BY ButtonAssumption, <1>1, <1>2 DEF ButtonInit, ButtonTypeOK
  <1> QED
    BY <1>3, Zenon DEF ButtonInit, ButtonInv, StillWaiting, SentIsBelieved

(* The booleans of ButtonTypeOK, after an update.                                *)
LEMMA BooleansStay ==
    ASSUME ButtonTypeOK, NEW r \in BOOLEAN, NEW t \in Nat, UpdateButton(r, t)
    PROVE  {latch, seen, pressed, on, reading, sent}' \subseteq BOOLEAN
  <1>1. {latch, seen, pressed, on, reading, sent} \subseteq BOOLEAN
    BY DEF ButtonTypeOK
  <1>2. latch' \in BOOLEAN /\ reading' \in BOOLEAN
    BY <1>1, Zenon DEF UpdateButton
  <1>3. CASE FirstContact(r, t)
    BY <1>1, <1>2, <1>3, Zenon DEF FirstContact
  <1>4. CASE NoChange(r, t)
    BY <1>1, <1>2, <1>4, Zenon DEF NoChange
  <1>5. CASE Bounce(r, t)
    BY <1>1, <1>2, <1>5, Zenon DEF Bounce, Reject
  <1>6. CASE Believe(r, t)
    <2>1. on' \in BOOLEAN /\ sent' \in BOOLEAN
      BY <1>1, <1>6, Zenon DEF Believe
    <2> QED
      BY <1>1, <1>2, <1>6, <2>1, Zenon DEF Believe
  <1> QED
    BY <1>3, <1>4, <1>5, <1>6, Zenon DEF UpdateButton

LEMMA ButtonTypeStays ==
    ASSUME ButtonTypeOK, NEW r \in BOOLEAN, NEW gap \in 1..MaxGap,
           time + gap <= MaxTime, UpdateButton(r, time + gap)
    PROVE  ButtonTypeOK'
  <1> DEFINE t == time + gap
  <1>1. time \in Nat /\ t \in Nat /\ t \in 0..MaxTime /\ time <= t
    BY ButtonAssumption DEF ButtonTypeOK
  <1> HIDE DEF t
  <1>2. NowMs(t) \in 0 .. ClockRange - 1
    BY <1>1, NowType
  <1>3. UpdateButton(r, t)
    BY DEF t
  <1>4. time' = t /\ bootMs' = bootMs /\ since' \in {since, t}
    BY <1>3, Zenon DEF UpdateButton
  <1>5. changedMs' \in {changedMs, NowMs(t)} /\ sentAt' \in {sentAt, t}
    BY <1>3, Zenon
       DEF UpdateButton, FirstContact, NoChange, Bounce, Reject, Believe
  <1>6. {latch, seen, pressed, on, reading, sent}' \subseteq BOOLEAN
    BY <1>1, <1>3, BooleansStay
  <1>7. /\ changedMs' \in 0 .. ClockRange - 1 /\ bootMs' \in 0 .. ClockRange - 1
        /\ time' \in 0..MaxTime /\ since' \in 0..time' /\ sentAt' \in 0..time'
    BY <1>1, <1>2, <1>4, <1>5 DEF ButtonTypeOK
  <1> QED
    BY <1>6, <1>7 DEF ButtonTypeOK

(* Only a change that is not believed yet leaves the belief and the        *)
(* reading different, and then the wait has grown with the stillness.      *)
LEMMA WaitingStays ==
    ASSUME ButtonTypeOK, StillWaiting, NEW r \in BOOLEAN, NEW gap \in 1..MaxGap,
           UpdateButton(r, time + gap)
    PROVE  StillWaiting'
  <1> DEFINE t == time + gap
  <1>1. /\ time \in Nat /\ t \in Nat /\ t = time + gap /\ gap \in Nat /\ since \in Int
        /\ ClockRange \in Nat \ {0} /\ DebounceMs \in Int
    BY ButtonAssumption DEF ButtonTypeOK
  <1> HIDE DEF t
  <1>2. UpdateButton(r, t)
    BY <1>1
  <1> SUFFICES ASSUME pressed' # reading'
               PROVE  Waited(time)' < DebounceMs /\ (time - since)' <= Waited(time)'
    BY Zenon DEF StillWaiting
  <1>3. Bounce(r, t)
    BY <1>2, Zenon DEF UpdateButton, FirstContact, NoChange, Believe
  <1>4. /\ seen /\ pressed # r /\ ~Settled(t) /\ changedMs' = changedMs
        /\ time' = t /\ bootMs' = bootMs
        /\ since' = IF r = reading THEN since ELSE t
    BY <1>2, <1>3, Zenon DEF Bounce, Reject, UpdateButton
  <1>5. Waited(time)' = Waited(t)
    BY <1>4, Zenon DEF Waited, NowMs
  <1>6. Waited(t) \in Nat /\ Waited(time) \in Nat
    <2>1. NowMs(t) \in 0 .. ClockRange - 1 /\ NowMs(time) \in 0 .. ClockRange - 1
      BY <1>1, NowType, Zenon
    <2>2. NowMs(t) - changedMs \in Int /\ NowMs(time) - changedMs \in Int
      BY <1>1, <2>1 DEF ButtonTypeOK
    <2>3. /\ (NowMs(t) - changedMs) % ClockRange \in 0 .. ClockRange - 1
          /\ (NowMs(time) - changedMs) % ClockRange \in 0 .. ClockRange - 1
      BY <1>1, <2>2, Remainder, Zenon
    <2>4. Waited(t) \in 0 .. ClockRange - 1 /\ Waited(time) \in 0 .. ClockRange - 1
      BY <2>3, Zenon DEF Waited
    <2> QED
      BY <1>1, <2>4
  <1>7. Waited(t) < DebounceMs
    <2>1. ~(Waited(t) >= DebounceMs)
      BY <1>4, Zenon DEF Settled, Waited
    <2> QED
      BY <1>1, <1>6, <2>1
  <1>8. t - since' <= Waited(t)
    <2>1. CASE r = reading
      <3>1. Waited(time) < DebounceMs /\ time - since <= Waited(time)
        BY <1>4, <2>1, Zenon DEF StillWaiting
      <3>2. Waited(t) = Waited(time) + gap
        BY <1>1, <3>1, WaitGrows
      <3> QED
        BY <1>1, <1>4, <1>6, <2>1, <3>1, <3>2
    <2>2. CASE r # reading
      BY <1>1, <1>4, <1>6, <2>2
    <2> QED
      BY <2>1, <2>2
  <1> QED
    BY <1>4, <1>5, <1>7, <1>8

LEMMA SentStays ==
    ASSUME SentIsBelieved, ~seen => sentAt = 0, NEW r \in BOOLEAN, NEW t,
           UpdateButton(r, t)
    PROVE  SentIsBelieved' /\ (~seen => sentAt = 0)'
  <1>1. CASE FirstContact(r, t)
    BY <1>1, Zenon DEF FirstContact, SentIsBelieved, UpdateButton
  <1>2. CASE NoChange(r, t)
    BY <1>2, Zenon DEF NoChange, SentIsBelieved, UpdateButton
  <1>3. CASE Bounce(r, t)
    BY <1>3, Zenon DEF Bounce, Reject, SentIsBelieved, UpdateButton
  <1>4. CASE Believe(r, t)
    <2>1. seen' /\ pressed' = r /\ latch' = latch
      BY <1>4, Zenon DEF Believe, UpdateButton
    <2>2. CASE latch /\ ~r
      BY <1>4, <2>1, <2>2, Zenon DEF Believe, SentIsBelieved
    <2>3. CASE ~(latch /\ ~r)
      <3>1. sent' = on' /\ (~latch => on' = r)
        BY <1>4, <2>3, Zenon DEF Believe
      <3> QED
        BY <2>1, <3>1, Zenon DEF SentIsBelieved
    <2> QED
      BY <2>2, <2>3
  <1> QED
    BY <1>1, <1>2, <1>3, <1>4, Zenon DEF UpdateButton

LEMMA ButtonInvNext == ASSUME ButtonInv, [ButtonNext]_buttonVars PROVE ButtonInv'
  <1>1. CASE ButtonNext
    <2>1. PICK r \in BOOLEAN, gap \in 1..MaxGap :
              time + gap <= MaxTime /\ UpdateButton(r, time + gap)
      BY <1>1, Zenon DEF ButtonNext
    <2>2. ButtonTypeOK'
      BY <2>1, ButtonTypeStays, Zenon DEF ButtonInv
    <2>3. StillWaiting'
      BY <2>1, WaitingStays, Zenon DEF ButtonInv
    <2>4. SentIsBelieved' /\ (~seen => sentAt = 0)'
      BY <2>1, SentStays, Zenon DEF ButtonInv
    <2> QED
      BY <2>2, <2>3, <2>4, Zenon DEF ButtonInv
  <1>2. CASE UNCHANGED buttonVars
    BY <1>2, Zenon
       DEF buttonVars, ButtonInv, ButtonTypeOK, StillWaiting, SentIsBelieved, Waited, NowMs
  <1> QED
    BY <1>1, <1>2
-----------------------------------------------------------------------------
(* A contact that has been found the same for the debounce time is         *)
(* believed and sent as it is (Button::update()).                          *)
LEMMA ButtonIsBelieved == ButtonSpec => []StillIsBelieved
  <1>1. ButtonInit => ButtonInv
    BY ButtonInvInit
  <1>2. ButtonInv /\ [ButtonNext]_buttonVars => ButtonInv'
    BY ButtonInvNext
  <1>3. ButtonInv => StillIsBelieved
    <2> SUFFICES ASSUME ButtonInv, seen, time - since >= DebounceMs
                 PROVE  /\ pressed = reading
                        /\ ~latch => (sent = pressed \/ sentAt = 0)
                        /\ sent = on
      BY Zenon DEF StillIsBelieved, StillBelieved, ButtonInv
    <2>1. Waited(time) \in Nat /\ time - since \in Int /\ DebounceMs \in Int
      <3>1. NowMs(time) - changedMs \in Int /\ time \in Nat /\ since \in Int
        BY ButtonAssumption, NowType DEF ButtonInv, ButtonTypeOK
      <3>2. ClockRange \in Nat \ {0} /\ DebounceMs \in Int
        BY ButtonAssumption
      <3> QED
        BY <3>1, <3>2, Remainder DEF Waited
    <2>2. ~(Waited(time) < DebounceMs /\ time - since <= Waited(time))
      BY <2>1
    <2>3. pressed = reading
      BY <2>2, Zenon DEF ButtonInv, StillWaiting
    <2> QED
      BY <2>3, Zenon DEF ButtonInv, SentIsBelieved
  <1> QED
    BY <1>1, <1>2, <1>3, PTL DEF ButtonSpec
-----------------------------------------------------------------------------
(* Where a reading is in the range of a knob, from its bottom.             *)
LEMMA PositionIs ==
    ASSUME config \in Configs, NEW r \in Int
    PROVE  /\ Low \in Nat /\ High \in Nat /\ Low <= High
           /\ Position(r) \in 0 .. High - Low
           /\ config.rawMax >= config.rawMin =>
                  config.rawMin = Low /\ Position(Low) = 0 /\ Position(High) = High - Low
           /\ config.rawMax < config.rawMin =>
                  config.rawMin = High /\ Position(High) = 0 /\ Position(Low) = High - Low
           /\ {config.rawMin, config.rawMax} = {Low, High}
           /\ \A s \in Int : r <= s =>
                  IF config.rawMax >= config.rawMin THEN Position(r) <= Position(s)
                                                    ELSE Position(s) <= Position(r)
  <1>1. config.rawMin \in Nat /\ config.rawMax \in Nat
    BY AnalogAssumption
  <1>2. Low \in Nat /\ High \in Nat /\ Low <= High
    BY <1>1 DEF Low, High
  <1>3. {config.rawMin, config.rawMax} = {Low, High}
    BY <1>1 DEF Low, High
  <1>4. CASE config.rawMax >= config.rawMin
    <2>1. config.rawMin = Low
      BY <1>4 DEF Low
    <2> QED
      BY <1>1, <1>2, <1>3, <1>4, <2>1 DEF Position
  <1>5. CASE config.rawMax < config.rawMin
    <2>1. config.rawMin = High
      BY <1>1, <1>5 DEF High
    <2> QED
      BY <1>1, <1>2, <1>3, <1>5, <2>1 DEF Position
  <1> QED
    BY <1>1, <1>4, <1>5

LEMMA OutIs == ASSUME config \in Configs PROVE OutLow \in Nat /\ OutHigh \in Nat
  <1>1. config.outLow \in Nat /\ config.outHigh \in Nat
    BY AnalogAssumption
  <1> QED
    BY <1>1 DEF OutLow, OutHigh

LEMMA MappedIs ==
    ASSUME config \in Configs, NEW r \in Int
    PROVE  /\ High = Low => Mapped(r) = OutLow
           /\ High > Low /\ OutHigh >= OutLow =>
                  Mapped(r) = OutLow
                              + Scaled(Position(r), High - Low, OutHigh - OutLow)
           /\ High > Low /\ OutHigh < OutLow =>
                  Mapped(r) = OutLow
                              - Scaled(Position(r), High - Low, OutLow - OutHigh)
  <1>1. OutLow \in Nat /\ OutHigh \in Nat /\ Low \in Nat /\ High \in Nat
    <2>1. OutLow \in Nat /\ OutHigh \in Nat
      BY OutIs
    <2>2. Low \in Nat /\ High \in Nat
      BY PositionIs
    <2> QED
      BY <2>1, <2>2
  <1>2. CASE High = Low
    <2>1. Mapped(r) = OutLow
      BY <1>2, Zenon DEF Mapped
    <2> QED
      BY <1>1, <1>2, <2>1
  <1>3. CASE High # Low /\ OutHigh >= OutLow
    BY <1>1, <1>3 DEF Mapped, Scaled
  <1>4. CASE High # Low /\ ~(OutHigh >= OutLow)
    <2>1. Mapped(r) = OutLow
                      - Scaled(Position(r), High - Low, OutLow - OutHigh)
      BY <1>4, Zenon DEF Mapped, Scaled
    <2> QED
      BY <1>1, <1>4, <2>1
  <1> QED
    BY <1>1, <1>2, <1>3, <1>4

(* Turned further the one way a control never goes the other, for every    *)
(* range of the knob and of the values, either of them the other way round.*)
LEMMA KnobKeepsOrder == ASSUME config \in Configs PROVE MappedKeepsOrder
  <1>1. /\ OutLow \in Nat /\ OutHigh \in Nat
        /\ config.rawMin \in Nat /\ config.rawMax \in Nat
    BY AnalogAssumption, OutIs
  <1>2. Low \in Nat /\ High \in Nat /\ Low <= High
    BY PositionIs
  <1>3. Readings \subseteq Int
    BY AnalogAssumption
  <1> DEFINE width == High - Low
             up == OutHigh - OutLow
             down == OutLow - OutHigh
  <1>4. CASE High = Low
    BY <1>1, <1>2, <1>3, <1>4, MappedIs DEF MappedKeepsOrder
  <1>5. CASE High > Low
    <2>1. width \in Nat \ {0}
      BY <1>2, <1>5
    <2>2. /\ \A r \in Int : Position(r) \in 0..width
          /\ Position(config.rawMin) = 0 /\ Position(config.rawMax) = width
      <3>1. \A r \in Int : Position(r) \in 0..width
        BY PositionIs
      <3>2. CASE config.rawMax >= config.rawMin
        <4>1. config.rawMin = Low /\ Position(Low) = 0 /\ Position(High) = width
          BY <1>2, <3>2, PositionIs
        <4>2. config.rawMax = High
          BY <3>2 DEF High
        <4> QED
          BY <3>1, <4>1, <4>2
      <3>3. CASE config.rawMax < config.rawMin
        <4>1. config.rawMin = High /\ Position(High) = 0 /\ Position(Low) = width
          BY <1>2, <3>3, PositionIs
        <4>2. config.rawMax = Low
          BY <1>1, <3>3 DEF Low
        <4> QED
          BY <3>1, <4>1, <4>2
      <3> QED
        BY <1>1, <3>2, <3>3
    <2>3. \A n \in Nat : \A p \in 0..width :
              /\ Scaled(p, width, n) \in 0..n
              /\ p = 0 => Scaled(p, width, n) = 0
              /\ p = width => Scaled(p, width, n) = n
              /\ \A q \in 0..width : p <= q => Scaled(p, width, n) <= Scaled(q, width, n)
      <3> HIDE DEF width
      <3> SUFFICES ASSUME NEW n \in Nat, NEW p \in 0..width
                   PROVE  /\ Scaled(p, width, n) \in 0..n
                          /\ p = 0 => Scaled(p, width, n) = 0
                          /\ p = width => Scaled(p, width, n) = n
                          /\ \A q \in 0..width :
                                 p <= q => Scaled(p, width, n) <= Scaled(q, width, n)
        OBVIOUS
      <3>1. \A q \in 0..width : p <= q => q \in p..width
        BY <2>1
      <3> QED
        BY <2>1, <3>1, ScaledIs
    <2>4. CASE OutHigh >= OutLow
      <3>1. up \in Nat /\ (OutLow <= OutHigh)
        BY <1>1, <2>4
      <3>2. \A r \in Int : Mapped(r) = OutLow + Scaled(Position(r), width, up)
        BY <1>5, <2>4, MappedIs
      <3> HIDE DEF width, up
      <3>3. /\ Mapped(config.rawMin) = OutLow
            /\ Mapped(config.rawMax) = OutLow + up
        <4>1. 0 \in 0..width /\ width \in 0..width
          BY <2>1
        <4>2. Scaled(0, width, up) = 0 /\ Scaled(width, width, up) = up
          BY <2>3, <3>1, <4>1
        <4> QED
          BY <1>1, <2>2, <3>1, <3>2, <4>2
      <3>4. ASSUME NEW r \in Int, NEW s \in Int, Position(r) <= Position(s)
            PROVE  Mapped(r) <= Mapped(s)
        <4>1. Scaled(Position(r), width, up) <= Scaled(Position(s), width, up)
              /\ Scaled(Position(r), width, up) \in Int /\ Scaled(Position(s), width, up) \in Int
          <5>1. Position(r) \in 0..width /\ Position(s) \in 0..width
            BY <2>2
          <5>2. Scaled(Position(r), width, up) \in 0..up /\ Scaled(Position(s), width, up) \in 0..up
            BY <2>3, <3>1, <5>1
          <5>3. Scaled(Position(r), width, up) <= Scaled(Position(s), width, up)
            BY <2>3, <3>1, <3>4, <5>1
          <5> QED
            BY <5>2, <5>3
        <4> QED
          BY <1>1, <3>2, <4>1
      <3>5. ASSUME NEW r \in Int, NEW s \in Int, r <= s
            PROVE  IF config.rawMin <= config.rawMax THEN Mapped(r) <= Mapped(s)
                                                     ELSE Mapped(r) >= Mapped(s)
        BY <1>1, <3>2, <3>4, <3>5, PositionIs
      <3>6. OutLow + up = OutHigh
        BY <1>1 DEF up
      <3> QED
        BY <1>1, <1>3, <3>1, <3>3, <3>5, <3>6 DEF MappedKeepsOrder
    <2>5. CASE OutHigh < OutLow
      <3>1. down \in Nat /\ ~(OutLow <= OutHigh)
        BY <1>1, <2>5
      <3>2. \A r \in Int : Mapped(r) = OutLow - Scaled(Position(r), width, down)
        BY <1>5, <2>5, MappedIs
      <3> HIDE DEF width, down
      <3>3. /\ Mapped(config.rawMin) = OutLow
            /\ Mapped(config.rawMax) = OutLow - down
        <4>1. 0 \in 0..width /\ width \in 0..width
          BY <2>1
        <4>2. Scaled(0, width, down) = 0 /\ Scaled(width, width, down) = down
          BY <2>3, <3>1, <4>1
        <4> QED
          BY <1>1, <2>2, <3>1, <3>2, <4>2
      <3>4. ASSUME NEW r \in Int, NEW s \in Int, Position(r) <= Position(s)
            PROVE  Mapped(r) >= Mapped(s)
        <4>1. Scaled(Position(r), width, down) <= Scaled(Position(s), width, down)
              /\ Scaled(Position(r), width, down) \in Int /\ Scaled(Position(s), width, down) \in Int
          <5>1. Position(r) \in 0..width /\ Position(s) \in 0..width
            BY <2>2
          <5>2. Scaled(Position(r), width, down) \in 0..down /\ Scaled(Position(s), width, down) \in 0..down
            BY <2>3, <3>1, <5>1
          <5>3. Scaled(Position(r), width, down) <= Scaled(Position(s), width, down)
            BY <2>3, <3>1, <3>4, <5>1
          <5> QED
            BY <5>2, <5>3
        <4> QED
          BY <1>1, <3>2, <4>1
      <3>5. ASSUME NEW r \in Int, NEW s \in Int, r <= s
            PROVE  IF config.rawMin <= config.rawMax THEN Mapped(r) >= Mapped(s)
                                                     ELSE Mapped(r) <= Mapped(s)
        BY <1>1, <3>2, <3>4, <3>5, PositionIs
      <3>6. OutLow - down = OutHigh
        BY <1>1 DEF down
      <3> QED
        BY <1>1, <1>3, <3>1, <3>3, <3>5, <3>6 DEF MappedKeepsOrder
    <2> QED
      BY <1>1, <2>4, <2>5
  <1> QED
    BY <1>2, <1>4, <1>5

LEMMA MappedType == ASSUME config \in Configs, NEW r \in Int PROVE Mapped(r) \in Nat
  <1> DEFINE width == High - Low
             up == OutHigh - OutLow
             down == OutLow - OutHigh
  <1>1. OutLow \in Nat /\ OutHigh \in Nat /\ Low \in Nat /\ High \in Nat
        /\ Low <= High /\ Position(r) \in 0..width
    BY OutIs, PositionIs
  <1>2. CASE High = Low
    BY <1>1, <1>2, MappedIs
  <1>3. CASE High > Low /\ OutHigh >= OutLow
    <2>1. width \in Nat \ {0} /\ up \in Nat
      BY <1>1, <1>3
    <2>2. Mapped(r) = OutLow + Scaled(Position(r), width, up)
      BY <1>3, MappedIs
    <2> HIDE DEF width, up
    <2>3. Scaled(Position(r), width, up) \in 0..up
      BY <1>1, <2>1, ScaledIs
    <2> QED
      BY <1>1, <2>1, <2>2, <2>3
  <1>4. CASE High > Low /\ OutHigh < OutLow
    <2>1. width \in Nat \ {0} /\ down \in Nat /\ down <= OutLow
      BY <1>1, <1>4
    <2>2. Mapped(r) = OutLow - Scaled(Position(r), width, down)
      BY <1>4, MappedIs
    <2> HIDE DEF width, down
    <2>3. Scaled(Position(r), width, down) \in 0..down
      BY <1>1, <2>1, ScaledIs
    <2> QED
      BY <1>1, <2>1, <2>2, <2>3
  <1> QED
    BY <1>1, <1>2, <1>3, <1>4

(* Smoothed readings keep to 16 bits, the wrap of the step over included.  *)
LEMMA SmoothedType == ASSUME AnalogTypeOK PROVE Smoothed \in 0 .. RawRange - 1
  <1> DEFINE n == 2 ^ config.smoothing
             d == (raw - filtered) \div n
  <1>1. /\ RawRange \in Nat \ {0} /\ raw \in 0 .. RawRange - 1
        /\ filtered \in 0 .. RawRange - 1 /\ accepted \in 0 .. RawRange - 1
    BY AnalogAssumption DEF AnalogTypeOK
  <1>2. n \in Nat \ {0}
    BY AnalogAssumption DEF AnalogTypeOK
  <1> HIDE DEF n
  <1>3. raw <= filtered => d \in raw - filtered .. 0
    <2>1. ASSUME raw <= filtered PROVE raw - filtered <= d /\ d <= 0 /\ d \in Int
      <3>1. d \in Int /\ n * d <= raw - filtered /\ raw - filtered < n * d + n
        BY <1>1, <1>2, Quotient
      <3> HIDE DEF d
      <3>2. d <= 0
        <4> SUFFICES ASSUME 1 <= d PROVE FALSE
          BY <3>1
        <4>1. n * 1 <= n * d
          BY <1>2, <3>1, ProductOrder
        <4> QED
          BY <1>1, <1>2, <2>1, <3>1, <4>1
      <3>3. raw - filtered <= d
        <4> SUFFICES ASSUME d + 1 <= raw - filtered PROVE FALSE
          BY <1>1, <3>1
        <4>1. n * (d + 1) <= n * (raw - filtered) /\ n * (d + 1) = n * d + n
          BY <1>1, <1>2, <3>1, ProductOrder
        <4>2. n * (raw - filtered) <= raw - filtered
          <5>1. (filtered - raw) * 1 <= (filtered - raw) * n
            BY <1>1, <1>2, <2>1, ProductOrder
          <5>2. n * (raw - filtered) = -((filtered - raw) * n) /\ (filtered - raw) * n \in Int
            BY <1>1, <1>2
          <5> QED
            BY <1>1, <5>1, <5>2
        <4>3. n * d \in Int /\ n * (raw - filtered) \in Int /\ n * (d + 1) \in Int
          BY <1>1, <1>2, <3>1
        <4> QED
          BY <1>1, <1>2, <3>1, <4>1, <4>2, <4>3
      <3> QED
        BY <3>1, <3>2, <3>3
    <2> QED
      BY <1>1, <2>1
  <1>4. raw > filtered => d \in 0 .. raw - filtered
    <2>1. ASSUME raw > filtered PROVE 0 <= d /\ d <= raw - filtered /\ d \in Int
      <3>1. d \in Int /\ n * d <= raw - filtered /\ raw - filtered < n * d + n
        BY <1>1, <1>2, Quotient
      <3> HIDE DEF d
      <3>2. 0 <= d
        <4> SUFFICES ASSUME d + 1 <= 0 PROVE FALSE
          BY <3>1
        <4>1. n * (d + 1) <= n * 0 /\ n * (d + 1) = n * d + n
          BY <1>2, <3>1, ProductOrder
        <4> QED
          BY <1>1, <1>2, <2>1, <3>1, <4>1
      <3>3. d <= raw - filtered
        <4>1. d * 1 <= d * n /\ d * n = n * d
          BY <1>2, <3>1, <3>2, ProductOrder
        <4> QED
          BY <1>1, <1>2, <3>1, <4>1
      <3> QED
        BY <3>1, <3>2, <3>3
    <2> QED
      BY <1>1, <2>1
  <1> HIDE DEF d
  <1>5. filtered + d \in 0 .. RawRange - 1
    BY <1>1, <1>3, <1>4
  <1>6. SteppedOver(filtered + d) \in 0 .. RawRange - 1
    BY <1>1, <1>5 DEF SteppedOver
  <1> QED
    BY <1>1, <1>6 DEF Smoothed, d, n

LEMMA KnobIsInOrder == AnalogSpec => [](AnalogTypeOK /\ MappedKeepsOrder)
  <1>1. AnalogInit => AnalogTypeOK
    <2> SUFFICES ASSUME AnalogInit PROVE AnalogTypeOK
      OBVIOUS
    <2>1. 0 \in 0 .. RawRange - 1 /\ 0 \in 0..MaxMoves
      BY AnalogAssumption
    <2> QED
      BY <2>1 DEF AnalogInit, AnalogTypeOK
  <1>2. AnalogTypeOK /\ [AnalogNext]_analogVars => AnalogTypeOK'
    <2> SUFFICES ASSUME AnalogTypeOK, [AnalogNext]_analogVars PROVE AnalogTypeOK'
      OBVIOUS
    <2>1. config \in Configs /\ raw \in 0 .. RawRange - 1 /\ Smoothed \in 0 .. RawRange - 1
      BY SmoothedType, AnalogAssumption DEF AnalogTypeOK
    <2>2. raw \in Int /\ Smoothed \in Int
      BY <2>1, AnalogAssumption
    <2>3. Mapped(raw) \in Nat /\ Mapped(Smoothed) \in Nat
      BY <2>1, <2>2, MappedType
    <2>4. CASE FirstReading
      BY <2>1, <2>3, <2>4 DEF FirstReading, AnalogTypeOK
    <2>5. CASE TooLittle
      BY <2>1, <2>5 DEF TooLittle, AnalogTypeOK
    <2>6. CASE Accept
      BY <2>1, <2>3, <2>6 DEF Accept, AnalogTypeOK
    <2>7. CASE MoveKnob
      BY <2>7, AnalogAssumption DEF MoveKnob, AnalogTypeOK
    <2>8. CASE UNCHANGED analogVars
      BY <2>8 DEF analogVars, AnalogTypeOK
    <2> QED
      BY <2>4, <2>5, <2>6, <2>7, <2>8 DEF AnalogNext, UpdateAnalog
  <1>3. AnalogTypeOK => MappedKeepsOrder
    BY KnobKeepsOrder DEF AnalogTypeOK
  <1> QED
    BY <1>1, <1>2, <1>3, PTL DEF AnalogSpec
-----------------------------------------------------------------------------
(* What is left of a turn is what has not been received.  Before the first *)
(* look the encoder is where it began, and an absolute one leaves nothing. *)
EncoderInv ==
    /\ NoTurnIsLost
    /\ ~looked => position = first /\ left = 0
    /\ mode = "absolute" => left = 0

(* A receiver reads from a message what was put into it.                   *)
LEMMA MeaningIsTaken ==
    ASSUME EncoderTypeOK, mode # "absolute"
    PROVE  /\ Take(left) \in Int
           /\ Meaning(Relative(Take(left))) = Take(left)
  <1>1. mode \in {"twosComplement", "signedBit", "binaryOffset"}
    BY EncoderAssumption DEF EncoderTypeOK
  <1> DEFINE n == Take(left)
  <1>2. n \in -63..63
    BY DEF EncoderTypeOK, Take, MostPerMessage
  <1> SUFFICES Meaning(Relative(n)) = n
    BY <1>2 DEF n
  <1> HIDE DEF n
  <1> DEFINE r == Relative(n)
  <1>3. CASE mode = "twosComplement"
    <2>1. r = IF n >= 0 THEN n ELSE 128 + n
      BY <1>3 DEF Relative
    <2>2. Meaning(r) = IF r < 64 THEN r ELSE r - 128
      BY <1>3 DEF Meaning
    <2> HIDE DEF r
    <2> QED
      BY <1>2, <2>1, <2>2 DEF r
  <1>4. CASE mode = "signedBit"
    <2>1. r = IF n >= 0 THEN 64 + n ELSE -n
      BY <1>4 DEF Relative
    <2>2. Meaning(r) = IF r < 64 THEN -r ELSE r - 64
      BY <1>4 DEF Meaning
    <2> HIDE DEF r
    <2> QED
      BY <1>2, <2>1, <2>2 DEF r
  <1>5. CASE mode = "binaryOffset"
    <2>1. r = IF 64 + n < 0 THEN 0 ELSE IF 64 + n > 127 THEN 127 ELSE 64 + n
      BY <1>5 DEF Relative
    <2>2. Meaning(r) = r - 64
      BY <1>5 DEF Meaning
    <2> HIDE DEF r
    <2> QED
      BY <1>2, <2>1, <2>2 DEF r
  <1> QED
    BY <1>1, <1>3, <1>4, <1>5

(* A way in two stretches.                                                 *)
LEMMA WayInTwo ==
    ASSUME NEW a \in Int, NEW b \in Int, NEW c \in Int, NEW k \in Int
    PROVE  (c - a) * k = (b - a) * k + (c - b) * k /\ (c - b) * k \in Int
  OBVIOUS

LEMMA EncoderInvNext == EncoderInv /\ [EncoderNext]_encoderVars => EncoderInv'
  <1> SUFFICES ASSUME EncoderInv, [EncoderNext]_encoderVars PROVE EncoderInv'
    OBVIOUS
  <1>1. /\ EncoderTypeOK /\ step \in Int /\ Turns \subseteq Int
        /\ {position, left, turned, first, received} \subseteq Int
    BY EncoderAssumption DEF EncoderInv, NoTurnIsLost, EncoderTypeOK
  <1>2. CASE FirstLook
    <2>1. (position' - first') * step = 0 /\ (position - first) * step = 0
      BY <1>1, <1>2 DEF FirstLook, EncoderInv
    <2> QED
      BY <1>1, <1>2, <2>1 DEF FirstLook, EncoderInv, NoTurnIsLost, EncoderTypeOK
  <1>3. CASE SendAbsolute
    <2>1. Change \in Int
      BY <1>1 DEF Change
    <2> HIDE DEF Change
    <2>2. travel' \in 0..127
      BY <1>1, <1>3, <2>1 DEF SendAbsolute, EncoderTypeOK
    <2> QED
      BY <1>1, <1>3, <2>2 DEF SendAbsolute, Moved, EncoderInv, NoTurnIsLost, EncoderTypeOK
  <1>4. CASE BeginTurn
    <2>1. /\ left = 0 /\ position' = turned /\ left' = (turned - position) * step
          /\ mode # "absolute" /\ looked
          /\ UNCHANGED <<mode, step, looked, travel, turned, first, received, turns>>
      BY <1>4 DEF BeginTurn, Moved, Change
    <2>2. /\ (turned - first) * step = (position - first) * step + left'
          /\ left' \in Int /\ (position - first) * step \in Int
      BY <1>1, <2>1, WayInTwo
    <2>3. received' = 64 + (position' - first') * step' - left'
      BY <1>1, <2>1, <2>2 DEF EncoderInv, NoTurnIsLost
    <2> QED
      BY <1>1, <2>1, <2>2, <2>3 DEF EncoderInv, NoTurnIsLost, EncoderTypeOK
  <1>5. CASE SendRelative
    <2>1. mode # "absolute" /\ looked
      BY <1>5 DEF SendRelative, EncoderInv
    <2>2. /\ Take(left) \in Int /\ left' = left - Take(left)
          /\ received' = received + Take(left)
          /\ UNCHANGED <<mode, step, looked, position, travel, turned, first, turns>>
      BY <1>1, <1>5, <2>1, MeaningIsTaken DEF SendRelative
    <2> DEFINE way == (position - first) * step
    <2>3. way \in Int /\ way' = way /\ received = 64 + way - left
      BY <1>1, <2>1, <2>2 DEF EncoderInv, NoTurnIsLost
    <2>4. received' = 64 + way - left' /\ received' \in Int /\ left' \in Int
      BY <1>1, <2>2, <2>3
    <2> QED
      BY <1>1, <2>1, <2>2, <2>4 DEF EncoderInv, NoTurnIsLost, EncoderTypeOK
  <1>6. CASE Turn
    <2>1. PICK n \in Turns : turned' = turned + n
      BY <1>6 DEF Turn
    <2>2. turned \in Int /\ n \in Int
      BY <1>1
    <2>3. turned' \in Int
      BY <2>1, <2>2
    <2> QED
      BY EncoderAssumption, <1>1, <1>6, <2>3
         DEF Turn, EncoderInv, NoTurnIsLost, EncoderTypeOK
  <1>7. CASE UNCHANGED encoderVars
    BY <1>7 DEF encoderVars, EncoderInv, NoTurnIsLost, EncoderTypeOK
  <1> QED
    BY <1>2, <1>3, <1>4, <1>5, <1>6, <1>7 DEF EncoderNext

LEMMA EncoderLosesNothing == EncoderSpec => []NoTurnIsLost
  <1>1. EncoderInit => EncoderInv
    <2> SUFFICES ASSUME EncoderInit PROVE EncoderInv
      OBVIOUS
    <2>1. looked \in BOOLEAN
      BY Zenon DEF EncoderInit
    <2>2. (position - first) * step = 0
      BY EncoderAssumption DEF EncoderInit
    <2> QED
      BY EncoderAssumption, <2>1, <2>2 DEF EncoderInit, EncoderInv, NoTurnIsLost, EncoderTypeOK
  <1>2. EncoderInv => NoTurnIsLost
    BY DEF EncoderInv
  <1> QED
    BY <1>1, <1>2, EncoderInvNext, PTL DEF EncoderSpec
-----------------------------------------------------------------------------
(* The next tick is due where the ticks sent so far put it.                *)
OnSchedule == going => nextTick = (boot + Owed) % MicrosRange

(* Without a tempo nothing is sent, and what is owed stays behind.         *)
MaxBehind == IF 0 \in Periods THEN MaxMicros ELSE MaxLate

(* Between updates the schedule is not behind, in an update it may be by   *)
(* what the update is late; it is at most a period ahead.                  *)
NotFarOff ==
    going => /\ Owed >= 0
             /\ Idle /\ 0 \notin Periods => instant <= Owed
             /\ instant - Owed <= MaxBehind
             /\ \E p \in Periods : Owed - instant <= p

OneByOne == ticked > 1 => Owed - micros <= instant

GeneratorInv ==
    /\ GeneratorTypeOK
    /\ ~Idle => going /\ micros # 0
    /\ OnSchedule /\ NotFarOff /\ OneByOne
-----------------------------------------------------------------------------
LEMMA OwedType == ASSUME GeneratorTypeOK PROVE Owed \in Int
  <1>1. micros \in Int /\ ticked \in Int /\ started \in Int
    BY GeneratorAssumption DEF GeneratorTypeOK
  <1>2. ticked * micros \in Int
    BY <1>1
  <1> QED
    BY <1>1, <1>2 DEF Owed

(* One tick more is owed one period later.                                 *)
LEMMA OneTickMore ==
    ASSUME NEW t \in Nat, NEW p \in Int PROVE (t + 1) * p = t * p + p
  OBVIOUS

(* A tick is due, by the sign of a difference of two readings of a clock   *)
(* that wraps, exactly when it is owed.                                    *)
LEMMA DueIsOwed ==
    ASSUME GeneratorInv, going PROVE Due <=> Owed <= instant
  <1>1. /\ MicrosRange \in Nat \ {0} /\ Owed \in Int /\ boot \in Nat /\ instant \in Nat
        /\ MaxLate \in Nat
    BY GeneratorAssumption, OwedType DEF GeneratorInv, GeneratorTypeOK
  <1> DEFINE half == MicrosRange \div 2
             late == instant - Owed
             a == boot + instant
             b == boot + Owed
  <1>2. half \in Nat /\ half + half <= MicrosRange
    BY <1>1
  <1>3. -half < late /\ late < half /\ late \in Int
    <2>1. PICK p \in Periods : Owed - instant <= p
      BY DEF GeneratorInv, NotFarOff
    <2>2. p \in Nat /\ p + MaxBehind < half /\ instant - Owed <= MaxBehind
          /\ MaxBehind \in Nat
      BY GeneratorAssumption, <2>1 DEF GeneratorInv, NotFarOff, MaxBehind
    <2> QED
      BY <1>1, <1>2, <2>1, <2>2
  <1>4. a \in Int /\ b \in Int /\ a - b = late
    BY <1>1
  <1>5. (Now - nextTick) % MicrosRange = late % MicrosRange
    <2>1. Now = a % MicrosRange /\ nextTick = b % MicrosRange
      BY DEF Now, GeneratorInv, OnSchedule
    <2> HIDE DEF a, b, late
    <2>2. ((a % MicrosRange) - (b % MicrosRange)) % MicrosRange = (a - b) % MicrosRange
      BY <1>1, <1>4, ClockDifference
    <2> QED
      BY <1>4, <2>1, <2>2
  <1> HIDE DEF half, late, a, b
  <1>6. late % MicrosRange = IF late >= 0 THEN late ELSE late + MicrosRange
    <2>1. -MicrosRange <= late /\ late < MicrosRange
      BY <1>1, <1>2, <1>3
    <2> QED
      BY <1>1, <1>3, <2>1, RemainderSmall, Zenon
  <1>7. Due <=> (Now - nextTick) % MicrosRange < half
    BY DEF Due, half
  <1>8. Due <=> late >= 0
    <2> DEFINE r == (Now - nextTick) % MicrosRange
    <2>1. r = IF late >= 0 THEN late ELSE late + MicrosRange
      BY <1>5, <1>6
    <2> HIDE DEF r
    <2>2. r < half <=> late >= 0
      BY <1>1, <1>2, <1>3, <2>1
    <2> QED
      BY <1>7, <2>2 DEF r
  <1> QED
    BY <1>1, <1>8 DEF late
-----------------------------------------------------------------------------
LEMMA GeneratorInvInit == GeneratorInit => GeneratorInv
  <1> SUFFICES ASSUME GeneratorInit PROVE GeneratorInv
    OBVIOUS
  <1>1. GeneratorTypeOK
    <2>1. going \in BOOLEAN
      BY Zenon DEF GeneratorInit
    <2> QED
      BY GeneratorAssumption, <2>1 DEF GeneratorInit, GeneratorTypeOK
  <1> QED
    BY <1>1 DEF GeneratorInit, GeneratorInv, Idle, OnSchedule, NotFarOff, OneByOne

LEMMA InvStartSending == ASSUME GeneratorInv, StartSending PROVE GeneratorInv'
  <1>1. /\ going' = TRUE /\ nextTick' = (boot + instant) % MicrosRange
        /\ started' = instant /\ ticked' = 0 /\ Idle /\ commands' = commands + 1
        /\ commands < MaxCommands /\ UNCHANGED <<micros, catching, boot, instant>>
    BY DEF StartSending, Command, Now
  <1>2. /\ micros \in Periods /\ micros \in Nat /\ instant \in Nat /\ boot \in Nat
        /\ MicrosRange \in Nat \ {0} /\ instant <= MaxMicros
    BY GeneratorAssumption DEF GeneratorInv, GeneratorTypeOK
  <1>3. Owed' = instant
    <2>1. ticked' * micros' = 0
      BY <1>1, <1>2
    <2> QED
      BY <1>1, <1>2, <2>1 DEF Owed
  <1>4. GeneratorTypeOK'
    <2>1. nextTick' \in 0 .. MicrosRange - 1
      BY <1>1, <1>2, Remainder
    <2> QED
      BY GeneratorAssumption, <1>1, <1>2, <2>1 DEF GeneratorInv, GeneratorTypeOK
  <1>5. OnSchedule'
    BY <1>1, <1>3 DEF OnSchedule
  <1>6. NotFarOff'
    BY GeneratorAssumption, <1>1, <1>2, <1>3 DEF NotFarOff, MaxBehind, Idle
  <1>7. OneByOne'
    BY <1>1 DEF OneByOne
  <1> QED
    BY <1>1, <1>4, <1>5, <1>6, <1>7 DEF GeneratorInv, Idle

LEMMA InvStopSending == ASSUME GeneratorInv, StopSending PROVE GeneratorInv'
  <1>1. GeneratorTypeOK'
    <2>1. going' \in BOOLEAN
      BY Zenon DEF StopSending
    <2> QED
      BY GeneratorAssumption, <2>1
         DEF StopSending, Command, GeneratorInv, GeneratorTypeOK
  <1> QED
    BY <1>1 DEF StopSending, Command, GeneratorInv, Idle, OnSchedule, NotFarOff, OneByOne, Owed

(* Setting the tempo leaves the next tick where it is.                     *)
LEMMA InvSetTempo ==
    ASSUME GeneratorInv, NEW p \in Periods, SetTempo(p) PROVE GeneratorInv'
  <1>1. /\ micros' = p /\ Idle /\ commands' = commands + 1 /\ commands < MaxCommands
        /\ UNCHANGED <<nextTick, going, catching, boot, instant>>
    BY DEF SetTempo, Command
  <1>2. /\ ticked \in Nat /\ started \in Int /\ micros \in Nat /\ Owed \in Int /\ p \in Nat
    BY GeneratorAssumption, OwedType DEF GeneratorInv, GeneratorTypeOK
  <1>3. Owed' = Owed /\ started' \in Int /\ ticked' \in Nat /\ ticked' <= 1
    <2>1. CASE ticked > 0
      <3>1. started' = Owed - p /\ ticked' = 1
        BY <2>1 DEF SetTempo
      <3>2. ticked' * micros' = p
        BY <1>1, <1>2, <3>1
      <3>3. Owed' = (Owed - p) + p
        BY <3>1, <3>2 DEF Owed
      <3> QED
        BY <1>2, <3>1, <3>3
    <2>2. CASE ticked = 0
      <3>1. started' = started /\ ticked' = 0
        BY <2>2 DEF SetTempo
      <3>2. ticked' * micros' = 0 /\ ticked * micros = 0
        BY <1>1, <1>2, <2>2, <3>1
      <3> QED
        BY <1>2, <3>1, <3>2 DEF Owed
    <2> QED
      BY <1>2, <2>1, <2>2
  <1>4. GeneratorTypeOK'
    BY GeneratorAssumption, <1>1, <1>3 DEF GeneratorInv, GeneratorTypeOK
  <1>5. OnSchedule' /\ NotFarOff'
    BY <1>1, <1>3 DEF GeneratorInv, OnSchedule, NotFarOff, Idle
  <1>6. OneByOne'
    BY <1>3 DEF OneByOne
  <1> QED
    BY <1>1, <1>4, <1>5, <1>6 DEF GeneratorInv, Idle

LEMMA InvBeginUpdate == ASSUME GeneratorInv, BeginUpdate PROVE GeneratorInv'
  <1>1. PICK late \in 1..MaxLate : instant' = instant + late
    BY DEF BeginUpdate
  <1>2. /\ Idle /\ instant' <= MaxMicros
        /\ UNCHANGED <<micros, nextTick, going, boot, started, ticked, commands>>
        /\ catching' = IF going /\ micros # 0 THEN 0 ELSE -1
    BY DEF BeginUpdate
  <1>3. /\ Owed' = Owed /\ Owed \in Int /\ instant \in Nat /\ MaxLate \in Nat
        /\ micros \in Nat
    BY GeneratorAssumption, <1>2, OwedType DEF Owed, GeneratorInv, GeneratorTypeOK
  <1>4. GeneratorTypeOK'
    BY GeneratorAssumption, <1>1, <1>2, <1>3 DEF GeneratorInv, GeneratorTypeOK
  <1>5. OnSchedule'
    BY <1>2, <1>3 DEF GeneratorInv, OnSchedule
  <1>6. NotFarOff'
    <2> SUFFICES ASSUME going
                 PROVE  /\ Owed >= 0 /\ instant' - Owed <= MaxBehind
                        /\ Idle' => 0 \in Periods
                        /\ \E p \in Periods : Owed - instant' <= p
      BY <1>2, <1>3 DEF NotFarOff
    <2>1. Owed >= 0 /\ (0 \notin Periods => instant <= Owed)
      BY <1>2 DEF GeneratorInv, NotFarOff
    <2>2. instant' - Owed <= MaxBehind
      BY GeneratorAssumption, <1>1, <1>2, <1>3, <2>1 DEF MaxBehind
    <2>6. Idle' => 0 \in Periods
      BY <1>2 DEF Idle, GeneratorInv, GeneratorTypeOK
    <2>3. PICK p \in Periods : Owed - instant <= p
      BY DEF GeneratorInv, NotFarOff
    <2>4. p \in Nat
      BY GeneratorAssumption
    <2>5. Owed - instant' <= p
      BY <1>1, <1>3, <2>3, <2>4
    <2> QED
      BY <2>1, <2>2, <2>5, <2>6
  <1>7. OneByOne'
    BY <1>1, <1>2, <1>3 DEF GeneratorInv, OneByOne
  <1> QED
    BY <1>2, <1>4, <1>5, <1>6, <1>7 DEF GeneratorInv, Idle

(* A tick is sent when it is owed, and the next is owed a period later.    *)
LEMMA InvSendTick == ASSUME GeneratorInv, SendTick PROVE GeneratorInv'
  <1>1. /\ ~Idle /\ Due /\ catching < MaxCatchUp /\ ticked' = ticked + 1
        /\ nextTick' = (nextTick + micros) % MicrosRange /\ catching' = catching + 1
        /\ UNCHANGED <<micros, going, boot, instant, started, commands>>
    BY DEF SendTick, NextTick
  <1>2. /\ micros \in Periods /\ micros \in Nat \ {0} /\ instant \in Nat /\ boot \in Nat
        /\ ticked \in Nat /\ started \in Int /\ Owed \in Int /\ catching \in Int
        /\ MicrosRange \in Nat \ {0} /\ MaxLate \in Nat /\ going /\ nextTick \in Nat
    BY GeneratorAssumption, <1>1, OwedType DEF GeneratorInv, GeneratorTypeOK
  <1>3. Owed' = Owed + micros
    <2>1. (ticked + 1) * micros = ticked * micros + micros /\ ticked * micros \in Int
      BY <1>2, OneTickMore
    <2> QED
      BY <1>1, <1>2, <2>1 DEF Owed
  <1>4. Owed <= instant
    BY <1>1, <1>2, DueIsOwed
  <1>5. GeneratorTypeOK'
    <2>1. nextTick' \in 0 .. MicrosRange - 1
      BY <1>1, <1>2, Remainder
    <2>2. catching' \in -1..MaxCatchUp
      BY GeneratorAssumption, <1>1, <1>2 DEF GeneratorInv, GeneratorTypeOK
    <2> QED
      BY <1>1, <1>2, <2>1, <2>2 DEF GeneratorInv, GeneratorTypeOK
  <1>6. OnSchedule'
    <2> DEFINE at == boot + Owed
    <2>1. nextTick = at % MicrosRange /\ at \in Int
      BY <1>2 DEF GeneratorInv, OnSchedule
    <2> HIDE DEF at
    <2>2. ((at % MicrosRange) + micros) % MicrosRange = (at + micros) % MicrosRange
      <3>1. micros \in Int
        BY <1>2
      <3> QED
        BY <1>2, <2>1, <3>1, ClockSum, Zenon
    <2>3. at + micros = boot + Owed'
      BY <1>2, <1>3 DEF at
    <2> QED
      BY <1>1, <2>1, <2>2, <2>3 DEF OnSchedule
  <1>7. NotFarOff'
    <2>1. Owed' >= 0 /\ instant - Owed' <= MaxBehind /\ Owed' - instant <= micros
      BY GeneratorAssumption, <1>2, <1>3, <1>4 DEF GeneratorInv, NotFarOff, MaxBehind
    <2>2. ~Idle'
      BY <1>1, <1>2 DEF Idle, GeneratorInv, GeneratorTypeOK
    <2> QED
      BY <1>1, <1>2, <2>1, <2>2 DEF NotFarOff
  <1>8. OneByOne'
    BY <1>1, <1>2, <1>3, <1>4 DEF OneByOne
  <1> QED
    BY <1>1, <1>2, <1>5, <1>6, <1>7, <1>8 DEF GeneratorInv

LEMMA ResynchroniseEffect ==
    ASSUME GeneratorInv, Resynchronise
    PROVE  /\ Owed' = instant + micros /\ OnSchedule'
           /\ nextTick' = (boot + Owed') % MicrosRange
  <1>1. /\ nextTick' = (Now + micros) % MicrosRange
        /\ started' = instant /\ ticked' = 1 /\ UNCHANGED <<micros, going, boot, instant>>
    BY DEF Resynchronise
  <1>2. /\ micros \in Nat /\ instant \in Nat /\ boot \in Nat /\ MicrosRange \in Nat \ {0}
    BY GeneratorAssumption DEF GeneratorInv, GeneratorTypeOK
  <1>3. Owed' = instant + micros
    BY <1>1, <1>2 DEF Owed
  <1> DEFINE at == boot + instant
  <1>4. Now = at % MicrosRange /\ at \in Int /\ at + micros = boot + Owed'
    BY <1>2, <1>3 DEF Now
  <1> HIDE DEF at
  <1>5. ((at % MicrosRange) + micros) % MicrosRange = (at + micros) % MicrosRange
    <2>1. micros \in Int
      BY <1>2
    <2> QED
      BY <1>2, <1>4, <2>1, ClockSum, Zenon
  <1> QED
    BY <1>1, <1>3, <1>4, <1>5 DEF OnSchedule

LEMMA InvResynchronise == ASSUME GeneratorInv, Resynchronise PROVE GeneratorInv'
  <1>1. /\ catching' = -1 /\ started' = instant /\ ticked' = 1 /\ ~Idle
        /\ nextTick' = (Now + micros) % MicrosRange
        /\ UNCHANGED <<micros, going, boot, instant, commands>>
    BY DEF Resynchronise
  <1>2. /\ micros \in Periods /\ micros \in Nat \ {0} /\ instant \in Nat /\ boot \in Nat
        /\ MicrosRange \in Nat \ {0} /\ instant <= MaxMicros
    BY GeneratorAssumption, <1>1 DEF GeneratorInv, GeneratorTypeOK
  <1>3. Owed' = instant + micros /\ OnSchedule'
    BY ResynchroniseEffect
  <1>4. GeneratorTypeOK'
    <2>1. Now + micros \in Int
      BY <1>2, Remainder DEF Now
    <2>2. nextTick' \in 0 .. MicrosRange - 1
      BY <1>1, <1>2, <2>1, Remainder
    <2> QED
      BY GeneratorAssumption, <1>1, <1>2, <2>2 DEF GeneratorInv, GeneratorTypeOK
  <1>5. NotFarOff'
    BY GeneratorAssumption, <1>1, <1>2, <1>3 DEF NotFarOff, MaxBehind
  <1> QED
    BY <1>1, <1>3, <1>4, <1>5 DEF GeneratorInv, Idle, OneByOne

LEMMA InvEndUpdate == ASSUME GeneratorInv, EndUpdate PROVE GeneratorInv'
  <1>1. /\ ~Idle /\ ~Due /\ catching' = -1
        /\ UNCHANGED <<micros, nextTick, going, boot, instant, started, ticked, commands>>
    BY DEF EndUpdate
  <1>2. Owed' = Owed /\ Owed \in Int /\ instant \in Nat /\ going
    BY <1>1, OwedType DEF Owed, GeneratorInv, GeneratorTypeOK
  <1>3. instant < Owed
    BY <1>1, <1>2, DueIsOwed
  <1>4. GeneratorTypeOK'
    BY GeneratorAssumption, <1>1 DEF GeneratorInv, GeneratorTypeOK
  <1>5. OnSchedule' /\ NotFarOff' /\ OneByOne'
    BY <1>1, <1>2, <1>3 DEF GeneratorInv, OnSchedule, NotFarOff, OneByOne
  <1> QED
    BY <1>1, <1>4, <1>5 DEF GeneratorInv, Idle

LEMMA GeneratorInvNext == GeneratorInv /\ [GeneratorNext]_generatorVars => GeneratorInv'
  <1> SUFFICES ASSUME GeneratorInv, [GeneratorNext]_generatorVars PROVE GeneratorInv'
    OBVIOUS
  <1>1. CASE UNCHANGED generatorVars
    BY <1>1 DEF generatorVars, GeneratorInv, GeneratorTypeOK, Idle, OnSchedule, NotFarOff, OneByOne, Owed
  <1> QED
    BY <1>1, InvStartSending, InvStopSending, InvSetTempo, InvBeginUpdate, InvSendTick,
       InvResynchronise, InvEndUpdate DEF GeneratorNext

(* However late the updates are, and however often the clock wraps, an     *)
(* update leaves the generator with every tick sent that was owed, none    *)
(* that was not, and the next where the schedule has it.                   *)
LEMMA GeneratorKeepsTime == GeneratorSpec => TicksKeepTime /\ []GeneratorTypeOK
  <1> DEFINE Kept == /\ nextTick' = (boot + Owed') % MicrosRange
                     /\ instant < Owed'
                     /\ ticked' > 1 => Owed' - micros <= instant
  <1>1. GeneratorInv /\ [GeneratorNext]_generatorVars => [~Idle /\ Idle' => Kept]_generatorVars
    <2> SUFFICES ASSUME GeneratorInv, GeneratorNext, ~Idle, Idle' PROVE Kept
      OBVIOUS
    <2>1. /\ micros \in Nat \ {0} /\ instant \in Nat /\ Owed \in Int /\ going
      BY GeneratorAssumption, OwedType DEF GeneratorInv, GeneratorTypeOK
    <2>2. CASE Resynchronise
      <3>1. /\ Owed' = instant + micros /\ nextTick' = (boot + Owed') % MicrosRange
            /\ ticked' = 1
        BY <2>2, ResynchroniseEffect DEF Resynchronise
      <3> QED
        BY <2>1, <3>1
    <2>3. CASE EndUpdate
      <3>1. /\ Owed' = Owed /\ nextTick' = nextTick /\ ticked' = ticked /\ ~Due
        BY <2>3 DEF EndUpdate, Owed
      <3>2. instant < Owed
        BY <2>1, <3>1, DueIsOwed
      <3> QED
        BY <2>1, <3>1, <3>2 DEF GeneratorInv, OnSchedule, OneByOne
    <2>4. CASE SendTick
      BY <2>4 DEF SendTick, Idle, GeneratorInv, GeneratorTypeOK
    <2> QED
      BY <2>2, <2>3, <2>4 DEF GeneratorNext, StartSending, StopSending, SetTempo, Command, BeginUpdate
  <1>2. GeneratorInv => GeneratorTypeOK
    BY DEF GeneratorInv
  <1> QED
    BY <1>1, <1>2, GeneratorInvInit, GeneratorInvNext, PTL DEF GeneratorSpec, TicksKeepTime
-----------------------------------------------------------------------------
(* The period of the last tick.                                            *)
Ticked == IF ticking THEN periods ELSE periods - 1

(* The sender's ticks are a jitter later than their periods.               *)
Arrived(t, period) == \E late \in 0..Jitter : t = Wrapped(period * Period - Period + late)

(* The window began with a tick, as many ago as are counted.               *)
WindowIsWhole == running /\ Arrived(windowStart, Ticked - counted)

InTempo ==
    microsPerTick \in (Quarter * Period - Jitter) \div Quarter
                          .. (Quarter * Period + Jitter) \div Quarter

(* A window that a transport message or a pause has spoilt ends within one *)
(* quarter, and the next one sets the tempo a quarter later.               *)
WindowHeals ==
    \/ steady <= counted
    \/ WindowIsWhole /\ (InTempo \/ steady <= Quarter + counted)

CounterInv ==
    /\ CounterTypeOK
    /\ Arrived(arrival, periods)
    /\ quarters * Quarter + tick = ticks
    /\ WindowHeals

LEMMA WrappedType ==
    ASSUME NEW t \in Int PROVE Wrapped(t) \in 0 .. CountRange - 1
  BY CounterAssumption, Remainder DEF Wrapped

(* Between ticks a quarter apart lies a quarter, give or take the jitter,  *)
(* wherever the clock wraps in between.                                    *)
LEMMA QuarterMeasured ==
    ASSUME NEW p \in Int, NEW t \in Int, NEW u \in Int,
           Arrived(t, p), Arrived(u, p - Quarter)
    PROVE  LET micro == Wrapped(t - u) \div Quarter IN
           micro \in (Quarter * Period - Jitter) \div Quarter
                         .. (Quarter * Period + Jitter) \div Quarter
  <1>1. PICK a \in 0..Jitter : t = Wrapped(p * Period - Period + a)
    BY DEF Arrived
  <1>2. PICK b \in 0..Jitter : u = Wrapped((p - Quarter) * Period - Period + b)
    BY DEF Arrived
  <1> DEFINE x == p * Period - Period + a
             y == (p - Quarter) * Period - Period + b
             d == Quarter * Period + (a - b)
  <1>3. /\ CountRange \in Nat \ {0} /\ Quarter \in Nat \ {0} /\ Period \in Nat
        /\ Jitter \in Nat /\ Jitter <= Period /\ Quarter * Period + Jitter < CountRange
        /\ a \in Int /\ b \in Int /\ a - b >= -Jitter /\ a - b <= Jitter
    BY CounterAssumption
  <1>4. /\ (p - Quarter) * Period = p * Period - Quarter * Period
        /\ p * Period \in Int /\ Quarter * Period \in Int
    BY <1>3
  <1>5. x \in Int /\ y \in Int /\ x - y = d /\ d \in Int
    BY <1>3, <1>4
  <1>6. Period <= Quarter * Period
    <2>1. 1 <= Quarter
      BY <1>3
    <2>2. 1 * Period <= Quarter * Period
      BY <1>3, <2>1, ProductOrder
    <2> QED
      BY <1>3, <2>2
  <1>7. 0 <= d /\ d < CountRange
    BY <1>3, <1>4, <1>6
  <1>8. Quarter * Period - Jitter <= d /\ d <= Quarter * Period + Jitter
    BY <1>3, <1>4
  <1> HIDE DEF x, y, d
  <1>9. Wrapped(t - u) = d
    <2>1. ((x % CountRange) - (y % CountRange)) % CountRange = (x - y) % CountRange
      BY <1>3, <1>5, ClockDifference
    <2>2. d % CountRange = d
      BY <1>3, <1>5, <1>7, RemainderSmall
    <2>3. t = x % CountRange /\ u = y % CountRange
      BY <1>1, <1>2 DEF Wrapped, x, y
    <2> QED
      BY <1>5, <2>1, <2>2, <2>3 DEF Wrapped
  <1> DEFINE low == Quarter * Period - Jitter
             high == Quarter * Period + Jitter
  <1>10. low \in Int /\ high \in Int /\ low <= d /\ d <= high
    BY <1>3, <1>4, <1>8
  <1> HIDE DEF low, high
  <1>11. /\ low \div Quarter <= d \div Quarter /\ d \div Quarter <= high \div Quarter
         /\ low \div Quarter \in Int /\ d \div Quarter \in Int /\ high \div Quarter \in Int
    BY <1>3, <1>5, <1>10, Quotient, QuotientOrder
  <1> QED
    BY <1>9, <1>11 DEF low, high

(* The beat moves on with the ticks.                                       *)
LEMMA InvBeat ==
    ASSUME CounterInv, Tick
    PROVE  /\ tick' \in 0 .. Quarter - 1 /\ quarters' \in Nat
           /\ quarters' * Quarter + tick' = ticks'
           /\ {running, ticking}' \subseteq BOOLEAN
  <1>1. /\ Quarter \in Nat \ {0} /\ tick \in 0 .. Quarter - 1 /\ quarters \in Nat
        /\ ticks \in Nat /\ quarters * Quarter + tick = ticks
    BY CounterAssumption DEF CounterInv, CounterTypeOK
  <1>2. /\ tick' = (tick + 1) % Quarter /\ ticks' = ticks + 1
        /\ quarters' = IF tick + 1 >= Quarter THEN quarters + 1 ELSE quarters
    BY DEF Tick
  <1>3. {running, ticking}' \subseteq BOOLEAN
    BY Zenon DEF Tick
  <1>4. (quarters + 1) * Quarter = quarters * Quarter + Quarter /\ quarters * Quarter \in Int
    BY <1>1
  <1>5. CASE tick + 1 = Quarter
    <2>1. (tick + 1) % Quarter = 0
      <3>1. tick + 1 = Quarter * 1 + 0
        BY <1>1, <1>5
      <3> QED
        BY <1>1, <3>1, RemainderIs
    <2> QED
      BY <1>1, <1>2, <1>3, <1>4, <1>5, <2>1
  <1>6. CASE tick + 1 < Quarter
    <2>1. (tick + 1) % Quarter = tick + 1
      <3>1. tick + 1 = Quarter * 0 + (tick + 1) /\ tick + 1 \in 0 .. Quarter - 1
        BY <1>1, <1>6
      <3> QED
        BY <1>1, <3>1, RemainderIs
    <2> QED
      BY <1>1, <1>2, <1>3, <1>4, <1>6, <2>1
  <1> QED
    BY <1>1, <1>5, <1>6

LEMMA InvTick == ASSUME CounterInv, Tick PROVE CounterInv'
  <1>1. /\ Quarter \in Nat \ {0} /\ CountRange \in Nat \ {0}
        /\ tick \in 0 .. Quarter - 1 /\ counted \in 0 .. Quarter - 1
        /\ quarters \in Nat /\ steady \in Nat /\ ticks \in Nat /\ microsPerTick \in Nat
        /\ arrival \in 0 .. CountRange - 1 /\ windowStart \in 0 .. CountRange - 1
        /\ periods \in Nat
    BY CounterAssumption DEF CounterInv, CounterTypeOK
  <1>2. /\ ~ticking /\ ticking' = TRUE /\ running' = TRUE
        /\ tick' = (tick + 1) % Quarter
        /\ quarters' = IF tick + 1 >= Quarter THEN quarters + 1 ELSE quarters
        /\ steady' = steady + 1 /\ ticks' = ticks + 1
        /\ UNCHANGED <<arrival, periods, transports>>
    BY DEF Tick
  <1>3. Arrived(arrival, periods)'
    BY <1>2 DEF CounterInv, Arrived
  <1>4. CASE counted + 1 >= Quarter
    <2>1. /\ microsPerTick' = Wrapped(arrival - WindowStart) \div (counted + 1)
          /\ counted' = 0 /\ windowStart' = arrival /\ counted + 1 = Quarter
      BY <1>1, <1>4 DEF Tick, WindowAfter
    <2>2. WindowStart \in Int
      BY <1>1 DEF WindowStart
    <2>3. microsPerTick' \in Nat
      <3> DEFINE w == Wrapped(arrival - WindowStart)
      <3>1. w \in 0 .. CountRange - 1
        BY <1>1, <2>2, WrappedType
      <3> HIDE DEF w
      <3>2. w \div Quarter \in Int /\ 0 \div Quarter <= w \div Quarter /\ 0 \div Quarter = 0
        BY <1>1, <3>1, Quotient, QuotientOrder, QuotientIs
      <3> QED
        BY <2>1, <3>2 DEF w
    <2>4. WindowIsWhole'
      <3>1. Ticked' - counted' = periods
        BY <1>1, <1>2, <2>1 DEF Ticked
      <3>2. Arrived(arrival, periods)
        BY DEF CounterInv
      <3>3. Arrived(arrival, periods)'
        BY <1>2, <3>2 DEF Arrived
      <3> QED
        BY <1>2, <2>1, <3>1, <3>3 DEF WindowIsWhole, Arrived
    <2>5. ASSUME steady <= counted PROVE WindowHeals'
      BY <1>1, <1>2, <2>1, <2>4, <2>5 DEF WindowHeals
    <2>6. ASSUME WindowIsWhole PROVE WindowHeals'
      <3>1. WindowStart = windowStart /\ Arrived(windowStart, periods - Quarter)
        <4>1. Ticked - counted = periods - Quarter
          BY <1>1, <1>2, <2>1 DEF Ticked
        <4> QED
          BY <2>6, <4>1 DEF WindowIsWhole, WindowStart
      <3>2. Arrived(arrival, periods)
        BY DEF CounterInv
      <3>3. InTempo'
        BY <1>1, <2>1, <3>1, <3>2, QuarterMeasured DEF InTempo
      <3> QED
        BY <2>4, <3>3 DEF WindowHeals
    <2>7. WindowHeals'
      BY <2>5, <2>6 DEF CounterInv, WindowHeals
    <2> QED
      BY <1>1, <1>2, <1>3, <2>1, <2>3, <2>7, InvBeat DEF CounterInv, CounterTypeOK
  <1>5. CASE counted + 1 < Quarter
    <2>1. /\ counted' = counted + 1 /\ windowStart' = WindowStart
          /\ microsPerTick' = microsPerTick
      BY <1>1, <1>5 DEF Tick
    <2>2. windowStart' \in 0 .. CountRange - 1
      BY <1>1, <2>1 DEF WindowStart
    <2>3. ASSUME WindowIsWhole PROVE WindowIsWhole'
      <3>1. WindowStart = windowStart /\ Ticked' - counted' = Ticked - counted
        BY <1>1, <1>2, <2>1, <2>3 DEF WindowIsWhole, WindowStart, Ticked
      <3> QED
        BY <1>2, <2>1, <2>3, <3>1 DEF WindowIsWhole, Arrived
    <2>4. WindowHeals'
      <3>1. InTempo' <=> InTempo
        BY <2>1 DEF InTempo
      <3> QED
        BY <1>1, <1>2, <2>1, <2>3, <3>1 DEF CounterInv, WindowHeals
    <2> QED
      <3>1. /\ counted' \in 0 .. Quarter - 1 /\ microsPerTick' \in Nat
            /\ steady' \in Nat /\ ticks' \in Nat
        BY <1>1, <1>2, <1>5, <2>1
      <3> QED
        BY <1>2, <1>3, <2>2, <2>4, <3>1, InvBeat DEF CounterInv, CounterTypeOK
  <1> QED
    BY <1>1, <1>4, <1>5

LEMMA CounterInvNext == CounterInv /\ [CounterNext]_counterVars => CounterInv'
  <1> SUFFICES ASSUME CounterInv, [CounterNext]_counterVars PROVE CounterInv'
    OBVIOUS
  <1>1. /\ Quarter \in Nat \ {0} /\ CountRange \in Nat \ {0} /\ Period \in Nat
        /\ Jitter \in Nat /\ MaxPeriods \in Nat /\ MaxTransport \in Nat
        /\ counted \in Nat /\ steady \in Nat /\ periods \in Nat /\ tick \in Nat
        /\ CounterTypeOK
    BY CounterAssumption DEF CounterInv, CounterTypeOK
  <1>2. CASE NextPeriod
    <2>1. /\ periods' = periods + 1 /\ periods < MaxPeriods /\ ticking' = FALSE
          /\ steady' = IF ticking THEN steady ELSE 0
          /\ UNCHANGED <<running, tick, quarters, counted, windowStart, microsPerTick,
                         ticks, transports>>
      BY <1>2 DEF NextPeriod
    <2>2. PICK late \in 0..Jitter : arrival' = Wrapped(periods' * Period - Period + late)
      BY <1>2 DEF NextPeriod
    <2>3. arrival' \in 0 .. CountRange - 1
      <3>1. periods' * Period \in Int
        BY <1>1, <2>1
      <3> QED
        BY <1>1, <2>2, <3>1, WrappedType
    <2>4. Arrived(arrival, periods)'
      BY <2>2 DEF Arrived
    <2>5. WindowHeals'
      <3>1. CASE ticking
        <4>1. Ticked' = Ticked
          BY <1>1, <2>1, <3>1 DEF Ticked
        <4> QED
          BY <2>1, <3>1, <4>1
             DEF CounterInv, WindowHeals, WindowIsWhole, Arrived, InTempo
      <3>2. CASE ~ticking
        BY <1>1, <2>1, <3>2 DEF WindowHeals
      <3> QED
        BY <3>1, <3>2
    <2>6. {running, ticking}' \subseteq BOOLEAN
      BY <2>1, Zenon DEF CounterInv, CounterTypeOK
    <2> QED
      BY <1>1, <2>1, <2>3, <2>4, <2>5, <2>6 DEF CounterInv, CounterTypeOK
  <1>3. CASE Tick
    BY <1>3, InvTick
  <1>4. ASSUME Transport,
               counted' \in 0 .. Quarter - 1, windowStart' \in 0 .. CountRange - 1,
               running' \in BOOLEAN, microsPerTick' \in Nat,
               \/ UNCHANGED <<tick, quarters, ticks>>
               \/ tick' = 0 /\ quarters' = 0 /\ ticks' = 0
        PROVE  CounterInv'
    <2>1. /\ transports' = transports + 1 /\ transports < MaxTransport /\ steady' = 0
          /\ UNCHANGED <<arrival, periods, ticking>>
      BY <1>4 DEF Transport, senderVars
    <2>2. WindowHeals'
      BY <1>4, <2>1 DEF WindowHeals
    <2>3. /\ quarters' * Quarter + tick' = ticks'
          /\ tick' \in 0 .. Quarter - 1 /\ quarters' \in Nat /\ ticks' \in Nat
      <3>1. 0 * Quarter = 0
        BY <1>1
      <3> QED
        BY <1>1, <1>4, <3>1 DEF CounterInv, CounterTypeOK
    <2>4. {running, ticking}' \subseteq BOOLEAN
      BY <1>4, <2>1, Zenon DEF CounterInv, CounterTypeOK
    <2>5. Arrived(arrival, periods)'
      BY <2>1 DEF CounterInv, Arrived
    <2>6. /\ steady' \in Nat /\ transports' \in 0..MaxTransport
          /\ arrival' \in 0 .. CountRange - 1 /\ periods' \in 0..MaxPeriods
      BY <1>1, <2>1 DEF CounterTypeOK
    <2> QED
      BY <1>4, <2>2, <2>3, <2>4, <2>5, <2>6 DEF CounterInv, CounterTypeOK
  <1>5. running \in BOOLEAN
    BY Zenon DEF CounterInv, CounterTypeOK
  <1>6. CASE Start
    <2>1. running' \in BOOLEAN
      BY <1>6, Zenon DEF Start
    <2> QED
      BY <1>1, <1>4, <1>6, <2>1 DEF Start, CounterTypeOK
  <1>7. CASE Continue
    <2>1. running' \in BOOLEAN
      BY <1>7, Zenon DEF Continue
    <2> QED
      BY <1>1, <1>4, <1>7, <2>1 DEF Continue, CounterTypeOK
  <1>8. CASE Stop
    <2>1. running' \in BOOLEAN
      BY <1>8, Zenon DEF Stop
    <2> QED
      BY <1>1, <1>4, <1>8, <2>1 DEF Stop, CounterTypeOK
  <1>9. CASE Reset
    <2>1. running' \in BOOLEAN
      BY <1>9, Zenon DEF Reset
    <2> QED
      BY <1>1, <1>4, <1>9, <2>1 DEF Reset, CounterTypeOK
  <1>10. CASE UNCHANGED counterVars
    BY <1>10 DEF counterVars, CounterInv, CounterTypeOK, WindowHeals, WindowIsWhole,
                 Arrived, InTempo, Ticked
  <1> QED
    BY <1>2, <1>3, <1>6, <1>7, <1>8, <1>9, <1>10 DEF CounterNext

LEMMA CounterFollows == CounterSpec => [](CounterTypeOK /\ BeatAndTempo)
  <1>1. CounterInit => CounterInv
    <2> SUFFICES ASSUME CounterInit PROVE CounterInv
      OBVIOUS
    <2>1. {running, ticking} \subseteq BOOLEAN
      BY Zenon DEF CounterInit
    <2>2. Arrived(arrival, periods)
      <3> DEFINE d == 0 * Period - Period + 0
      <3>1. Period <= Quarter * Period
        <4>1. 1 * Period <= Quarter * Period
          BY CounterAssumption, ProductOrder
        <4> QED
          BY CounterAssumption, <4>1
      <3>2. /\ d = -Period /\ -CountRange <= d /\ d < 0 /\ d \in Int
            /\ CountRange \in Nat \ {0}
        <4>1. Quarter * Period \in Int
          BY CounterAssumption
        <4> QED
          BY CounterAssumption, <3>1, <4>1
      <3> HIDE DEF d
      <3>3. d % CountRange = d + CountRange
        BY <3>2, RemainderSmall
      <3>4. arrival = Wrapped(d)
        BY CounterAssumption, <3>2, <3>3 DEF CounterInit, Wrapped
      <3>5. 0 \in 0..Jitter /\ periods = 0
        BY CounterAssumption DEF CounterInit
      <3> QED
        BY <3>4, <3>5 DEF Arrived, d
    <2>3. arrival \in 0 .. CountRange - 1
      <3>1. Quarter * Period \in Int /\ 1 * Period <= Quarter * Period
        BY CounterAssumption, ProductOrder
      <3> QED
        BY CounterAssumption, <3>1 DEF CounterInit
    <2>4. quarters * Quarter + tick = ticks
      BY CounterAssumption DEF CounterInit
    <2> QED
      BY CounterAssumption, <2>1, <2>2, <2>3, <2>4
         DEF CounterInit, CounterInv, CounterTypeOK, WindowHeals
  <1>2. CounterInv => CounterTypeOK /\ BeatAndTempo
    <2> SUFFICES ASSUME CounterInv PROVE BeatAndTempo
      BY DEF CounterInv
    <2>1. /\ counted \in 0 .. Quarter - 1 /\ steady \in Nat /\ Quarter \in Nat \ {0}
      BY CounterAssumption DEF CounterInv, CounterTypeOK
    <2>2. steady >= 2 * Quarter => InTempo
      BY <2>1 DEF CounterInv, WindowHeals
    <2> QED
      BY <2>2 DEF CounterInv, BeatAndTempo, InTempo
  <1> QED
    BY <1>1, <1>2, CounterInvNext, PTL DEF CounterSpec
-----------------------------------------------------------------------------
(* A behaviour of the parts is a behaviour of each part.                   *)
LEMMA EveryPart ==
    Spec => /\ StageSpec /\ ButtonSpec /\ AnalogSpec
            /\ EncoderSpec /\ GeneratorSpec /\ CounterSpec
  <1>1. Init => /\ StageInit /\ ButtonInit /\ AnalogInit
                /\ EncoderInit /\ GeneratorInit /\ CounterInit
    BY DEF Init
  <1>2. [Next]_vars => /\ [StageNext]_stageVars /\ [ButtonNext]_buttonVars
                       /\ [AnalogNext]_analogVars /\ [EncoderNext]_encoderVars
                       /\ [GeneratorNext]_generatorVars /\ [CounterNext]_counterVars
    BY Zenon DEF Next, vars, clockVars, StageStep, ButtonStep, AnalogStep, EncoderStep,
       GeneratorStep, CounterStep
  <1> QED
    BY <1>1, <1>2, PTL DEF Spec, StageSpec, ButtonSpec, AnalogSpec, EncoderSpec,
       GeneratorSpec, CounterSpec

(* Notes that a stage lets through are heard to end when their keys are    *)
(* released, and its LEDs of notes go out: Filter::accepts(),              *)
(* Transform::apply() and ControlOutput::handle(), for every stage.        *)
THEOREM NotesEnd == Spec => []NothingKeepsSounding
  BY EveryPart, StageEnds, PTL

(* Maps of a stage and ranges of a knob keep order, range and ends, and    *)
(* the widest map changes nothing: ValueMap::apply() and Analog::map(),    *)
(* for all widths.                                                         *)
THEOREM ValuesAreInOrder == Spec => []ValuesKeepOrder
  <1>1. StageTypeOK => MapsKeepOrder
    BY StageKeepsOrder DEF StageTypeOK
  <1>2. NothingKeepsSounding => StageTypeOK
    BY DEF NothingKeepsSounding
  <1>3. MapsKeepOrder /\ AnalogTypeOK /\ MappedKeepsOrder => ValuesKeepOrder
    BY DEF ValuesKeepOrder
  <1> QED
    BY EveryPart, StageEnds, KnobIsInOrder, <1>1, <1>2, <1>3, PTL

(* A button whose contact has been still for the debounce time is          *)
(* believed, whenever millis() wraps: Button::update().                    *)
THEOREM ButtonsAreBelieved == Spec => []StillIsBelieved
  BY EveryPart, ButtonIsBelieved, PTL

(* Turns of an encoder are sent in full, however a message limits them:    *)
(* Encoder::turn().                                                        *)
THEOREM TurnsAreSent == Spec => []NoTurnIsLost
  BY EveryPart, EncoderLosesNothing, PTL

(* Ticks keep to the tempo however late updates are, and micros() may wrap *)
(* meanwhile: ClockGenerator::update().                                    *)
THEOREM TicksAreInTime == Spec => TicksKeepTime
  BY EveryPart, GeneratorKeepsTime, PTL

(* The beat and, after a lost tick, again the tempo are the sender's:      *)
(* ClockCounter::handle().                                                 *)
THEOREM ClocksAreFollowed == Spec => []ClockIsFollowed
  <1>1. GeneratorTypeOK /\ CounterTypeOK /\ BeatAndTempo => ClockIsFollowed
    BY DEF ClockIsFollowed
  <1> QED
    BY EveryPart, GeneratorKeepsTime, CounterFollows, <1>1, PTL
=============================================================================
