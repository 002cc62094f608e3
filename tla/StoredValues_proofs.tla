-------------------------- MODULE StoredValues_proofs --------------------------
(* Theorems about StoredValues and the encoding it uses (ValueCodec), for    *)
(* every base of the digits, every width of the length field and every set   *)
(* of payloads and relayed blobs.                                            *)
EXTENDS StoredValues, DataInduction, SequenceTheorems

\* Division by the base, for which the bytes are the digits.
LEMMA Digits ==
    /\ ByteBase \in Nat /\ ByteBase > 5 /\ LenBytes \in Nat /\ LenBytes > 0
    /\ \A n \in Nat : /\ n \div ByteBase \in Nat
                      /\ n % ByteBase \in Bytes
                      /\ n = (n \div ByteBase) * ByteBase + (n % ByteBase)
    /\ \A n \in Nat, d \in Bytes : /\ n * ByteBase + d \in Nat
                                   /\ (n * ByteBase + d) \div ByteBase = n
                                   /\ (n * ByteBase + d) % ByteBase = d
    /\ \A a, b \in Nat, d \in Bytes :
            a < b => a * ByteBase + d < b * ByteBase
    /\ \A a, b \in Nat : a < b * ByteBase => a \div ByteBase < b
  <1>1. ByteBase \in Nat /\ ByteBase > 5 /\ LenBytes \in Nat /\ LenBytes > 0
    BY CodecWidths DEF CodecWidths
  <1>2. ASSUME NEW n \in Nat
        PROVE  /\ n \div ByteBase \in Nat
               /\ n % ByteBase \in Bytes
               /\ n = (n \div ByteBase) * ByteBase + (n % ByteBase)
    BY <1>1 DEF Bytes
  <1>3. ASSUME NEW n \in Nat, NEW d \in Bytes
        PROVE  /\ n * ByteBase + d \in Nat
               /\ (n * ByteBase + d) \div ByteBase = n
               /\ (n * ByteBase + d) % ByteBase = d
    BY <1>1 DEF Bytes
  <1>4. ASSUME NEW a \in Nat, NEW b \in Nat, NEW d \in Bytes, a < b
        PROVE  a * ByteBase + d < b * ByteBase
    <2>1. b * ByteBase - a * ByteBase = (b - a) * ByteBase
      BY <1>1
    <2>2. (b - a) * ByteBase >= ByteBase
      <3>1. b - a \in Nat /\ b - a > 0
        BY <1>4
      <3>2. \A c \in Nat : c > 0 => c * ByteBase >= ByteBase
        BY <1>1
      <3> QED  BY <3>1, <3>2
    <2>3. d < ByteBase /\ d \in Nat
      BY <1>1 DEF Bytes
    <2>4. a * ByteBase \in Nat /\ b * ByteBase \in Nat
      BY <1>1
    <2> QED  BY <1>1, <2>1, <2>2, <2>3, <2>4
  <1>5. ASSUME NEW a \in Nat, NEW b \in Nat, a < b * ByteBase
        PROVE  a \div ByteBase < b
    BY <1>1, <1>5
  <1> QED  BY <1>1, <1>2, <1>3, <1>4, <1>5

----------------------------------------------------------------------------
\* The three recursions: powers, the digits still to be written, and the
\* number read so far.

IsPower(power, n) ==
    power = [i \in 0..n |-> IF i = 0 THEN 1 ELSE power[i - 1] * ByteBase]

IsRest(rest, n, width) ==
    rest = [i \in 0..width |-> IF i = 0 THEN n ELSE rest[i - 1] \div ByteBase]

IsNumber(number, bytes) ==
    number = [i \in 0..Len(bytes) |->
                IF i = 0 THEN 0 ELSE number[i - 1] * ByteBase + bytes[i]]

\* The recursion of ToBytes has a solution: numbers divide into numbers.
LEMMA RestExists ==
    ASSUME NEW n \in Nat, NEW width \in Nat
    PROVE  \E rest : IsRest(rest, n, width)
  <1> DEFINE step == [i \in 1..width |-> [v \in Nat |-> v \div ByteBase]]
  <1>1. step \in [1..width -> [Nat -> Nat]]
    BY Digits
  <1>2. PICK f : Iterates(f, width, Nat, n, step)
    <2> HIDE DEF step
    <2> QED  BY <1>1, IterationExists
  <1>3. ASSUME NEW i \in 0..width
        PROVE  f[i] = IF i = 0 THEN n ELSE f[i - 1] \div ByteBase
    <2>1. i = 0 \/ (i \in 1..width /\ i - 1 \in 0..width)
      OBVIOUS
    <2> QED  BY <1>2, <2>1 DEF Iterates
  <1>4. f = [i \in 0..width |-> f[i]]
    BY <1>2 DEF Iterates
  <1>5. IsRest(f, n, width)
    BY <1>3, <1>4 DEF IsRest
  <1> QED  BY <1>5

\* ToBytes writes the last digit of what is left after each division.
LEMMA RestDef ==
    ASSUME NEW n \in Nat, NEW width \in Nat
    PROVE  \E rest \in [0..width -> Nat] :
                /\ rest[0] = n
                /\ \A i \in 1..width : rest[i] = rest[i - 1] \div ByteBase
                /\ ToBytes(n, width) =
                        [i \in 1..width |-> rest[width - i] % ByteBase]
  <1> DEFINE rest == CHOOSE r : IsRest(r, n, width)
             step == [i \in 1..width |-> [v \in Nat |-> v \div ByteBase]]
  <1>1. ToBytes(n, width) = [i \in 1..width |-> rest[width - i] % ByteBase]
    BY DEF ToBytes, IsRest
  <1>2. IsRest(rest, n, width)
    BY RestExists
  <1> HIDE DEF rest
  <1>3. /\ rest[0] = n
        /\ \A i \in 1..width : rest[i] = rest[i - 1] \div ByteBase
    <2>1. \A i \in 0..width :
            rest[i] = IF i = 0 THEN n ELSE rest[i - 1] \div ByteBase
      BY <1>2, Zenon DEF IsRest
    <2>2. 0 \in 0..width /\ \A i \in 1..width : i \in 0..width /\ i # 0
      OBVIOUS
    <2> QED  BY <2>1, <2>2, Zenon
  <1>4. rest = [i \in 0..width |-> rest[i]]
    BY <1>2, Zenon DEF IsRest
  <1>5. Iterates(rest, width, Nat, n, step)
    <2>1. step \in [1..width -> [Nat -> Nat]]
      BY Digits
    <2>2. \A i \in 1..width : rest[i - 1] \in Nat => rest[i] = step[i][rest[i - 1]]
      BY <1>3
    <2> HIDE DEF step
    <2> QED  BY <1>3, <1>4, <2>1, <2>2, IterationStays
  <1> QED  BY <1>1, <1>3, <1>5 DEF Iterates

\* Each byte leads from a number to a number.
LEMMA ByteStepsAreTyped ==
    ASSUME NEW bytes \in Seq(Bytes)
    PROVE  /\ Len(bytes) \in Nat
           /\ [i \in 1..Len(bytes) |-> [v \in Nat |-> v * ByteBase + bytes[i]]]
                \in [1..Len(bytes) -> [Nat -> Nat]]
  <1>1. Len(bytes) \in Nat
    OBVIOUS
  <1>2. ASSUME NEW i \in 1..Len(bytes)
        PROVE  [v \in Nat |-> v * ByteBase + bytes[i]] \in [Nat -> Nat]
    <2>1. bytes[i] \in Bytes
      OBVIOUS
    <2>2. ASSUME NEW v \in Nat PROVE v * ByteBase + bytes[i] \in Nat
      BY <2>1, Digits
    <2> QED  BY <2>2, Zenon
  <1> QED  BY <1>1, <1>2, Zenon

\* The recursion of FromBytes has a solution.
LEMMA NumberExists ==
    ASSUME NEW bytes \in Seq(Bytes)
    PROVE  \E number : IsNumber(number, bytes)
  <1> DEFINE width == Len(bytes)
             step == [i \in 1..width |-> [v \in Nat |-> v * ByteBase + bytes[i]]]
  <1>1. width \in Nat /\ step \in [1..width -> [Nat -> Nat]]
    BY ByteStepsAreTyped, Zenon
  <1>2. PICK f : Iterates(f, width, Nat, 0, step)
    <2> HIDE DEF step, width
    <2> QED  BY <1>1, IterationExists
  <1>3. ASSUME NEW i \in 0..width
        PROVE  f[i] = IF i = 0 THEN 0 ELSE f[i - 1] * ByteBase + bytes[i]
    <2>1. i = 0 \/ (i \in 1..width /\ i - 1 \in 0..width)
      BY <1>1
    <2> QED  BY <1>2, <2>1 DEF Iterates
  <1>4. f = [i \in 0..width |-> f[i]]
    BY <1>2 DEF Iterates
  <1>5. IsNumber(f, bytes)
    BY <1>3, <1>4 DEF IsNumber
  <1> QED  BY <1>5

\* FromBytes multiplies by the base and adds the next byte.
LEMMA NumberDef ==
    ASSUME NEW bytes \in Seq(Bytes)
    PROVE  \E number \in [0..Len(bytes) -> Nat] :
                /\ number[0] = 0
                /\ \A i \in 1..Len(bytes) :
                        number[i] = number[i - 1] * ByteBase + bytes[i]
                /\ FromBytes(bytes) = number[Len(bytes)]
  <1> DEFINE number == CHOOSE f : IsNumber(f, bytes)
             width == Len(bytes)
             step == [i \in 1..width |-> [v \in Nat |-> v * ByteBase + bytes[i]]]
  <1>1. FromBytes(bytes) = number[Len(bytes)]
    BY DEF FromBytes, IsNumber
  <1>2. IsNumber(number, bytes)
    BY NumberExists
  <1> HIDE DEF number
  <1>3. /\ number[0] = 0
        /\ \A i \in 1..width : number[i] = number[i - 1] * ByteBase + bytes[i]
    <2>1. \A i \in 0..width :
            number[i] = IF i = 0 THEN 0 ELSE number[i - 1] * ByteBase + bytes[i]
      BY <1>2, Zenon DEF IsNumber
    <2>2. 0 \in 0..width /\ \A i \in 1..width : i \in 0..width /\ i # 0
      OBVIOUS
    <2> QED  BY <2>1, <2>2, Zenon
  <1>4. number = [i \in 0..width |-> number[i]]
    BY <1>2, Zenon DEF IsNumber
  <1>5. Iterates(number, width, Nat, 0, step)
    <2>1. width \in Nat /\ step \in [1..width -> [Nat -> Nat]]
      BY ByteStepsAreTyped, Zenon
    <2>2. \A i \in 1..width :
            number[i - 1] \in Nat => number[i] = step[i][number[i - 1]]
      BY <1>3
    <2> HIDE DEF step, width
    <2> QED  BY <1>3, <1>4, <2>1, <2>2, IterationStays
  <1> QED  BY <1>1, <1>3, <1>5 DEF Iterates

\* The recursion of Power has a solution.
LEMMA PowerExists ==
    ASSUME NEW n \in Nat
    PROVE  \E power : IsPower(power, n)
  <1> DEFINE step == [i \in 1..n |-> [v \in Nat |-> v * ByteBase]]
  <1>1. step \in [1..n -> [Nat -> Nat]]
    BY Digits
  <1>2. PICK f : Iterates(f, n, Nat, 1, step)
    <2> HIDE DEF step
    <2> QED  BY <1>1, IterationExists
  <1>3. ASSUME NEW i \in 0..n
        PROVE  f[i] = IF i = 0 THEN 1 ELSE f[i - 1] * ByteBase
    <2>1. i = 0 \/ (i \in 1..n /\ i - 1 \in 0..n)
      OBVIOUS
    <2> QED  BY <1>2, <2>1 DEF Iterates
  <1>4. f = [i \in 0..n |-> f[i]]
    BY <1>2 DEF Iterates
  <1>5. IsPower(f, n)
    BY <1>3, <1>4 DEF IsPower
  <1> QED  BY <1>5

\* Power multiplies by the base.
LEMMA PowerDef ==
    ASSUME NEW n \in Nat
    PROVE  \E power \in [0..n -> Nat] :
                /\ power[0] = 1
                /\ \A i \in 1..n : power[i] = power[i - 1] * ByteBase
                /\ Power(n) = power[n]
  <1> DEFINE power == CHOOSE f : IsPower(f, n)
             step == [i \in 1..n |-> [v \in Nat |-> v * ByteBase]]
  <1>1. Power(n) = power[n]
    BY DEF Power, IsPower
  <1>2. IsPower(power, n)
    BY PowerExists
  <1> HIDE DEF power
  <1>3. /\ power[0] = 1
        /\ \A i \in 1..n : power[i] = power[i - 1] * ByteBase
    <2>1. \A i \in 0..n : power[i] = IF i = 0 THEN 1 ELSE power[i - 1] * ByteBase
      BY <1>2, Zenon DEF IsPower
    <2>2. 0 \in 0..n /\ \A i \in 1..n : i \in 0..n /\ i # 0
      OBVIOUS
    <2> QED  BY <2>1, <2>2, Zenon
  <1>4. power = [i \in 0..n |-> power[i]]
    BY <1>2, Zenon DEF IsPower
  <1>5. Iterates(power, n, Nat, 1, step)
    <2>1. step \in [1..n -> [Nat -> Nat]]
      BY Digits
    <2>2. \A i \in 1..n : power[i - 1] \in Nat => power[i] = step[i][power[i - 1]]
      BY <1>3
    <2> HIDE DEF step
    <2> QED  BY <1>3, <1>4, <2>1, <2>2, IterationStays
  <1> QED  BY <1>1, <1>3, <1>5 DEF Iterates

\* Powers are naturals.
LEMMA PowerType == \A n \in Nat : Power(n) \in Nat
  <1> SUFFICES ASSUME NEW n \in Nat PROVE Power(n) \in Nat
    OBVIOUS
  <1>1. PICK power \in [0..n -> Nat] : Power(n) = power[n]
    BY PowerDef
  <1> QED  BY <1>1

----------------------------------------------------------------------------
\* A number is written in exactly the bytes it is given.
LEMMA ToBytesType ==
    ASSUME NEW n \in Nat, NEW width \in Nat
    PROVE  ToBytes(n, width) \in Seq(Bytes) /\ Len(ToBytes(n, width)) = width
  <1>1. PICK rest \in [0..width -> Nat] :
            ToBytes(n, width) = [i \in 1..width |-> rest[width - i] % ByteBase]
    BY RestDef
  <1>2. ASSUME NEW i \in 1..width PROVE rest[width - i] % ByteBase \in Bytes
    <2>1. width - i \in 0..width
      OBVIOUS
    <2> QED  BY <2>1, Digits
  <1>3. ToBytes(n, width) \in [1..width -> Bytes]
    BY <1>1, <1>2
  <1> QED  BY <1>3

\* What so many bytes spell is below that power of the base: the reason why no
\* length field can declare a payload as long as the power itself.
LEMMA FromBytesBound ==
    ASSUME NEW bytes \in Seq(Bytes)
    PROVE  FromBytes(bytes) \in Nat /\ FromBytes(bytes) < Power(Len(bytes))
  <1> DEFINE width == Len(bytes)
  <1>0. width \in Nat
    OBVIOUS
  <1>1. PICK number \in [0..width -> Nat] :
            /\ number[0] = 0
            /\ \A i \in 1..width : number[i] = number[i - 1] * ByteBase + bytes[i]
            /\ FromBytes(bytes) = number[width]
    BY NumberDef
  <1>2. PICK power \in [0..width -> Nat] :
            /\ power[0] = 1
            /\ \A i \in 1..width : power[i] = power[i - 1] * ByteBase
            /\ Power(width) = power[width]
    BY <1>0, PowerDef
  <1> DEFINE S == {i \in 0..width : number[i] < power[i]}
  <1>3. 0 \in S
    BY <1>0, <1>1, <1>2
  <1>4. ASSUME NEW i \in 1..width, i - 1 \in S PROVE i \in S
    <2>1. /\ number[i - 1] \in Nat /\ power[i - 1] \in Nat
          /\ number[i - 1] < power[i - 1] /\ bytes[i] \in Bytes
      BY <1>4
    <2>2. number[i - 1] * ByteBase + bytes[i] < power[i - 1] * ByteBase
      BY <2>1, Digits
    <2> QED  BY <1>1, <1>2, <2>2
  <1>5. 0..width \subseteq S
    <2> HIDE DEF S
    <2> QED  BY <1>0, <1>3, <1>4, Upward
  <1> QED  BY <1>0, <1>1, <1>2, <1>5

\* A number that fits the width is read back: after that many divisions nothing
\* is left, and each read step undoes one of them.
LEMMA WriteThenRead ==
    ASSUME NEW n \in Nat, NEW width \in Nat, n < Power(width)
    PROVE  FromBytes(ToBytes(n, width)) = n
  <1> DEFINE bytes == ToBytes(n, width)
  <1>1. bytes \in Seq(Bytes) /\ Len(bytes) = width
    BY ToBytesType
  <1>2. PICK rest \in [0..width -> Nat] :
            /\ rest[0] = n
            /\ \A i \in 1..width : rest[i] = rest[i - 1] \div ByteBase
            /\ bytes = [i \in 1..width |-> rest[width - i] % ByteBase]
    BY RestDef
  <1>3. PICK power \in [0..width -> Nat] :
            /\ power[0] = 1
            /\ \A i \in 1..width : power[i] = power[i - 1] * ByteBase
            /\ Power(width) = power[width]
    BY PowerDef
  <1> HIDE DEF bytes
  <1>4. PICK number \in [0..width -> Nat] :
            /\ number[0] = 0
            /\ \A i \in 1..width : number[i] = number[i - 1] * ByteBase + bytes[i]
            /\ FromBytes(bytes) = number[width]
    BY <1>1, NumberDef
  <1>5. rest[width] = 0
    <2> DEFINE S == {i \in 0..width : rest[i] < power[width - i]}
    <2>1. 0 \in S
      BY <1>2, <1>3
    <2>2. ASSUME NEW i \in 1..width, i - 1 \in S PROVE i \in S
      <3>1. /\ i - 1 \in 0..width /\ width - i \in 0..width
            /\ width - (i - 1) \in 1..width /\ width - (i - 1) - 1 = width - i
        OBVIOUS
      <3>2. rest[i - 1] < power[width - i] * ByteBase
        BY <1>3, <2>2, <3>1
      <3>3. rest[i - 1] \div ByteBase < power[width - i]
        BY <3>1, <3>2, Digits
      <3> QED  BY <1>2, <3>3
    <2>3. 0..width \subseteq S
      <3> HIDE DEF S
      <3> QED  BY <2>1, <2>2, Upward
    <2>4. rest[width] < power[0] /\ rest[width] \in Nat
      BY <2>3
    <2> QED  BY <1>3, <2>4
  <1> DEFINE S == {i \in 0..width : number[i] = rest[width - i]}
  <1>6. 0 \in S
    BY <1>4, <1>5
  <1>7. ASSUME NEW i \in 1..width, i - 1 \in S PROVE i \in S
    <2>1. /\ width - (i - 1) \in 1..width /\ width - (i - 1) - 1 = width - i
          /\ width - i \in 0..width
      OBVIOUS
    <2>2. number[i - 1] = rest[width - i] \div ByteBase
      BY <1>2, <1>7, <2>1
    <2>3. bytes[i] = rest[width - i] % ByteBase
      BY <1>2
    <2>4. rest[width - i] = number[i - 1] * ByteBase + bytes[i]
      BY <2>1, <2>2, <2>3, Digits
    <2> QED  BY <1>4, <2>4
  <1>8. 0..width \subseteq S
    <2> HIDE DEF S
    <2> QED  BY <1>6, <1>7, Upward
  <1> QED  BY <1>2, <1>4, <1>8 DEF bytes

\* Bytes are read into the number that is written as those bytes again: no two
\* spellings of a number, leading zeros included, have the same width.
LEMMA ReadThenWrite ==
    ASSUME NEW bytes \in Seq(Bytes)
    PROVE  ToBytes(FromBytes(bytes), Len(bytes)) = bytes
  <1> DEFINE width == Len(bytes)
             n == FromBytes(bytes)
  <1>0. width \in Nat /\ n \in Nat
    BY FromBytesBound
  <1>1. PICK number \in [0..width -> Nat] :
            /\ number[0] = 0
            /\ \A i \in 1..width : number[i] = number[i - 1] * ByteBase + bytes[i]
            /\ n = number[width]
    BY NumberDef
  <1> HIDE DEF n
  <1>2. PICK rest \in [0..width -> Nat] :
            /\ rest[0] = n
            /\ \A i \in 1..width : rest[i] = rest[i - 1] \div ByteBase
            /\ ToBytes(n, width) =
                    [i \in 1..width |-> rest[width - i] % ByteBase]
    BY <1>0, RestDef
  <1> DEFINE S == {i \in 0..width : rest[i] = number[width - i]}
  <1>3. 0 \in S
    BY <1>0, <1>1, <1>2
  <1>4. ASSUME NEW i \in 1..width, i - 1 \in S PROVE i \in S
    <2>1. /\ width - (i - 1) \in 1..width /\ width - (i - 1) - 1 = width - i
          /\ width - i \in 0..width
      BY <1>0
    <2>2. rest[i - 1] = number[width - i] * ByteBase + bytes[width - (i - 1)]
      BY <1>1, <1>4, <2>1
    <2>3. bytes[width - (i - 1)] \in Bytes /\ number[width - i] \in Nat
      BY <2>1
    <2>4. rest[i - 1] \div ByteBase = number[width - i]
      BY <2>2, <2>3, Digits
    <2> QED  BY <1>2, <2>4
  <1>5. 0..width \subseteq S
    <2> HIDE DEF S, width
    <2> QED  BY <1>0, <1>3, <1>4, Upward
  <1>6. ASSUME NEW i \in 1..width PROVE rest[width - i] % ByteBase = bytes[i]
    <2>1. /\ width - i \in 0..width /\ width - (width - i) = i
          /\ i - 1 \in 0..width
      BY <1>0
    <2>2. rest[width - i] = number[i - 1] * ByteBase + bytes[i]
      BY <1>1, <1>5, <2>1
    <2>3. bytes[i] \in Bytes /\ number[i - 1] \in Nat
      BY <2>1
    <2>4. (number[i - 1] * ByteBase + bytes[i]) % ByteBase = bytes[i]
      BY <2>3, Digits
    <2> QED  BY <2>2, <2>4
  <1>7. bytes = [i \in 1..width |-> bytes[i]]
    OBVIOUS
  <1> QED  BY <1>2, <1>6, <1>7 DEF n

----------------------------------------------------------------------------
\* Each variant has a tag byte of its own.
LEMMA TagFacts ==
    /\ DOMAIN TagByte = {"Utf8", "Bytes", "U16", "U32", "U64"}
    /\ DOMAIN FixedWidth = {"U16", "U32", "U64"}
    /\ \A t \in DOMAIN FixedWidth : FixedWidth[t] \in Nat
    /\ \A t \in DOMAIN TagByte : TagByte[t] \in Bytes
    /\ \A t, u \in DOMAIN TagByte : TagByte[t] = TagByte[u] => t = u
  <1>1. /\ DOMAIN TagByte = {"Utf8", "Bytes", "U16", "U32", "U64"}
        /\ DOMAIN FixedWidth = {"U16", "U32", "U64"}
    BY DEF TagByte, FixedWidth
  <1>2. \A t \in DOMAIN FixedWidth : FixedWidth[t] \in Nat
    BY DEF FixedWidth
  <1>3. \A t \in DOMAIN TagByte : TagByte[t] \in Bytes
    BY Digits DEF TagByte, Bytes
  <1>4. \A t, u \in DOMAIN TagByte : TagByte[t] = TagByte[u] => t = u
    BY DEF TagByte
  <1> QED  BY <1>1, <1>2, <1>3, <1>4

\* A value has one variant and one content.
LEMMA ValueFacts ==
    ASSUME NEW t, NEW c
    PROVE  Tag(Value(t, c)) = t /\ Content(Value(t, c)) = c
  <1>1. DOMAIN Value(t, c) = {t} /\ Value(t, c)[t] = c
    BY DEF Value
  <1>2. Tag(Value(t, c)) = t
    BY <1>1 DEF Tag
  <1> QED  BY <1>1, <1>2 DEF Content

\* What content a variant may have.
IsValue(t, c) ==
    /\ t \in DOMAIN TagByte
    /\ IF t \in DOMAIN FixedWidth THEN c \in Nat /\ c < Power(FixedWidth[t])
       ELSE c \in Seq(Bytes)
    /\ t = "Utf8" => \A i \in DOMAIN c : c[i] \notin NotUtf8

\* Each of the values is a content under a variant it may have.
LEMMA ValuesAreValues ==
    ASSUME NEW value \in AllValues
    PROVE  \E t, c : value = Value(t, c) /\ IsValue(t, c)
  <1>0. Payloads \subseteq Seq(Bytes)
    BY ByteStrings DEF ByteStrings
  <1>1. CASE \E c \in Payloads : /\ value = Value("Utf8", c)
                                 /\ \A i \in DOMAIN c : c[i] \notin NotUtf8
    BY <1>0, <1>1, TagFacts DEF IsValue
  <1>2. CASE \E c \in Payloads : value = Value("Bytes", c)
    BY <1>0, <1>2, TagFacts DEF IsValue
  <1>3. CASE \E t \in DOMAIN FixedWidth :
                \E c \in 0..Power(FixedWidth[t]) - 1 : value = Value(t, c)
    <2>0. PICK t \in DOMAIN FixedWidth :
                \E c \in 0..Power(FixedWidth[t]) - 1 : value = Value(t, c)
      BY <1>3
    <2>1. PICK c \in 0..Power(FixedWidth[t]) - 1 : value = Value(t, c)
      BY <2>0
    <2>2. Power(FixedWidth[t]) \in Nat
      BY TagFacts, PowerType
    <2>3. c \in Nat /\ c < Power(FixedWidth[t]) /\ t \in DOMAIN TagByte
          /\ t # "Utf8"
      BY <2>2, TagFacts
    <2> QED  BY <2>1, <2>3 DEF IsValue
  <1> QED
    BY <1>1, <1>2, <1>3 DEF AllValues, Values

\* A payload is a byte string from which the content can be had again.
LEMMA PayloadFacts ==
    ASSUME NEW t, NEW c, IsValue(t, c)
    PROVE  LET p == Payload(Value(t, c)) IN
           /\ p \in Seq(Bytes)
           /\ IF t \in DOMAIN FixedWidth
              THEN Len(p) = FixedWidth[t] /\ FromBytes(p) = c
              ELSE p = c
  <1>1. CASE t \in DOMAIN FixedWidth
    <2>1. Payload(Value(t, c)) = ToBytes(c, FixedWidth[t])
      BY <1>1, ValueFacts DEF Payload
    <2>2. c \in Nat /\ c < Power(FixedWidth[t]) /\ FixedWidth[t] \in Nat
      BY <1>1, TagFacts DEF IsValue
    <2> QED  BY <1>1, <2>1, <2>2, ToBytesType, WriteThenRead
  <1>2. CASE t \notin DOMAIN FixedWidth
    BY <1>2, ValueFacts DEF Payload, IsValue
  <1> QED  BY <1>1, <1>2

\* An encoding falls apart into tag, length field and payload.
LEMMA EncodeParts ==
    ASSUME NEW t, NEW c, IsValue(t, c)
    PROVE  LET p == Payload(Value(t, c))
               e == Encode(Value(t, c))
           IN  /\ e \in Seq(Bytes)
               /\ Len(e) = HEADER_LEN + Len(p)
               /\ e[1] = TagByte[t]
               /\ SubSeq(e, 2, HEADER_LEN) = ToBytes(Len(p), LenBytes)
               /\ SubSeq(e, HEADER_LEN + 1, Len(e)) = p
  <1> DEFINE p == Payload(Value(t, c))
             e == Encode(Value(t, c))
             tag == TagByte[t]
             length == ToBytes(Len(p), LenBytes)
  <1>1. p \in Seq(Bytes)
    BY PayloadFacts
  <1>2. length \in Seq(Bytes) /\ Len(length) = LenBytes
    <2>1. Len(p) \in Nat
      BY <1>1
    <2> QED  BY <2>1, Digits, ToBytesType
  <1>3. tag \in Bytes
    BY TagFacts DEF IsValue
  <1>4. e = <<tag>> \o length \o p
    BY ValueFacts DEF Encode
  <1>5. LenBytes \in Nat /\ HEADER_LEN = 1 + LenBytes
    BY Digits DEF HEADER_LEN
  <1> HIDE DEF p, e, tag, length, HEADER_LEN
  <1>6. e \in Seq(Bytes) /\ Len(e) = HEADER_LEN + Len(p) /\ e[1] = tag
    <2>1. <<tag>> \in Seq(Bytes) /\ Len(<<tag>>) = 1
      BY <1>3
    <2>2. /\ <<tag>> \o length \in Seq(Bytes)
          /\ Len(<<tag>> \o length) = HEADER_LEN
      BY <2>1, <1>2, <1>5
    <2>3. e \in Seq(Bytes) /\ Len(e) = HEADER_LEN + Len(p)
      BY <2>2, <1>1, <1>4
    <2>4. e[1] = tag
      BY <1>1, <1>2, <1>3, <1>4, <1>5
    <2> QED  BY <2>3, <2>4
  <1>7. SubSeq(e, 2, HEADER_LEN) = length
    BY <1>1, <1>2, <1>3, <1>4, <1>5
  <1>8. SubSeq(e, HEADER_LEN + 1, Len(e)) = p
    BY <1>1, <1>2, <1>3, <1>4, <1>5, <1>6
  <1> QED  BY <1>6, <1>7, <1>8 DEF p, e, tag, length

\* What a tag and a payload decode to.
\* What a payload of the declared length decodes to under a known tag.
LEMMA DecodePayloadFacts ==
    ASSUME NEW t, NEW p
    PROVE  /\ (t \in DOMAIN FixedWidth /\ Len(p) # FixedWidth[t]) =>
                DecodePayload(t, p) = Err("WrongWidth")
           /\ (t \in DOMAIN FixedWidth /\ Len(p) = FixedWidth[t]) =>
                DecodePayload(t, p) = Ok(Value(t, FromBytes(p)))
           /\ (t = "Utf8" /\ \E i \in DOMAIN p : p[i] \in NotUtf8) =>
                DecodePayload(t, p) = Err("TruncatedValue")
           /\ (/\ t \notin DOMAIN FixedWidth
               /\ t = "Utf8" => \A i \in DOMAIN p : p[i] \notin NotUtf8) =>
                DecodePayload(t, p) = Ok(Value(t, p))
  <1>1. "Utf8" \notin DOMAIN FixedWidth
    BY TagFacts
  <1> QED  BY <1>1 DEF DecodePayload

\* The outcomes of a read are told apart.
LEMMA OkIsNotErr ==
    ASSUME NEW v, NEW w, NEW kind
    PROVE  /\ Ok(v) # Err(kind) /\ Ok(v) # None /\ Err(kind) # None
           /\ Ok(v) = Ok(w) => v = w
  BY DEF Ok, Err, None

\* Bytes never decode to absence.
LEMMA DecodeAnswers ==
    ASSUME NEW blob
    PROVE  Decode(blob) # None
  <1>1. \A t, p : DecodePayload(t, p) # None
    BY DecodePayloadFacts, OkIsNotErr
  <1> QED  BY <1>1, OkIsNotErr DEF Decode

\* Decode inverts Encode where the payload's length fits its field; where it
\* does not, the field declares less than there is, and decoding says so.
LEMMA DecodesEncoded ==
    ASSUME NEW t, NEW c, IsValue(t, c)
    PROVE  Decode(Encode(Value(t, c))) =
                IF Fits(Value(t, c)) THEN Ok(Value(t, c))
                ELSE Err("LengthMismatch")
  <1> DEFINE p == Payload(Value(t, c))
             e == Encode(Value(t, c))
  <1>1. p \in Seq(Bytes) /\ Len(p) \in Nat
    BY PayloadFacts
  <1>2. /\ e \in Seq(Bytes)
        /\ Len(e) = HEADER_LEN + Len(p)
        /\ e[1] = TagByte[t]
        /\ SubSeq(e, 2, HEADER_LEN) = ToBytes(Len(p), LenBytes)
        /\ SubSeq(e, HEADER_LEN + 1, Len(e)) = p
    BY EncodeParts
  <1>3. HEADER_LEN \in Nat /\ ~(Len(e) < HEADER_LEN)
    BY <1>1, <1>2, Digits DEF HEADER_LEN
  <1>4. Header(e).tags = {t} /\ (CHOOSE u \in Header(e).tags : TRUE) = t
    <2>1. {u \in DOMAIN TagByte : TagByte[u] = e[1]} = {t}
      BY <1>2, TagFacts DEF IsValue
    <2> HIDE DEF e
    <2>2. Header(e).tags = {t}
      BY <2>1 DEF Header
    <2> QED  BY <2>2
  <1>5. Header(e).declared = FromBytes(ToBytes(Len(p), LenBytes))
    BY <1>2 DEF Header
  <1>6. Decode(e) = IF Len(p) # Header(e).declared THEN Err("LengthMismatch")
                    ELSE DecodePayload(t, p)
    <2> HIDE DEF e, p
    <2> QED  BY <1>2, <1>3, <1>4 DEF Decode
  <1>7. CASE Fits(Value(t, c))
    <2>1. Len(p) = Header(e).declared
      BY <1>1, <1>5, <1>7, Digits, WriteThenRead DEF Fits
    <2>2. DecodePayload(t, p) = Ok(Value(t, c))
      BY PayloadFacts, DecodePayloadFacts DEF IsValue
    <2> QED  BY <1>6, <1>7, <2>1, <2>2
  <1>8. CASE ~Fits(Value(t, c))
    <2>1. /\ ToBytes(Len(p), LenBytes) \in Seq(Bytes)
          /\ Len(ToBytes(Len(p), LenBytes)) = LenBytes
      BY <1>1, Digits, ToBytesType
    <2>2. /\ Header(e).declared \in Nat
          /\ Header(e).declared < Power(LenBytes)
      BY <1>5, <2>1, FromBytesBound
    <2>3. Len(p) # Header(e).declared
      BY <1>1, <1>8, <2>2, Digits, PowerType DEF Fits
    <2> QED  BY <1>6, <1>8, <2>3
  <1> QED  BY <1>7, <1>8

\* No byte string but its encoding decodes to a value.
LEMMA OnlyItsEncodingDecodes ==
    ASSUME NEW t, NEW c, IsValue(t, c), NEW blob \in Seq(Bytes),
           Decode(blob) = Ok(Value(t, c))
    PROVE  Encode(Value(t, c)) = blob
  <1> DEFINE declared == SubSeq(blob, 2, HEADER_LEN)
             p == SubSeq(blob, HEADER_LEN + 1, Len(blob))
             u == CHOOSE v \in Header(blob).tags : TRUE
  <1>0. /\ HEADER_LEN = 1 + LenBytes /\ LenBytes \in Nat /\ HEADER_LEN \in Nat
        /\ LenBytes > 0 /\ Len(blob) \in Nat
    BY Digits DEF HEADER_LEN
  <1>1. /\ ~(Len(blob) < HEADER_LEN)
        /\ Header(blob).tags # {}
        /\ Len(p) = Header(blob).declared
        /\ DecodePayload(u, p) = Ok(Value(t, c))
    BY OkIsNotErr DEF Decode
  <1>2. u \in DOMAIN TagByte /\ TagByte[u] = blob[1]
    <2>1. u \in Header(blob).tags
      BY <1>1
    <2> HIDE DEF u
    <2> QED  BY <2>1 DEF Header
  <1>3. /\ declared \in Seq(Bytes) /\ Len(declared) = LenBytes
        /\ p \in Seq(Bytes) /\ Len(p) \in Nat
    BY <1>0, <1>1
  <1>4. ToBytes(Len(p), LenBytes) = declared
    BY <1>1, <1>3, ReadThenWrite DEF Header
  <1>5. u = t /\ Payload(Value(t, c)) = p
    <2> HIDE DEF u, p
    <2>1. CASE u \in DOMAIN FixedWidth
      <3>1. Len(p) = FixedWidth[u] /\ Value(t, c) = Value(u, FromBytes(p))
        BY <1>1, <2>1, DecodePayloadFacts, OkIsNotErr
      <3>2. u = t /\ c = FromBytes(p)
        BY <3>1, ValueFacts
      <3>3. Payload(Value(t, c)) = ToBytes(FromBytes(p), Len(p))
        BY <2>1, <3>1, <3>2, ValueFacts DEF Payload
      <3> QED  BY <1>3, <3>2, <3>3, ReadThenWrite
    <2>2. CASE u \notin DOMAIN FixedWidth
      <3>1. Value(t, c) = Value(u, p)
        BY <1>1, <2>2, DecodePayloadFacts, OkIsNotErr
      <3>2. u = t /\ c = p
        BY <3>1, ValueFacts
      <3> QED  BY <2>2, <3>2, ValueFacts DEF Payload
    <2> QED  BY <2>1, <2>2
  <1>6. Encode(Value(t, c)) = <<blob[1]>> \o declared \o p
    BY <1>2, <1>4, <1>5, ValueFacts DEF Encode
  <1>7. blob = <<blob[1]>> \o declared \o p
    <2>1. HEADER_LEN <= Len(blob) /\ 1 <= Len(blob) /\ 2 <= HEADER_LEN
      BY <1>0, <1>1
    <2> HIDE DEF u, p, declared
    <2>2. SubSeq(blob, 1, 1) = <<blob[1]>>
      <3>1. blob[1] \in Bytes /\ 1 \in Int /\ \A i \in 1..1 : blob[i] \in Bytes
        BY <2>1, <1>0
      <3>2. /\ SubSeq(blob, 1, 1) \in Seq(Bytes) /\ Len(SubSeq(blob, 1, 1)) = 1
            /\ SubSeq(blob, 1, 1)[1] = blob[1]
        BY <3>1, SubSeqProperties
      <3>3. \A s \in Seq(Bytes) : Len(s) = 1 => s = <<s[1]>>
        OBVIOUS
      <3>4. SubSeq(blob, 1, 1) = <<SubSeq(blob, 1, 1)[1]>>
        BY <3>2, <3>3, Zenon
      <3> QED  BY <3>2, <3>4, Zenon
    <2>3. SubSeq(blob, 1, 1) \o SubSeq(blob, 2, HEADER_LEN)
            = SubSeq(blob, 1, HEADER_LEN)
      <3>1. /\ 1 \in 1..Len(blob) + 1 /\ 1 \in 1 - 1..Len(blob)
            /\ HEADER_LEN \in 1..Len(blob) /\ 1 + 1 = 2
        BY <2>1, <1>0
      <3> QED  BY <3>1, ConcatAdjacentSubSeq
    <2>4. SubSeq(blob, 1, HEADER_LEN) \o SubSeq(blob, HEADER_LEN + 1, Len(blob))
            = SubSeq(blob, 1, Len(blob))
      <3>1. /\ 1 \in 1..Len(blob) + 1 /\ HEADER_LEN \in 1 - 1..Len(blob)
            /\ Len(blob) \in HEADER_LEN..Len(blob)
        BY <2>1, <1>0
      <3> QED  BY <3>1, ConcatAdjacentSubSeq
    <2>5. SubSeq(blob, 1, Len(blob)) = blob
      BY SubSeqFull
    <2> QED  BY <2>2, <2>3, <2>4, <2>5 DEF declared, p
  <1> QED  BY <1>6, <1>7

----------------------------------------------------------------------------
\* The slot holds what the last write leaves there.
WroteThat ==
    \/ wrote = None /\ leaf = <<>>
    \/ \E value \in AllValues : wrote = [value |-> value] /\ leaf = Encode(value)
    \/ \E blob \in Blobs : wrote = [blob |-> blob] /\ leaf = blob

\* WroteThat is inductive.
LEMMA Invariant == Spec => []WroteThat
  <1>1. Init => WroteThat
    BY DEF Init, WroteThat
  <1>2. WroteThat /\ [Next]_vars => WroteThat'
    <2> SUFFICES ASSUME WroteThat, [Next]_vars PROVE WroteThat'
      OBVIOUS
    <2>1. ASSUME NEW value \in AllValues, Set(value) PROVE WroteThat'
      BY <2>1 DEF Set, WroteThat
    <2>2. ASSUME NEW blob \in Blobs, SetEncoded(blob) PROVE WroteThat'
      BY <2>2 DEF SetEncoded, WroteThat
    <2>3. CASE Remove
      BY <2>3 DEF Remove, WroteThat
    <2>4. CASE UNCHANGED vars
      BY <2>4 DEF vars, WroteThat
    <2> QED  BY <2>1, <2>2, <2>3, <2>4 DEF Next
  <1> QED  BY <1>1, <1>2, PTL DEF Spec

\* Whoever wrote it, the slot holds bytes.
LEMMA LeafType == WroteThat => leaf \in Seq(Bytes)
  <1>1. <<>> \in Seq(Bytes)
    OBVIOUS
  <1>2. Blobs \subseteq Seq(Bytes)
    BY ByteStrings DEF ByteStrings
  <1>3. ASSUME NEW value \in AllValues PROVE Encode(value) \in Seq(Bytes)
    BY ValuesAreValues, EncodeParts
  <1> QED  BY <1>1, <1>2, <1>3 DEF WroteThat

\* Every value written is read back as that value, or as a length error if its
\* payload outgrew the length field, and absence means a removal.
THEOREM WritesAreReadBack == Spec => []ReadsBack
  <1>1. WroteThat => ReadsBack
    <2> SUFFICES ASSUME WroteThat PROVE ReadsBack
      OBVIOUS
    <2>1. CASE wrote = None /\ leaf = <<>>
      <3>1. "value" \notin DOMAIN wrote
        BY <2>1 DEF None
      <3>2. Get = None
        BY <2>1 DEF Get
      <3> QED  BY <2>1, <3>1, <3>2 DEF ReadsBack
    <2>2. ASSUME NEW value \in AllValues,
                 wrote = [value |-> value], leaf = Encode(value)
          PROVE  ReadsBack
      <3>1. PICK t, c : value = Value(t, c) /\ IsValue(t, c)
        BY ValuesAreValues
      <3>2. leaf # <<>>
        <4>1. /\ Payload(value) \in Seq(Bytes)
              /\ Len(leaf) = HEADER_LEN + Len(Payload(value))
          BY <2>2, <3>1, EncodeParts, PayloadFacts
        <4>2. Len(leaf) > 0
          BY <4>1, Digits DEF HEADER_LEN
        <4> QED  BY <4>2
      <3>3. Get = IF Fits(value) THEN Ok(value) ELSE Err("LengthMismatch")
        BY <2>2, <3>1, <3>2, DecodesEncoded DEF Get
      <3>4. Get # None
        BY <3>3, OkIsNotErr
      <3>5. wrote \notin {None, [blob |-> <<>>]} /\ wrote.value = value
        BY <2>2 DEF None
      <3> QED  BY <3>3, <3>4, <3>5 DEF ReadsBack
    <2>3. ASSUME NEW blob \in Blobs, wrote = [blob |-> blob], leaf = blob
          PROVE  ReadsBack
      <3>1. "value" \notin DOMAIN wrote /\ wrote # None
        BY <2>3 DEF None
      <3>2. wrote = [blob |-> <<>>] <=> leaf = <<>>
        BY <2>3
      <3>3. leaf # <<>> => Get # None
        BY DecodeAnswers DEF Get
      <3>4. leaf = <<>> => Get = None
        BY DEF Get
      <3> QED  BY <3>1, <3>2, <3>3, <3>4 DEF ReadsBack
    <2> QED  BY <2>1, <2>2, <2>3 DEF WroteThat
  <1> QED  BY <1>1, Invariant, PTL

\* A value is read exactly where a verifier's own encoding of it is what the
\* slot holds, after any sequence of writes, relayed bytes included.
THEOREM ReadersAgreeWithVerifiers == Spec => []ReadersAndVerifiersAgree
  <1>1. WroteThat => ReadersAndVerifiersAgree
    <2> SUFFICES ASSUME WroteThat, NEW value \in AllValues, Fits(value)
                 PROVE  Get = Ok(value) <=> Encode(value) = leaf
      BY DEF ReadersAndVerifiersAgree
    <2>1. PICK t, c : value = Value(t, c) /\ IsValue(t, c)
      BY ValuesAreValues
    <2>2. ASSUME Get = Ok(value) PROVE Encode(value) = leaf
      <3>1. Decode(leaf) = Ok(value)
        BY <2>2, OkIsNotErr DEF Get
      <3> QED  BY <2>1, <3>1, LeafType, OnlyItsEncodingDecodes
    <2>3. ASSUME Encode(value) = leaf PROVE Get = Ok(value)
      <3>1. leaf # <<>>
        <4>1. /\ Payload(value) \in Seq(Bytes)
              /\ Len(leaf) = HEADER_LEN + Len(Payload(value))
          BY <2>1, <2>3, EncodeParts, PayloadFacts
        <4>2. Len(leaf) > 0
          BY <4>1, Digits DEF HEADER_LEN
        <4> QED  BY <4>2
      <3> QED  BY <2>1, <2>3, <3>1, DecodesEncoded DEF Get
    <2> QED  BY <2>2, <2>3
  <1> QED  BY <1>1, Invariant, PTL
================================================================================
