----------------------------- MODULE AddressMath -----------------------------
(***************************************************************************)
(* The operator's arithmetic on addresses, over a parameterised width: an  *)
(* address has Bytes bytes of ByteBits bits (16 of 8 in the code) and is   *)
(* the number they spell, which is how netip compares addresses and        *)
(* big.Int computes with them; As16 gives the bytes the byte-wise loops    *)
(* work on, most significant first.  An operation that fails returns None. *)
(***************************************************************************)
EXTENDS Integers, FiniteSets

CONSTANTS ByteBits, Bytes, None

Width == ByteBits * Bytes
\* The powers of two that occur, big.Int's 1 << n.
pow2 ==
    LET lsh[n \in 0..Width] == IF n = 0 THEN 1 ELSE 2 * lsh[n - 1]
    IN  [n \in 0..Width |-> lsh[n]]
Base == pow2[ByteBits]
Addresses == 0..(pow2[Width] - 1)
Prefixes == [addr : Addresses, bits : 0..Width]
Windows == [start : Addresses, end : Addresses]

ASSUME AddressMathConstants ==
    /\ ByteBits \in Nat \ {0} /\ Bytes \in Nat \ {0}
    /\ None \notin Addresses \cup Prefixes \cup Windows

As16(a) == [i \in 1..Bytes |-> (a \div pow2[ByteBits * (Bytes - i)]) % Base]
AddrFrom16(b) ==
    LET value[i \in 0..Bytes] == IF i = 0 THEN 0 ELSE value[i - 1] * Base + b[i]
    IN  value[Bytes]

Masked(p) == [p EXCEPT !.addr = @ - (@ % pow2[Width - p.bits])]
Contains(p, a) == Masked([p EXCEPT !.addr = a]) = Masked(p)
lastAddrOfPrefix(p) == Masked(p).addr + (pow2[Width - p.bits] - 1)
-----------------------------------------------------------------------------
(* Subnets and address ranges of a prefix. *)

\* CalculateSubnet with its limit on the offset one too high.
SubnetOffByOne(base, length, offset) ==
    IF \/ length < base.bits \/ length > Width
       \/ offset < 0 \/ offset > pow2[length - base.bits]
    THEN None
    ELSE [addr |-> (Masked(base).addr + offset * pow2[Width - length]) % pow2[Width], bits |-> length]

\* Subnet number offset of the given length.
CalculateSubnet(base, length, offset) ==
    IF \/ length < base.bits \/ length > Width
       \/ offset < 0 \/ offset >= pow2[length - base.bits]
    THEN None
    ELSE [addr |-> Masked(base).addr + offset * pow2[Width - length], bits |-> length]

\* The n most significant bits of a byte, and the others.
high(byte, n) == byte - (byte % pow2[ByteBits - n])
low(byte, n) == byte % pow2[ByteBits - n]

\* The prefix's bits, then the suffix's, with one byte shared between them if
\* the prefix ends inside it.
parseOffsetSuffix(base, suffix) ==
    LET fullBytes == base.bits \div ByteBits
        remainingBits == base.bits % ByteBits
        b == As16(Masked(base).addr)
        s == As16(suffix)
    IN  AddrFrom16([i \in 1..Bytes |->
            IF i <= fullBytes THEN b[i]
            ELSE IF i = fullBytes + 1 /\ remainingBits > 0
            THEN high(b[i], remainingBits) + low(s[i], remainingBits)
            ELSE s[i]])

CalculateAddressRange(base, first, last) ==
    LET start == parseOffsetSuffix(base, first)
        end == parseOffsetSuffix(base, last)
    IN  IF start > end \/ ~Contains(base, start) \/ ~Contains(base, end)
        THEN None ELSE [start |-> start, end |-> end]

\* The address of a Service in a prefix: byte by byte, like parseOffsetSuffix
\* but of the prefix as it is.
combinePrefixSuffix(p, suffix) ==
    LET b == As16(p.addr)
        s == As16(suffix)
        bitPos(i) == (i - 1) * ByteBits
    IN  AddrFrom16([i \in 1..Bytes |->
            IF bitPos(i) + ByteBits <= p.bits THEN b[i]
            ELSE IF bitPos(i) >= p.bits THEN s[i]
            ELSE high(b[i], p.bits - bitPos(i)) + low(s[i], p.bits - bitPos(i))])

\* The smallest CIDR around a range: whole bytes while they are equal, then the
\* leading bits the first different byte has in common.
RangeToCIDR(start, end) ==
    LET s == As16(start)
        e == As16(end)
        commonBits[i \in 1..(Bytes + 1)] ==
            IF i = Bytes + 1 THEN 0
            ELSE IF s[i] = e[i] THEN ByteBits + commonBits[i + 1]
            ELSE CHOOSE n \in 0..(ByteBits - 1) :
                    high(s[i], n) = high(e[i], n) /\ high(s[i], n + 1) # high(e[i], n + 1)
    IN  Masked([addr |-> start, bits |-> commonBits[1]])

\* The CIDR a range is, if it is one.
exactCIDRForAddressRange(start, end) ==
    LET cidr == RangeToCIDR(start, end)
    IN  IF cidr.addr = start /\ lastAddrOfPrefix(cidr) = end THEN cidr ELSE None
-----------------------------------------------------------------------------
(* A Service's address carried from one prefix to another. *)

\* calculateIPOffset without the borrow that passes through equal bytes.
offsetShortBorrow(base, target) ==
    LET b == As16(base)
        t == As16(target)
        borrow(i) == IF i <= Bytes /\ t[i] < b[i] THEN 1 ELSE 0
    IN  [offset |-> [i \in 1..Bytes |-> (t[i] - b[i] - borrow(i + 1)) % Base],
         ok |-> borrow(1) = 0]

\* target - base with a borrow from byte to byte, and whether it ran out.
calculateIPOffset(base, target) ==
    LET b == As16(base)
        t == As16(target)
        borrow[i \in 1..(Bytes + 1)] ==
            IF i = Bytes + 1 THEN 0
            ELSE IF t[i] < b[i] \/ (t[i] = b[i] /\ borrow[i + 1] = 1) THEN 1 ELSE 0
    IN  [offset |-> [i \in 1..Bytes |-> (t[i] - b[i] - borrow[i + 1]) % Base],
         ok |-> borrow[1] = 0]

applyIPOffset(base, offset) ==
    LET b == As16(base)
        sum(i, c) == b[i] + offset[i] + c
        carry[i \in 1..(Bytes + 1)] ==
            IF i = Bytes + 1 THEN 0 ELSE sum(i, carry[i + 1]) \div Base
    IN  [addr |-> AddrFrom16([i \in 1..Bytes |-> sum(i, carry[i + 1]) % Base]),
         ok |-> carry[1] = 0]

offsetAddressWithin(base, last, offset) ==
    LET applied == applyIPOffset(base, offset)
    IN  IF applied.ok /\ base <= applied.addr /\ applied.addr <= last
        THEN applied.addr ELSE None

\* What calculateAddressRangeIPs and calculateSubnetIPs make of an address
\* assigned in one window for another window of the same range or subnet.
historicalIP(current, hist, addr) ==
    LET distance == calculateIPOffset(current.start, addr)
    IN  IF distance.ok THEN offsetAddressWithin(hist.start, hist.end, distance.offset) ELSE None
-----------------------------------------------------------------------------
(* Reference definitions. *)

\* The address at a distance below the size of the prefix, counted modulo it.
Placed(p, suffix) ==
    LET size == pow2[Width - p.bits] IN (p.addr \div size) * size + (suffix % size)
AddressesOf(p) == Placed(p, 0)..Placed(p, -1)
IsCIDR(S) ==
    \E bits \in 0..Width :
        /\ Cardinality(S) = pow2[Width - bits]
        /\ \E a \in S : S = AddressesOf([addr |-> a, bits |-> bits])
=============================================================================
