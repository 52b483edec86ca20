------------------------------- MODULE Subnet -------------------------------
(***************************************************************************)
(* Subnet (src/common/Subnet.cpp): the network of a CIDR and the hosts of   *)
(* it that a scan tries.  An address is a number of Width bits (32 in the   *)
(* code), computed with as the code does; formatting is left out.           *)
(***************************************************************************)
EXTENDS Naturals, Sequences, FiniteSets, FiniteSetsExt

CONSTANT Width               (* bits of an address                         *)

ASSUME WidthAssumption == Width \in Nat \ {0, 1}

(* 1 << i, the value of bit i.                                              *)
Bit[i \in 0..Width] == IF i = 0 THEN 1 ELSE 2 * Bit[i - 1]

AddressCount == Bit[Width]
Addresses == 0..(AddressCount - 1)
PrefixLengths == 0..Width

IsSet(word, i) == (word \div Bit[i]) % 2 = 1

(* The word that has the bits both words have.                              *)
BitAnd(a, b) ==
    CHOOSE word \in Addresses : \A i \in 0..(Width - 1) : IsSet(word, i) <=> IsSet(a, i) /\ IsSet(b, i)

(* The all-ones word, shifted left in Width bits; not for prefix 0, where    *)
(* the shift would be as wide as the word.                                  *)
PrefixMask(prefix) ==
    IF prefix = 0 THEN 0 ELSE ((AddressCount - 1) * Bit[Width - prefix]) % AddressCount

Network(address, prefix) == BitAnd(address, PrefixMask(prefix))

(* Faulty: two addresses are left out of every network.                     *)
SkipAlways(prefix) == TRUE

(* Networks of two addresses and of one have no addresses of their own.      *)
SkipNetworkAndBroadcast(prefix) == prefix <= Width - 2

HostCount(prefix) ==
    Bit[Width - prefix] - (IF SkipNetworkAndBroadcast(prefix) THEN 2 ELSE 0)

(* hosts() throws.                                                         *)
ExceedsLimit(prefix, maxHosts) == HostCount(prefix) > maxHosts

(* hosts() of the network, on a machine that has the addresses locals: they  *)
(* are not scanned.  listed is the result after that many rounds.           *)
Hosts(network, prefix, locals) ==
    LET first == network + (IF SkipNetworkAndBroadcast(prefix) THEN 1 ELSE 0)
        listed[count \in 0..HostCount(prefix)] ==
            IF count = 0 THEN <<>>
            ELSE LET address == (first + (count - 1)) % AddressCount
                 IN  IF address \in locals THEN listed[count - 1]
                     ELSE Append(listed[count - 1], address)
    IN  listed[HostCount(prefix)]

-----------------------------------------------------------------------------
(* Properties.                                                             *)

(* The network as it is meant: the addresses that agree with the given one   *)
(* in their first prefix bits.                                             *)
Members(address, prefix) ==
    {a \in Addresses : a \div Bit[Width - prefix] = address \div Bit[Width - prefix]}

(* What is meant by its hosts: all but the lowest and the highest, where     *)
(* there are more than two.                                                *)
Usable(address, prefix) ==
    LET members == Members(address, prefix)
    IN  IF Cardinality(members) <= 2 THEN members ELSE members \ {Min(members), Max(members)}

(* For every address and every prefix, 0, 31 and 32 included: hosts() lists  *)
(* exactly the usable addresses that are not the machine's own, each once    *)
(* and in order, and refuses exactly the networks with more than the limit.  *)
HostsExact ==
    \A address \in Addresses, prefix \in PrefixLengths, locals \in SUBSET {1, 6, AddressCount - 2} :
        LET hosts == Hosts(Network(address, prefix), prefix, locals)
        IN  /\ Range(hosts) = Usable(address, prefix) \ locals
            /\ \A i \in 1..(Len(hosts) - 1) : hosts[i] < hosts[i + 1]
            /\ \A maxHosts \in 1..AddressCount :
                  ExceedsLimit(prefix, maxHosts) <=> Cardinality(Usable(address, prefix)) > maxHosts
=============================================================================
