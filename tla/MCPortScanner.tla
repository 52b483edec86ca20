---------------------------- MODULE MCPortScanner ---------------------------
(* PortScanner with the jobs that the hosts of a subnet and the ports give.  *)
EXTENDS PortScanner, Subnet, SequencesExt

CONSTANTS Address, Prefix,   (* options.subnet                             *)
          Locals,            (* localIpv4Addresses()                       *)
          ScanPorts          (* options.ports, in any order                *)

ASSUME LocationAssumption == Address \in Addresses /\ Prefix \in PrefixLengths

SubnetHosts == Hosts(Network(Address, Prefix), Prefix, Locals)
PortList == SetToSeq(ScanPorts)
AllJobs == Len(SubnetHosts) * Len(PortList)

ASSUME JobsAssumption == IsFiniteSet(ScanPorts) /\ JobCount = AllJobs

(* What the job of that number connects to (PortScannerSession::fill).      *)
Target(job) ==
    <<SubnetHosts[((job - 1) \div Len(PortList)) + 1], PortList[((job - 1) % Len(PortList)) + 1]>>

(* A scan that ends unstopped has tried every port of every usable address   *)
(* of the subnet but the machine's own, once each, and nothing else.         *)
SubnetScanned ==
    /\ HostsExact
    /\ EndMeansScanned
    /\ ended > 0 /\ ~stopped =>
         /\ {Target(j) : j \in Jobs} = (Usable(Address, Prefix) \ Locals) \X ScanPorts
         /\ Cardinality(Jobs) = Cardinality({Target(j) : j \in Jobs})
=============================================================================
