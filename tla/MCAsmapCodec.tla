---------------------------- MODULE MCAsmapCodec ---------------------------
(***************************************************************************)
(* 3-bit IPv6 addresses, with 1-bit IPv4 addresses mapped under 01/2: every*)
(* map on all paths.  Each step is a list of one entry, or of two in an    *)
(* order that update_multi has to change.                                  *)
(***************************************************************************)
EXTENDS AsmapFile

CONSTANTS
    ListedAsn,   \* the ASNs of the entries
    Ipv6Asn      \* those of entries that say nothing about IPv4

MCMappedRange == <<0, 1>>

SaysNothingOfIpv4(path) ==
    \E i \in DOMAIN path : i <= MappedBits /\ path[i] # MCMappedRange[i]

OneLine == {<< <<p, asn>> >> : p \in Path, asn \in ListedAsn}
             \cup {<< <<p, asn>> >> : p \in {q \in Path : SaysNothingOfIpv4(q)}, asn \in Ipv6Asn}

(* An ASN that load_file takes from a text and the codec cannot encode. *)
TooLarge == {<< << <<1, 1, 1>>, ASN_MAX + 1>> >>}

(* The longer prefix first, and one prefix twice. *)
LongFirst == {<< << <<0, 1, 0>>, 1>>, << <<0>>, 0>> >>, << << <<1, 1>>, 1>>, << <<1, 1>>, 0>> >>}

(* No address assigned, and every other pair of addresses. *)
MCOtherMaps == {EmptyMap, << << <<1>>, <<0>> >>, << <<0>>, <<1>> >> >>}

MCEntryLists == OneLine \cup TooLarge \cup LongFirst

=============================================================================
