--------------------------- MODULE MCLedgerEntry ---------------------------
(***************************************************************************)
(* An instance of LedgerEntry: a pool with two owners, two delegators, a   *)
(* relay, metadata and a Leios key, and for every field values inside and  *)
(* outside what the schema allows.                                         *)
(***************************************************************************)
EXTENDS LedgerEntry

MCCredential(kind, b) == [kind |-> kind, hash |-> <<b>>]
MCInterval(n, d)      == [numerator |-> n, denominator |-> d]
MCMetadata(url)       == <<[url |-> url, hash |-> <<7>>]>>
MCLeiosKey            == <<[publicKey |-> <<8, 9>>, proof |-> <<8>>]>>

MCShared == [vrf |-> <<5>>, cost |-> <<1, 84>>, margin |-> MCInterval(<<1>>, <<2>>),
             owners |-> <<<<2>>, <<1>>>>, pledge |-> <<>>,
             relays |-> <<Relay(1, <<<<11, 185>>>>, <<>>, <<>>, <<97>>)>>,
             metadata |-> MCMetadata(<<97>>), leiosKey |-> MCLeiosKey]

MCSamplePool ==
  [state    |-> <<MCShared @@ [deposit |-> <<5>>, accountID |-> MCCredential(0, 1),
                               delegators |-> <<MCCredential(1, 1), MCCredential(0, 2)>>]>>,
   retiring |-> <<<<1, 244>>>>,
   future   |-> <<MCShared @@ [id |-> <<3>>, accountAddress |-> <<225, 1>>]>>]

MCRelays == {<<>>} \cup
  {<<Relay(kind, port, ipv4, ipv6, dns)>> :
     kind \in 0..3, port \in {<<>>, <<<<>>>>, <<<<255, 255>>>>}, ipv4 \in {<<>>, <<<<127>>>>},
     ipv6 \in {<<>>, <<<<0, 1>>>>}, dns \in {<<>>, <<97>>, <<97, 97>>}}

MCFieldValues ==
  [cost       |-> {<<>>, <<255, 255, 255, 255, 255, 255, 255, 255>>},
   margin     |-> {MCInterval(<<2>>, <<1>>), MCInterval(<<>>, <<>>), MCInterval(<<1>>, <<1>>),
                   MCInterval(<<255>>, <<1, 0>>)},
   owners     |-> {<<>>, <<<<1>>, <<2>>>>, <<<<1>>, <<1>>>>},
   relays     |-> MCRelays,
   metadata   |-> {<<>>, MCMetadata(<<>>), MCMetadata(<<97, 97>>)},
   leiosKey   |-> {<<>>},
   accountID  |-> {MCCredential(1, 1), MCCredential(2, 1)},
   delegators |-> {<<>>, <<MCCredential(0, 2), MCCredential(1, 1)>>,
                   <<MCCredential(0, 1), MCCredential(0, 1)>>, <<MCCredential(2, 1)>>},
   accountAddress |-> {<<>>}]

MCReplacements == {Null, Uint(<<>>), Uint(<<2>>), Uint(<<1, 0, 0>>), Bytes(<<1, 2>>),
                   Text(<<98, 98>>), Array(<<>>)}
=============================================================================
