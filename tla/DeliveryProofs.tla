--------------------------- MODULE DeliveryProofs ---------------------------
(* The address guard is exact: is_public_ip refuses an address exactly when a *)
(* special-purpose block contains it, or the address it embeds - for every    *)
(* IPv4 and IPv6 address, where a run can only try the edges.                 *)
(*                                                                            *)
(* For every set of handles, registrations and configurations, any number of  *)
(* wakes and any answers of resolvers: what a process serves passes its       *)
(* policy, no handle is lost without a reason, answers are true, and only     *)
(* listed hosts and public addresses are connected to.                        *)
EXTENDS Delivery, SequenceTheorems, TLAPS

LEMMA Powers ==
  2^1 = 2 /\ 2^4 = 16 /\ 2^6 = 64 /\ 2^7 = 128 /\ 2^8 = 256 /\ 2^9 = 512 /\ 2^12 = 4096
  BY SMT

LEMMA OctetTypes == ASSUME NEW o \in Address4 PROVE \A i \in 1..4 : o[i] \in 0..255
  BY ElementOfSeq DEF Address4

(* What each IPv4 block contains, by its octets. *)
LEMMA OctetBlocks ==
  ASSUME NEW o \in Address4
  PROVE  /\ Within(o, 8, Block(<<0>>, 8)) <=> o[1] = 0
         /\ Within(o, 8, Block(<<10>>, 8)) <=> o[1] = 10
         /\ Within(o, 8, Block(<<127>>, 8)) <=> o[1] = 127
         /\ Within(o, 8, Block(<<224>>, 4)) <=> o[1] \in 224..239
         /\ Within(o, 8, Block(<<240>>, 4)) <=> o[1] \in 240..255
<1>1. /\ Within(o, 8, Block(<<0>>, 8)) <=> o[1] = 0
      /\ Within(o, 8, Block(<<10>>, 8)) <=> o[1] = 10
      /\ Within(o, 8, Block(<<127>>, 8)) <=> o[1] = 127
  BY SMT DEF Within, Block, Address4
<1>2. /\ Within(o, 8, Block(<<224>>, 4)) <=> o[1] \in 224..239
      /\ Within(o, 8, Block(<<240>>, 4)) <=> o[1] \in 240..255
  <2>1. /\ Within(o, 8, Block(<<224>>, 4)) <=> o[1] \div 16 = 14
        /\ Within(o, 8, Block(<<240>>, 4)) <=> o[1] \div 16 = 15
    BY Powers, SMT DEF Within, Block
  <2>2. QED
    BY <2>1, OctetTypes
<1>3. QED
  BY <1>1, <1>2

LEMMA OctetPairBlocks ==
  ASSUME NEW o \in Address4
  PROVE  /\ Within(o, 8, Block(<<100, 64>>, 10)) <=> o[1] = 100 /\ o[2] \in 64..127
         /\ Within(o, 8, Block(<<169, 254>>, 16)) <=> o[1] = 169 /\ o[2] = 254
         /\ Within(o, 8, Block(<<172, 16>>, 12)) <=> o[1] = 172 /\ o[2] \in 16..31
         /\ Within(o, 8, Block(<<192, 168>>, 16)) <=> o[1] = 192 /\ o[2] = 168
         /\ Within(o, 8, Block(<<198, 18>>, 15)) <=> o[1] = 198 /\ o[2] \in {18, 19}
<1>1. Within(o, 8, Block(<<100, 64>>, 10)) <=> o[1] = 100 /\ o[2] \in 64..127
  <2>1. Within(o, 8, Block(<<100, 64>>, 10)) <=> o[1] = 100 /\ o[2] \div 64 = 1
    BY Powers, SMT DEF Within, Block
  <2>2. QED
    BY <2>1, OctetTypes
<1>2. Within(o, 8, Block(<<172, 16>>, 12)) <=> o[1] = 172 /\ o[2] \in 16..31
  <2>1. Within(o, 8, Block(<<172, 16>>, 12)) <=> o[1] = 172 /\ o[2] \div 16 = 1
    BY Powers, SMT DEF Within, Block
  <2>2. QED
    BY <2>1, OctetTypes
<1>3. Within(o, 8, Block(<<198, 18>>, 15)) <=> o[1] = 198 /\ o[2] \in {18, 19}
  <2>1. Within(o, 8, Block(<<198, 18>>, 15)) <=> o[1] = 198 /\ o[2] \div 2 = 9
    BY Powers, SMT DEF Within, Block
  <2>2. QED
    BY <2>1, OctetTypes
<1>4. /\ Within(o, 8, Block(<<169, 254>>, 16)) <=> o[1] = 169 /\ o[2] = 254
      /\ Within(o, 8, Block(<<192, 168>>, 16)) <=> o[1] = 192 /\ o[2] = 168
  BY SMT DEF Within, Block, Address4
<1>5. QED
  BY <1>1, <1>2, <1>3, <1>4

LEMMA OctetTripleBlocks ==
  ASSUME NEW o \in Address4
  PROVE  /\ Within(o, 8, Block(<<192, 0, 0>>, 24)) <=> o[1] = 192 /\ <<o[2], o[3]>> = <<0, 0>>
         /\ Within(o, 8, Block(<<192, 0, 2>>, 24)) <=> o[1] = 192 /\ <<o[2], o[3]>> = <<0, 2>>
         /\ Within(o, 8, Block(<<192, 88, 99>>, 24)) <=> o[1] = 192 /\ <<o[2], o[3]>> = <<88, 99>>
         /\ Within(o, 8, Block(<<198, 51, 100>>, 24)) <=> o[1] = 198 /\ <<o[2], o[3]>> = <<51, 100>>
         /\ Within(o, 8, Block(<<203, 0, 113>>, 24)) <=> o[1] = 203 /\ <<o[2], o[3]>> = <<0, 113>>
<1>1. /\ Within(o, 8, Block(<<192, 0, 0>>, 24)) <=> o[1] = 192 /\ <<o[2], o[3]>> = <<0, 0>>
      /\ Within(o, 8, Block(<<192, 0, 2>>, 24)) <=> o[1] = 192 /\ <<o[2], o[3]>> = <<0, 2>>
  BY SMT DEF Within, Block, Address4
<1>2. Within(o, 8, Block(<<192, 88, 99>>, 24)) <=> o[1] = 192 /\ <<o[2], o[3]>> = <<88, 99>>
  BY SMT DEF Within, Block, Address4
<1>3. /\ Within(o, 8, Block(<<198, 51, 100>>, 24)) <=> o[1] = 198 /\ <<o[2], o[3]>> = <<51, 100>>
      /\ Within(o, 8, Block(<<203, 0, 113>>, 24)) <=> o[1] = 203 /\ <<o[2], o[3]>> = <<0, 113>>
  BY SMT DEF Within, Block, Address4
<1>4. QED
  BY <1>1, <1>2, <1>3

(* is_public_ipv4 refuses exactly the special-purpose blocks, for every IPv4  *)
(* address (egress.rs:347).                                                   *)
THEOREM GuardIsExactV4 ==
  ASSUME NEW o \in Address4
  PROVE  PublicV4(o) <=> Routable4(o)
<1>1. o[1] \in 0..255
  BY OctetTypes
<1>2. Routable4(o) <=>
        /\ ~Within(o, 8, Block(<<0>>, 8)) /\ ~Within(o, 8, Block(<<10>>, 8))
        /\ ~Within(o, 8, Block(<<100, 64>>, 10)) /\ ~Within(o, 8, Block(<<127>>, 8))
        /\ ~Within(o, 8, Block(<<169, 254>>, 16)) /\ ~Within(o, 8, Block(<<172, 16>>, 12))
        /\ ~Within(o, 8, Block(<<192, 0, 0>>, 24)) /\ ~Within(o, 8, Block(<<192, 0, 2>>, 24))
        /\ ~Within(o, 8, Block(<<192, 88, 99>>, 24)) /\ ~Within(o, 8, Block(<<192, 168>>, 16))
        /\ ~Within(o, 8, Block(<<198, 18>>, 15)) /\ ~Within(o, 8, Block(<<198, 51, 100>>, 24))
        /\ ~Within(o, 8, Block(<<203, 0, 113>>, 24)) /\ ~Within(o, 8, Block(<<224>>, 4))
        /\ ~Within(o, 8, Block(<<240>>, 4))
  BY SMT DEF Routable4, SpecialV4
<1>3. QED
  BY <1>1, <1>2, OctetBlocks, OctetPairBlocks, OctetTripleBlocks DEF PublicV4
-----------------------------------------------------------------------------
LEMMA SegmentTypes == ASSUME NEW s \in Address6 PROVE \A i \in 1..8 : s[i] \in Segment
<1>1. s \in Seq(Segment) /\ Len(s) = 8
  BY DEF Address6
<1>2. ASSUME NEW i \in 1..Len(s) PROVE s[i] \in Segment
  BY <1>1, ElementOfSeq
<1>3. QED
  BY <1>1, <1>2

LEMMA SegmentRange == ASSUME NEW x \in Segment PROVE x \in Int /\ 0 <= x /\ x <= 65535
<1>1. 2^16 = 65536
  BY SMT
<1>2. QED
  BY <1>1 DEF Segment

LEMMA SegmentHalves ==
  ASSUME NEW x \in Segment
  PROVE  /\ x \div 256 \in 0..255 /\ x % 256 \in 0..255
         /\ x \div 512 = 0 <=> x < 512
         /\ x \div 4096 = 0 <=> x < 4096
<1>1. x \div 256 \in 0..255
  BY SegmentRange, SMT
<1>2. x % 256 \in 0..255
  BY SegmentRange, SMT
<1>3. x \div 512 = 0 <=> x < 512
  BY SegmentRange, SMT
<1>4. x \div 4096 = 0 <=> x < 4096
  BY SegmentRange, SMT
<1>5. QED
  BY <1>1, <1>2, <1>3, <1>4

(* What each IPv6 block contains, by its segments. *)
LEMMA SegmentBlocks ==
  ASSUME NEW s \in Address6
  PROVE  /\ Within(s, 16, Block(<<100, 65435, 1>>, 48)) <=> s[1] = 100 /\ s[2] = 65435 /\ s[3] = 1
         /\ Within(s, 16, Block(<<256, 0, 0, 0>>, 64)) <=> s[1] = 256 /\ \A i \in 2..4 : s[i] = 0
         /\ Within(s, 16, Block(<<8193, 3512>>, 32)) <=> s[1] = 8193 /\ s[2] = 3512
         /\ Within(s, 16, Block(<<8194>>, 16)) <=> s[1] = 8194
<1>1. Within(s, 16, Block(<<100, 65435, 1>>, 48)) <=> s[1] = 100 /\ s[2] = 65435 /\ s[3] = 1
  BY SMT DEF Within, Block
<1>2. Within(s, 16, Block(<<256, 0, 0, 0>>, 64)) <=> s[1] = 256 /\ \A i \in 2..4 : s[i] = 0
  BY SMT DEF Within, Block
<1>3. /\ Within(s, 16, Block(<<8193, 3512>>, 32)) <=> s[1] = 8193 /\ s[2] = 3512
      /\ Within(s, 16, Block(<<8194>>, 16)) <=> s[1] = 8194
  BY SMT DEF Within, Block
<1>4. QED
  BY <1>1, <1>2, <1>3

LEMMA PartialSegmentBlocks ==
  ASSUME NEW s \in Address6
  PROVE  /\ Within(s, 16, Block(<<8193, 0>>, 23)) <=> s[1] = 8193 /\ s[2] < 512
         /\ Within(s, 16, Block(<<16383, 0>>, 20)) <=> s[1] = 16383 /\ s[2] < 4096
         /\ Within(s, 16, Block(<<64512>>, 7)) <=> s[1] \div 512 = 126
         /\ Within(s, 16, Block(<<65152>>, 10)) <=> s[1] \div 64 = 1018
         /\ Within(s, 16, Block(<<65216>>, 10)) <=> s[1] \div 64 = 1019
         /\ Within(s, 16, Block(<<65280>>, 8)) <=> s[1] \div 256 = 255
<1>1. Within(s, 16, Block(<<8193, 0>>, 23)) <=> s[1] = 8193 /\ s[2] < 512
  <2>1. Within(s, 16, Block(<<8193, 0>>, 23)) <=> s[1] = 8193 /\ s[2] \div 512 = 0
    BY Powers, SMT DEF Within, Block
  <2>2. s[2] \in Segment
    BY SegmentTypes
  <2>3. QED
    BY <2>1, <2>2, SegmentHalves
<1>2. Within(s, 16, Block(<<16383, 0>>, 20)) <=> s[1] = 16383 /\ s[2] < 4096
  <2>1. Within(s, 16, Block(<<16383, 0>>, 20)) <=> s[1] = 16383 /\ s[2] \div 4096 = 0
    BY Powers, SMT DEF Within, Block
  <2>2. s[2] \in Segment
    BY SegmentTypes
  <2>3. QED
    BY <2>1, <2>2, SegmentHalves
<1>3. /\ Within(s, 16, Block(<<65152>>, 10)) <=> s[1] \div 64 = 1018
      /\ Within(s, 16, Block(<<65216>>, 10)) <=> s[1] \div 64 = 1019
  BY Powers, SMT DEF Within, Block
<1>4. /\ Within(s, 16, Block(<<64512>>, 7)) <=> s[1] \div 512 = 126
      /\ Within(s, 16, Block(<<65280>>, 8)) <=> s[1] \div 256 = 255
  BY Powers, SMT DEF Within, Block
<1>5. QED
  BY <1>1, <1>2, <1>3, <1>4

LEMMA EmbeddingBlocks ==
  ASSUME NEW s \in Address6
  PROVE  (\E b \in Embedding : Within(s, 16, b)) <=> Mapped(s) \/ Nat64(s)
<1>1. (\E b \in Embedding : Within(s, 16, b)) <=>
        \/ Within(s, 16, Block(<<0, 0, 0, 0, 0, 0>>, 96))
        \/ Within(s, 16, Block(<<0, 0, 0, 0, 0, 65535>>, 96))
        \/ Within(s, 16, Block(<<100, 65435, 0, 0, 0, 0>>, 96))
  BY SMT DEF Embedding
<1>2. Within(s, 16, Block(<<0, 0, 0, 0, 0, 0>>, 96)) <=> \A i \in 1..6 : s[i] = 0
  BY SMT DEF Within, Block
<1>3. Within(s, 16, Block(<<0, 0, 0, 0, 0, 65535>>, 96))
        <=> s[6] = 65535 /\ \A i \in 1..5 : s[i] = 0
  BY SMT DEF Within, Block
<1>4. Within(s, 16, Block(<<100, 65435, 0, 0, 0, 0>>, 96))
        <=> s[1] = 100 /\ s[2] = 65435 /\ \A i \in 3..6 : s[i] = 0
  BY SMT DEF Within, Block
<1>5. QED
  BY <1>1, <1>2, <1>3, <1>4 DEF Mapped, Nat64

LEMMA OctetsType ==
  ASSUME NEW hi \in Segment, NEW lo \in Segment
  PROVE  Octets(hi, lo) \in Address4
<1>1. /\ hi \div 256 \in 0..255 /\ hi % 256 \in 0..255
      /\ lo \div 256 \in 0..255 /\ lo % 256 \in 0..255
  BY SegmentHalves
<1>2. QED
  BY <1>1 DEF Octets, Address4

(* is_public_ipv6 refuses exactly the special-purpose blocks, and exactly the *)
(* embeddings of an IPv4 address inside one, for every IPv6 address           *)
(* (egress.rs:366).                                                           *)
THEOREM GuardIsExactV6 ==
  ASSUME NEW s \in Address6
  PROVE  PublicV6(s) <=> Routable6(s)
<1>1. Octets(s[7], s[8]) \in Address4 /\ Octets(s[2], s[3]) \in Address4
  BY SegmentTypes, OctetsType
<1>2. /\ PublicV4(Octets(s[7], s[8])) <=> Routable4(Octets(s[7], s[8]))
      /\ PublicV4(Octets(s[2], s[3])) <=> Routable4(Octets(s[2], s[3]))
  BY <1>1, GuardIsExactV4
<1>3. (\A b \in SpecialV6 : ~Within(s, 16, b)) <=> ~BlockedV6(s)
  <2>1. (\A b \in SpecialV6 : ~Within(s, 16, b)) <=>
          /\ ~Within(s, 16, Block(<<100, 65435, 1>>, 48))
          /\ ~Within(s, 16, Block(<<256, 0, 0, 0>>, 64))
          /\ ~Within(s, 16, Block(<<8193, 0>>, 23)) /\ ~Within(s, 16, Block(<<8193, 3512>>, 32))
          /\ ~Within(s, 16, Block(<<16383, 0>>, 20)) /\ ~Within(s, 16, Block(<<64512>>, 7))
          /\ ~Within(s, 16, Block(<<65152>>, 10)) /\ ~Within(s, 16, Block(<<65216>>, 10))
          /\ ~Within(s, 16, Block(<<65280>>, 8))
    BY SMT DEF SpecialV6
  <2>2. QED
    BY <2>1, SegmentBlocks, PartialSegmentBlocks DEF BlockedV6
<1>4. /\ (\E b \in Embedding : Within(s, 16, b)) <=> Mapped(s) \/ Nat64(s)
      /\ Within(s, 16, Block(<<8194>>, 16)) <=> s[1] = 8194
  BY EmbeddingBlocks, SegmentBlocks
<1>5. QED
  BY <1>2, <1>3, <1>4 DEF PublicV6, Routable6

(* The guard as a whole: is_public_ip, for every address.                     *)
THEOREM GuardIsExactEverywhere ==
  ASSUME NEW a \in Address4 \cup Address6
  PROVE  Public(a) <=> Routable(a)
<1>1. CASE a \in Address4
  <2>1. Len(a) = 4
    BY <1>1 DEF Address4
  <2>2. QED
    BY <1>1, <2>1, GuardIsExactV4 DEF Public, Routable
<1>2. CASE a \in Address6
  <2>1. Len(a) = 8
    BY <1>2 DEF Address6
  <2>2. QED
    BY <1>2, <2>1, GuardIsExactV6 DEF Public, Routable
<1>3. QED
  BY <1>1, <1>2
-----------------------------------------------------------------------------
(* TypeOK by the pieces of state that a step changes together. *)
ConfigOK == config \in Config /\ Starts(config)
CallsOK ==
  /\ call \in [Call -> CallState]
  /\ \A c \in Call : (call[c].pc = "dialled") = (call[c].addr # NoAddress)
  /\ \A c \in Call : (call[c].pc = "idle") = (call[c].handle = NoHandle)
DrawnOK == drawn \in [DOMAIN drawn -> Registration] /\ DOMAIN drawn \subseteq Handle
StoreOK == DOMAIN store \subseteq DOMAIN drawn /\ \A h \in DOMAIN store : store[h] = drawn[h]
DiskOK ==
  /\ DOMAIN disk \subseteq durable /\ \A h \in DOMAIN disk : disk[h] = drawn[h]
  /\ durable \subseteq DOMAIN drawn /\ dropped \subseteq durable
RestOK == gone \subseteq Registration /\ restarts \in 0..MaxRestarts

LEMMA TypeParts == TypeOK <=> ConfigOK /\ CallsOK /\ DrawnOK /\ StoreOK /\ DiskOK /\ RestOK
  BY DEF TypeOK, ConfigOK, CallsOK, DrawnOK, StoreOK, DiskOK, RestOK

LEMMA Idle == IdleCall \in CallState /\ IdleCall.pc = "idle" /\ IdleCall.addr = NoAddress
              /\ IdleCall.handle = NoHandle /\ IdleCall.outcome = "none"
  BY DEF IdleCall, CallState, Outcome

(* What every step of a call leaves alone, and when its types survive.        *)
LEMMA CallStepTypes ==
  ASSUME NEW c \in Call, NEW state \in CallState, Goto(c, state), CallsOK,
         (state.pc = "dialled") = (state.addr # NoAddress),
         (state.pc = "idle") = (state.handle = NoHandle)
  PROVE  CallsOK'
<1>1. call' = [call EXCEPT ![c] = state]
  BY DEF Goto
<1>2. call' \in [Call -> CallState]
  BY <1>1 DEF CallsOK
<1>3. \A d \in Call : call'[d] = IF d = c THEN state ELSE call[d]
  BY <1>1 DEF CallsOK
<1>4. QED
  BY <1>2, <1>3 DEF CallsOK

LEMMA SendersAreSenders ==
  ASSUME ConfigOK, NEW platform \in Platform
  PROVE  /\ SendersFor(platform) \subseteq Platform \cup {"echo"}
         /\ "echo" \in SendersFor(platform) => config.echo /\ platform \notin config.senders
<1>1. "echo" \notin Platform
  BY DEF Platform
<1>2. QED
  BY <1>1, DeliveryAssumption DEF ConfigOK, SendersFor

LEMMA OutcomesOfAnswers ==
  ASSUME NEW platform, NEW reply
  PROVE  OutcomeOf(platform, reply) \in {"delivered", "unregistered", "transient"}
  BY DEF OutcomeOf
-----------------------------------------------------------------------------
LEMMA InitTypes == Init => TypeOK
<1> SUFFICES ASSUME Init PROVE TypeOK
  OBVIOUS
<1>1. ConfigOK /\ RestOK
  BY DeliveryAssumption DEF Init, ConfigOK, RestOK
<1>2. CallsOK
  BY Idle DEF Init, CallsOK
<1>3. PICK S \in SUBSET Handle : Old \in [S -> Registration]
  BY DeliveryAssumption
<1>4. DrawnOK
  BY <1>3 DEF Init, DrawnOK
<1>5. StoreOK /\ DiskOK
  BY <1>3 DEF Init, StoreOK, DiskOK, Loaded, Restrict, Refused
<1>6. QED
  BY <1>1, <1>2, <1>4, <1>5, TypeParts

LEMMA RestartTypes ==
  ASSUME TypeOK, NEW cfg \in Config, NEW readable \in BOOLEAN, Restart(cfg, readable)
  PROVE  TypeOK'
<1> USE TypeParts
<1>1. ConfigOK' /\ RestOK' /\ DrawnOK'
  BY DeliveryAssumption DEF Restart, ConfigOK, RestOK, DrawnOK
<1>2. CallsOK'
  BY Idle DEF Restart, CallsOK
<1>3. DiskOK'
  BY DEF Restart, DiskOK, Refused
<1>4. StoreOK'
  <2>1. CASE readable
    BY <2>1 DEF Restart, StoreOK, DiskOK, Loaded, Restrict
  <2>2. CASE ~readable
    BY <2>2 DEF Restart, StoreOK, DiskOK, Loaded, Restrict
  <2>3. QED
    BY <2>1, <2>2
<1>5. QED
  BY <1>1, <1>2, <1>3, <1>4 DEF TypeOK, ConfigOK, CallsOK, DrawnOK, StoreOK, DiskOK, RestOK

LEMMA RegisterTypes ==
  ASSUME TypeOK, NEW h \in Handle, NEW reg \in Registration, Register(h, reg)
  PROVE  TypeOK'
<1> USE TypeParts
<1>1. ConfigOK' /\ RestOK' /\ CallsOK'
  BY DEF Register, ConfigOK, RestOK, CallsOK
<1>2. DrawnOK'
  BY DEF Register, DrawnOK
<1>3. StoreOK'
  BY DEF Register, StoreOK, DrawnOK
<1>4. DiskOK'
  BY DEF Register, DiskOK, DrawnOK
<1>5. QED
  BY <1>1, <1>2, <1>3, <1>4 DEF TypeOK, ConfigOK, CallsOK, DrawnOK, StoreOK, DiskOK, RestOK

(* A step of a call that goes to a state of the right types, and drops at     *)
(* most handles from the registry.                                            *)
LEMMA CallStep ==
  ASSUME TypeOK, NEW c \in Call, NEW state \in CallState, Goto(c, state),
         (state.pc = "dialled") = (state.addr # NoAddress),
         (state.pc = "idle") = (state.handle = NoHandle),
         NEW S \in SUBSET DOMAIN store, store' = store \/ store' = Restrict(store, S)
  PROVE  TypeOK'
<1> USE TypeParts
<1>1. CallsOK'
  BY CallStepTypes
<1>2. ConfigOK' /\ DrawnOK' /\ DiskOK' /\ RestOK'
  BY DEF Goto, ConfigOK, DrawnOK, DiskOK, RestOK
<1>3. StoreOK'
  BY DEF Goto, StoreOK, Restrict
<1>4. QED
  BY <1>1, <1>2, <1>3 DEF TypeOK, ConfigOK, CallsOK, DrawnOK, StoreOK, DiskOK, RestOK

LEMMA WakeTypes ==
  ASSUME TypeOK, NEW c \in Call, NEW h \in Handle, Wake(c, h)
  PROVE  TypeOK'
<1>1. ConfigOK /\ store[h] \in Registration
  BY TypeParts DEF Wake, StoreOK, DrawnOK
<1>2. store[h].platform \in Platform
  BY <1>1, DeliveryAssumption
<1>3. PICK s \in SendersFor(store[h].platform) :
        Goto(c, [IdleCall EXCEPT
          !.pc = IF s = "echo" \/ ~Sendable(store[h]) THEN "done" ELSE "resolving",
          !.handle = h, !.sender = s,
          !.outcome = IF s = "echo" THEN "delivered"
                      ELSE IF Sendable(store[h]) THEN "none" ELSE "transient"])
  BY DEF Wake
<1> DEFINE state == [IdleCall EXCEPT
          !.pc = IF s = "echo" \/ ~Sendable(store[h]) THEN "done" ELSE "resolving",
          !.handle = h, !.sender = s,
          !.outcome = IF s = "echo" THEN "delivered"
                      ELSE IF Sendable(store[h]) THEN "none" ELSE "transient"]
<1>4. s \in Platform \cup {"echo"}
  BY <1>1, <1>2, SendersAreSenders
<1>5. /\ state \in CallState
      /\ state.pc \in {"done", "resolving"} /\ state.addr = NoAddress /\ state.handle = h
  BY <1>4 DEF IdleCall, CallState, Outcome
<1>6. store' = store /\ h # NoHandle
  BY DeliveryAssumption DEF Wake
<1> HIDE DEF state
<1>7. QED
  BY <1>3, <1>5, <1>6, CallStep DEF state

LEMMA RefuseTypes ==
  ASSUME TypeOK, NEW c \in Call, NEW h \in Handle, Refuse(c, h)
  PROVE  TypeOK'
<1> DEFINE state == [IdleCall EXCEPT !.pc = "done", !.handle = h, !.outcome = "refused"]
<1>1. /\ state \in CallState
      /\ state.pc = "done" /\ state.addr = NoAddress /\ state.handle = h
  BY DEF IdleCall, CallState, Outcome
<1>2. Goto(c, state) /\ store' = store /\ h # NoHandle
  BY DeliveryAssumption DEF Refuse
<1> HIDE DEF state
<1>3. QED
  BY <1>1, <1>2, CallStep

LEMMA DialTypes ==
  ASSUME TypeOK, NEW c \in Call, NEW answers \in Answers, Dial(c, answers)
  PROVE  TypeOK'
<1>1. PICK a \in answers : Goto(c, [call[c] EXCEPT !.pc = "dialled", !.addr = a])
  BY DEF Dial
<1> DEFINE state == [call[c] EXCEPT !.pc = "dialled", !.addr = a]
<1>2. a \in Address /\ a # NoAddress
  BY DeliveryAssumption DEF Address
<1>3. /\ call[c] \in CallState /\ call[c].handle # NoHandle /\ store' = store
  BY TypeParts DEF Dial, CallsOK
<1>4. /\ state \in CallState /\ state.pc = "dialled" /\ state.addr = a
      /\ state.handle = call[c].handle
  BY <1>2, <1>3 DEF CallState
<1> HIDE DEF state
<1>5. QED
  BY <1>1, <1>2, <1>3, <1>4, CallStep DEF state

LEMMA AcceptTypes ==
  ASSUME TypeOK, NEW c \in Call, Accept(c)
  PROVE  TypeOK'
<1> DEFINE state == [call[c] EXCEPT !.accepted = TRUE]
<1>1. /\ call[c] \in CallState /\ call[c].pc = "dialled" /\ store' = store
      /\ call[c].addr # NoAddress /\ call[c].handle # NoHandle
  BY TypeParts DEF Accept, CallsOK
<1>2. /\ state \in CallState /\ state.pc = "dialled" /\ state.addr = call[c].addr
      /\ state.handle = call[c].handle
  BY <1>1 DEF CallState
<1>3. Goto(c, state)
  BY DEF Accept
<1> HIDE DEF state
<1>4. QED
  BY <1>1, <1>2, <1>3, CallStep

LEMMA EndTypes ==
  ASSUME TypeOK, NEW c \in Call, NEW outcome \in Outcome, End(c, outcome), call[c].pc # "idle"
  PROVE  TypeOK'
<1> DEFINE state == [call[c] EXCEPT !.pc = "done", !.addr = NoAddress, !.outcome = outcome]
<1>1. call[c] \in CallState /\ call[c].handle # NoHandle
  BY TypeParts DEF CallsOK
<1>2. /\ state \in CallState /\ state.pc = "done" /\ state.addr = NoAddress
      /\ state.handle = call[c].handle
  BY <1>1 DEF CallState
<1>3. Goto(c, state) /\ (store' = store \/ store' = Restrict(store, DOMAIN store \ {call[c].handle}))
  BY DEF End
<1>4. DOMAIN store \ {call[c].handle} \in SUBSET DOMAIN store
  OBVIOUS
<1> HIDE DEF state
<1>5. QED
  BY <1>1, <1>2, <1>3, <1>4, CallStep

LEMMA AnswerEnds ==
  ASSUME NEW c \in Call, Answer(c)
  PROVE  /\ call[c].pc = "dialled"
         /\ \E outcome \in Outcome : End(c, outcome)
  BY OutcomesOfAnswers DEF Answer, Outcome

LEMMA FinishTypes ==
  ASSUME TypeOK, NEW c \in Call, Finish(c)
  PROVE  TypeOK'
<1>1. Goto(c, IdleCall) /\ store' = store
  BY DEF Finish
<1>2. QED
  BY <1>1, Idle, CallStep

LEMMA NextTypes == TypeOK /\ [Next]_vars => TypeOK'
<1> SUFFICES ASSUME TypeOK, [Next]_vars PROVE TypeOK'
  OBVIOUS
<1>1. CASE Flush
  <2>1. ConfigOK' /\ CallsOK' /\ DrawnOK' /\ StoreOK' /\ DiskOK' /\ RestOK'
    BY <1>1, TypeParts DEF Flush, ConfigOK, CallsOK, DrawnOK, StoreOK, DiskOK, RestOK
  <2>2. QED
    BY <2>1 DEF TypeOK, ConfigOK, CallsOK, DrawnOK, StoreOK, DiskOK, RestOK
<1>2. ASSUME NEW reg \in Registration, GiveUp(reg) PROVE TypeOK'
  BY <1>2 DEF GiveUp, TypeOK
<1>3. ASSUME NEW c \in Call, Answer(c) PROVE TypeOK'
  BY <1>3, AnswerEnds, EndTypes
<1>4. ASSUME NEW c \in Call, GivesUp(c) PROVE TypeOK'
  BY <1>4, EndTypes DEF GivesUp, Outcome
<1>5. CASE UNCHANGED vars
  BY <1>5 DEF vars, TypeOK
<1>6. QED
  BY <1>1, <1>2, <1>3, <1>4, <1>5, RestartTypes, RegisterTypes, WakeTypes, RefuseTypes,
     DialTypes, AcceptTypes, FinishTypes DEF Next

(* Types, and: nothing is stored that was not drawn, and a connection is held *)
(* exactly while its address is known.                                        *)
THEOREM TypeCorrect == Spec => []TypeOK
<1>1. QED
  BY InitTypes, NextTypes, PTL DEF Spec
-----------------------------------------------------------------------------
(* What every step of a call leaves alone. *)
CallAction(c) ==
  \/ \E h \in Handle : Wake(c, h) \/ Refuse(c, h)
  \/ \E answers \in Answers : Dial(c, answers)
  \/ Accept(c) \/ Answer(c) \/ GivesUp(c) \/ Finish(c)

LEMMA CallsOnlyDrop ==
  ASSUME NEW c \in Call, CallAction(c)
  PROVE  /\ UNCHANGED <<config, disk, drawn, durable, dropped, gone, restarts>>
         /\ \E S \in SUBSET DOMAIN store : store' = Restrict(store, S) \/ store' = store
<1>1. ASSUME NEW outcome, End(c, outcome)
      PROVE  /\ UNCHANGED <<config, disk, drawn, durable, dropped, gone, restarts>>
             /\ \E S \in SUBSET DOMAIN store : store' = Restrict(store, S) \/ store' = store
  BY <1>1 DEF End, Goto
<1>2. CASE Answer(c) \/ GivesUp(c)
  BY <1>1, <1>2, AnswerEnds DEF GivesUp
<1>3. CASE ~(Answer(c) \/ GivesUp(c))
  <2>1. store' = store /\ UNCHANGED <<config, disk, drawn, durable, dropped, gone, restarts>>
    BY <1>3 DEF CallAction, Wake, Refuse, Dial, Accept, Finish, Goto
  <2>2. QED
    BY <2>1
<1>4. QED
  BY <1>2, <1>3

LEMMA NextCases ==
  ASSUME [Next]_vars
  PROVE  \/ \E cfg \in Config, readable \in BOOLEAN : Restart(cfg, readable)
         \/ Flush
         \/ \E h \in Handle, reg \in Registration : Register(h, reg)
         \/ \E reg \in Registration : GiveUp(reg)
         \/ \E c \in Call : CallAction(c)
         \/ UNCHANGED vars
  BY DEF Next, CallAction

LEMMA LoadedIsAccepted ==
  ASSUME NEW cfg, NEW file
  PROVE  \A h \in DOMAIN Loaded(cfg, file) : Accepts(cfg, Loaded(cfg, file)[h])
  BY DEF Loaded, Restrict

(* What is served passes the policy of the process that serves it.            *)
THEOREM ServesItsPolicy == Spec => []StoreWithinPolicy
<1>1. Init => StoreWithinPolicy
  BY LoadedIsAccepted DEF Init, StoreWithinPolicy
<1>2. StoreWithinPolicy /\ [Next]_vars => StoreWithinPolicy'
  <2> SUFFICES ASSUME StoreWithinPolicy, [Next]_vars PROVE StoreWithinPolicy'
    OBVIOUS
  <2>1. ASSUME NEW cfg \in Config, NEW readable \in BOOLEAN, Restart(cfg, readable)
        PROVE  StoreWithinPolicy'
    BY <2>1, LoadedIsAccepted DEF Restart, StoreWithinPolicy
  <2>2. ASSUME NEW h \in Handle, NEW reg \in Registration, Register(h, reg)
        PROVE  StoreWithinPolicy'
    BY <2>2 DEF Register, StoreWithinPolicy
  <2>3. ASSUME NEW c \in Call, CallAction(c) PROVE StoreWithinPolicy'
    BY <2>3, CallsOnlyDrop DEF StoreWithinPolicy, Restrict
  <2>4. CASE Flush \/ (\E reg \in Registration : GiveUp(reg)) \/ UNCHANGED vars
    BY <2>4 DEF Flush, GiveUp, vars, StoreWithinPolicy
  <2>5. QED
    BY <2>1, <2>2, <2>3, <2>4, NextCases
<1>3. QED
  BY <1>1, <1>2, PTL DEF Spec
-----------------------------------------------------------------------------
(* The handle of a send, and of an outcome that says something of it, exists. *)
Known ==
  \A c \in Call :
    call[c].pc \in {"resolving", "dialled"} \/ call[c].outcome \in {"delivered", "unregistered"}
      => call[c].handle \in DOMAIN drawn

(* No answer is at once a success and a farewell, and no trouble is either.   *)
TroubleStatus == {302, 400, 403, 429, 503}
TroubleReason == {"", "InvalidProviderToken", "TooManyRequests"}
GoodbyeStatus == {400, 404, 410}
GoodbyeReason == {"", "Unregistered", "BadDeviceToken", "DeviceTokenNotForTopic",
                  "UNREGISTERED", "registration-token-not-registered"}

LEMMA WhatTroublesSay == Troubles \subseteq [status : TroubleStatus, reason : TroubleReason]
  BY DEF Troubles, Reply, TroubleStatus, TroubleReason

LEMMA WhatGoodbyesSay ==
  ASSUME NEW platform \in Platform
  PROVE  Goodbyes(platform) \subseteq [status : GoodbyeStatus, reason : GoodbyeReason]
<1>1. CASE platform = "webpush"
  BY <1>1 DEF Goodbyes, Reply, GoodbyeStatus, GoodbyeReason
<1>2. CASE platform = "apns"
  BY <1>2 DEF Goodbyes, Reply, GoodbyeStatus, GoodbyeReason
<1>3. CASE platform = "fcm"
  BY <1>3 DEF Goodbyes, Reply, GoodbyeStatus, GoodbyeReason
<1>4. QED
  BY <1>1, <1>2, <1>3 DEF Platform

LEMMA TroublesPass ==
  ASSUME NEW platform, NEW reply \in Troubles
  PROVE  ~Delivers(reply) /\ ~GaveUp(platform, reply)
<1>1. reply.status \in TroubleStatus /\ reply.reason \in TroubleReason
  BY WhatTroublesSay
<1>2. ~Delivers(reply) /\ reply.status # 404 /\ reply.status # 410
  <2>1. reply.status \in TroubleStatus
    BY <1>1
  <2>2. QED
    BY <2>1 DEF TroubleStatus, Delivers
<1>3. /\ reply.reason \notin {"Unregistered", "BadDeviceToken", "DeviceTokenNotForTopic"}
      /\ reply.reason \notin {"UNREGISTERED", "registration-token-not-registered"}
  <2>1. reply.reason \in TroubleReason
    BY <1>1
  <2>2. QED
    BY <2>1 DEF TroubleReason
<1>4. ~GaveUp(platform, reply)
  BY <1>2, <1>3, Zenon DEF GaveUp
<1>5. QED
  BY <1>2, <1>4

LEMMA GoodbyesFail ==
  ASSUME NEW platform \in Platform, NEW reply \in Goodbyes(platform)
  PROVE  ~Delivers(reply)
<1>1. reply.status \in GoodbyeStatus
  BY WhatGoodbyesSay
<1>2. QED
  BY <1>1 DEF GoodbyeStatus, Delivers

LEMMA SuccessDelivers == ASSUME NEW platform PROVE Delivers(Success(platform))
<1>1. Success(platform) \in [status : {200, 201}, reason : {""}]
  BY DEF Success, Reply
<1>2. Success(platform).status \in {200, 201}
  BY <1>1
<1>3. QED
  BY <1>2 DEF Delivers

(* What an answer of a push service lets a sender conclude. *)
LEMMA AnswersMean ==
  ASSUME TypeOK, Known, NEW c \in Call, Answer(c)
  PROVE  \E outcome \in Outcome :
           /\ End(c, outcome)
           /\ outcome = "delivered" => call[c].accepted
           /\ outcome = "unregistered" => drawn[call[c].handle] \in gone
<1> DEFINE reg == drawn[call[c].handle]
           replies == IF call[c].accepted THEN {Success(reg.platform)}
                      ELSE Troubles \cup IF reg \in gone THEN Goodbyes(reg.platform) ELSE {}
<1>1. PICK reply \in replies : End(c, OutcomeOf(reg.platform, reply))
  BY DEF Answer
<1>2. reg \in Registration
  <2>1. call[c].handle \in DOMAIN drawn
    BY DEF Answer, Known
  <2>2. QED
    BY <2>1, TypeParts DEF DrawnOK
<1>3. reg.platform \in Platform
  BY <1>2, DeliveryAssumption
<1> HIDE DEF reg
<1>4. reply \in Troubles => ~Delivers(reply) /\ ~GaveUp(reg.platform, reply)
  BY TroublesPass
<1>5. reply \in Goodbyes(reg.platform) => ~Delivers(reply)
  BY <1>3, GoodbyesFail
<1>6. Delivers(Success(reg.platform))
  BY SuccessDelivers
<1>7. /\ OutcomeOf(reg.platform, reply) = "delivered" => call[c].accepted
      /\ OutcomeOf(reg.platform, reply) = "unregistered" => reg \in gone
  <2>1. CASE call[c].accepted
    BY <1>1, <1>6, <2>1 DEF OutcomeOf
  <2>2. CASE ~call[c].accepted /\ reply \in Troubles
    BY <1>4, <2>2 DEF OutcomeOf
  <2>3. CASE ~call[c].accepted /\ reply \notin Troubles
    BY <1>1, <1>5, <2>3 DEF OutcomeOf
  <2>4. QED
    BY <2>1, <2>2, <2>3
<1>8. QED
  BY <1>1, <1>7, OutcomesOfAnswers DEF Outcome, reg

LEMMA GotoMoves ==
  ASSUME TypeOK, NEW c \in Call, NEW state, Goto(c, state)
  PROVE  /\ \A d \in Call : call'[d] = IF d = c THEN state ELSE call[d]
         /\ UNCHANGED <<config, disk, drawn, durable, dropped, gone, restarts>>
<1>1. call' = [call EXCEPT ![c] = state]
  BY DEF Goto
<1>2. call \in [Call -> CallState]
  BY TypeParts DEF CallsOK
<1>3. QED
  BY <1>1, <1>2 DEF Goto

LEMMA EndMoves ==
  ASSUME TypeOK, NEW c \in Call, NEW outcome, End(c, outcome)
  PROVE  /\ call'[c].pc = "done" /\ call'[c].handle = call[c].handle
         /\ call'[c].outcome = outcome /\ call'[c].accepted = call[c].accepted
         /\ call'[c].addr = NoAddress
         /\ \A d \in Call \ {c} : call'[d] = call[d]
         /\ UNCHANGED <<config, disk, drawn, durable, dropped, gone, restarts>>
         /\ DOMAIN store' = IF outcome = "unregistered"
                            THEN DOMAIN store \ {call[c].handle} ELSE DOMAIN store
<1> DEFINE state == [call[c] EXCEPT !.pc = "done", !.addr = NoAddress, !.outcome = outcome]
<1>1. Goto(c, state)
  BY DEF End
<1>2. call[c] \in CallState
  BY TypeParts DEF CallsOK
<1>3. /\ state.pc = "done" /\ state.handle = call[c].handle /\ state.outcome = outcome
      /\ state.accepted = call[c].accepted /\ state.addr = NoAddress
  BY <1>2 DEF CallState
<1> HIDE DEF state
<1>4. DOMAIN store' = IF outcome = "unregistered"
                      THEN DOMAIN store \ {call[c].handle} ELSE DOMAIN store
  BY DEF End, Restrict
<1>5. QED
  BY <1>1, <1>3, <1>4, GotoMoves

(* A wake: it waits for an address, after the sender's checks, or is done.    *)
LEMMA WakeMoves ==
  ASSUME TypeOK, NEW c \in Call, NEW h \in Handle, Wake(c, h)
  PROVE  /\ h \in DOMAIN drawn /\ store[h] = drawn[h] /\ store[h] \in Registration
         /\ call'[c].handle = h /\ call'[c].pc \in {"resolving", "done"}
         /\ call'[c].pc = "resolving" => Sendable(drawn[h])
         /\ call'[c].outcome # "unregistered"
         /\ call'[c].outcome = "delivered" => "echo" \in SendersFor(drawn[h].platform)
         /\ \A d \in Call \ {c} : call'[d] = call[d]
         /\ UNCHANGED <<config, disk, drawn, durable, dropped, gone, restarts, store>>
<1>1. PICK s \in SendersFor(store[h].platform) :
        Goto(c, [IdleCall EXCEPT
          !.pc = IF s = "echo" \/ ~Sendable(store[h]) THEN "done" ELSE "resolving",
          !.handle = h, !.sender = s,
          !.outcome = IF s = "echo" THEN "delivered"
                      ELSE IF Sendable(store[h]) THEN "none" ELSE "transient"])
  BY DEF Wake
<1> DEFINE state == [IdleCall EXCEPT
          !.pc = IF s = "echo" \/ ~Sendable(store[h]) THEN "done" ELSE "resolving",
          !.handle = h, !.sender = s,
          !.outcome = IF s = "echo" THEN "delivered"
                      ELSE IF Sendable(store[h]) THEN "none" ELSE "transient"]
<1>2. /\ state.handle = h
      /\ state.pc = IF s = "echo" \/ ~Sendable(store[h]) THEN "done" ELSE "resolving"
      /\ state.outcome = IF s = "echo" THEN "delivered"
                         ELSE IF Sendable(store[h]) THEN "none" ELSE "transient"
  BY DEF IdleCall
<1>3. h \in DOMAIN drawn /\ store[h] = drawn[h] /\ store[h] \in Registration /\ store' = store
  BY TypeParts DEF Wake, StoreOK, DrawnOK
<1>4. Goto(c, state)
  BY <1>1
<1> HIDE DEF state
<1>5. QED
  BY <1>1, <1>2, <1>3, <1>4, GotoMoves

LEMMA DialMoves ==
  ASSUME TypeOK, NEW c \in Call, NEW answers \in Answers, Dial(c, answers)
  PROVE  /\ call[c].pc = "resolving" /\ call'[c].pc = "dialled" /\ Resolves(answers)
         /\ call'[c].addr \in answers
         /\ call'[c].handle = call[c].handle /\ call'[c].outcome = call[c].outcome
         /\ call'[c].accepted = call[c].accepted
         /\ \A d \in Call \ {c} : call'[d] = call[d]
         /\ UNCHANGED <<config, disk, drawn, durable, dropped, gone, restarts, store>>
<1>1. PICK a \in answers : Goto(c, [call[c] EXCEPT !.pc = "dialled", !.addr = a])
  BY DEF Dial
<1> DEFINE state == [call[c] EXCEPT !.pc = "dialled", !.addr = a]
<1>2. call[c] \in CallState
  BY TypeParts DEF CallsOK
<1>3. /\ state.pc = "dialled" /\ state.addr = a /\ state.handle = call[c].handle
      /\ state.outcome = call[c].outcome /\ state.accepted = call[c].accepted
  BY <1>2 DEF CallState
<1>4. Goto(c, state)
  BY <1>1
<1>5. call[c].pc = "resolving" /\ Resolves(answers) /\ store' = store
  BY DEF Dial
<1> HIDE DEF state
<1>6. QED
  BY <1>3, <1>4, <1>5, GotoMoves

LEMMA AcceptMoves ==
  ASSUME TypeOK, NEW c \in Call, Accept(c)
  PROVE  /\ call[c].pc = "dialled" /\ call'[c].pc = "dialled"
         /\ call'[c].addr = call[c].addr /\ call'[c].handle = call[c].handle
         /\ call'[c].outcome = call[c].outcome /\ call'[c].accepted
         /\ \A d \in Call \ {c} : call'[d] = call[d]
         /\ UNCHANGED <<config, disk, drawn, durable, dropped, gone, restarts, store>>
<1> DEFINE state == [call[c] EXCEPT !.accepted = TRUE]
<1>1. call[c] \in CallState
  BY TypeParts DEF CallsOK
<1>2. /\ state.pc = call[c].pc /\ state.addr = call[c].addr /\ state.handle = call[c].handle
      /\ state.outcome = call[c].outcome /\ state.accepted = TRUE
  BY <1>1 DEF CallState
<1>3. Goto(c, state) /\ call[c].pc = "dialled" /\ store' = store
  BY DEF Accept
<1> HIDE DEF state
<1>4. QED
  BY <1>2, <1>3, GotoMoves

LEMMA RestMoves ==
  ASSUME TypeOK, NEW c \in Call, Finish(c) \/ \E h \in Handle : Refuse(c, h)
  PROVE  /\ call'[c].pc \in {"idle", "done"} /\ call'[c].outcome \in {"none", "refused"}
         /\ \A d \in Call \ {c} : call'[d] = call[d]
         /\ UNCHANGED <<config, disk, drawn, durable, dropped, gone, restarts, store>>
<1>1. CASE Finish(c)
  <2>1. Goto(c, IdleCall) /\ store' = store
    BY <1>1 DEF Finish
  <2>2. QED
    BY <2>1, GotoMoves, Idle
<1>2. ASSUME NEW h \in Handle, Refuse(c, h)
      PROVE  /\ call'[c].pc \in {"idle", "done"} /\ call'[c].outcome \in {"none", "refused"}
             /\ \A d \in Call \ {c} : call'[d] = call[d]
             /\ UNCHANGED <<config, disk, drawn, durable, dropped, gone, restarts, store>>
  <2> DEFINE state == [IdleCall EXCEPT !.pc = "done", !.handle = h, !.outcome = "refused"]
  <2>1. Goto(c, state) /\ store' = store
    BY <1>2 DEF Refuse
  <2>2. state.pc = "done" /\ state.outcome = "refused"
    BY DEF IdleCall
  <2> HIDE DEF state
  <2>3. QED
    BY <2>1, <2>2, GotoMoves
<1>3. QED
  BY <1>1, <1>2

LEMMA KnownStays == TypeOK /\ Known /\ [Next]_vars => Known'
<1> SUFFICES ASSUME TypeOK, Known, [Next]_vars PROVE Known'
  OBVIOUS
<1>1. ASSUME NEW cfg \in Config, NEW readable \in BOOLEAN, Restart(cfg, readable) PROVE Known'
  BY <1>1, Idle DEF Restart, Known
<1>2. ASSUME NEW h \in Handle, NEW reg \in Registration, Register(h, reg) PROVE Known'
  BY <1>2 DEF Register, Known
<1>3. CASE Flush \/ (\E reg \in Registration : GiveUp(reg)) \/ UNCHANGED vars
  BY <1>3 DEF Flush, GiveUp, vars, Known
<1>4. ASSUME NEW c \in Call, CallAction(c) PROVE Known'
  <2>1. ASSUME NEW h \in Handle, Wake(c, h) PROVE Known'
    BY <2>1, WakeMoves DEF Known
  <2>2. CASE Finish(c) \/ \E h \in Handle : Refuse(c, h)
    BY <2>2, RestMoves DEF Known
  <2>3. ASSUME NEW answers \in Answers, Dial(c, answers) PROVE Known'
    BY <2>3, DialMoves DEF Known
  <2>4. CASE Accept(c)
    BY <2>4, AcceptMoves DEF Known
  <2>5. ASSUME NEW outcome \in Outcome, End(c, outcome), call[c].pc \in {"resolving", "dialled"}
        PROVE  Known'
    BY <2>5, EndMoves DEF Known
  <2>6. CASE Answer(c)
    BY <2>5, <2>6, AnswerEnds
  <2>7. CASE GivesUp(c)
    BY <2>5, <2>7 DEF GivesUp, Outcome
  <2>8. QED
    BY <1>4, <2>1, <2>2, <2>3, <2>4, <2>6, <2>7 DEF CallAction
<1>5. QED
  BY <1>1, <1>2, <1>3, <1>4, NextCases

(* A step that ends a send removes its handle only when the token is gone.    *)
LEMMA CallsDropTheGone ==
  ASSUME TypeOK, Known, NEW c \in Call, CallAction(c)
  PROVE  /\ UNCHANGED <<config, disk, drawn, durable, dropped, gone, restarts>>
         /\ \A h \in DOMAIN store : h \in DOMAIN store' \/ drawn[h] \in gone
<1>1. UNCHANGED <<config, disk, drawn, durable, dropped, gone, restarts>>
  BY CallsOnlyDrop
<1>2. CASE Answer(c)
  <2>1. PICK outcome \in Outcome :
          End(c, outcome) /\ (outcome = "unregistered" => drawn[call[c].handle] \in gone)
    BY <1>2, AnswersMean
  <2>2. DOMAIN store' = IF outcome = "unregistered"
                        THEN DOMAIN store \ {call[c].handle} ELSE DOMAIN store
    BY <2>1, EndMoves
  <2>3. QED
    BY <1>1, <2>1, <2>2
<1>3. CASE GivesUp(c)
  BY <1>3, EndMoves DEF GivesUp
<1>4. CASE ~Answer(c) /\ ~GivesUp(c)
  BY <1>4, WakeMoves, RestMoves, DialMoves, AcceptMoves DEF CallAction
<1>5. QED
  BY <1>1, <1>2, <1>3, <1>4

(* The same as HandlesSurvive, of the snapshot: what it once had and lacks    *)
(* now, it lacks for the same reasons.                                        *)
SnapshotKeeps == \A h \in durable : h \in DOMAIN disk \/ drawn[h] \in gone \/ h \in dropped

LEMMA InitKnown == Init => Known
  BY Idle DEF Init, Known

LEMMA InitSurvive == Init => HandlesSurvive /\ SnapshotKeeps
<1> SUFFICES ASSUME Init PROVE HandlesSurvive /\ SnapshotKeeps
  OBVIOUS
<1>1. PICK S \in SUBSET Handle : Old \in [S -> Registration]
  BY DeliveryAssumption
<1>2. SnapshotKeeps
  BY DEF Init, SnapshotKeeps
<1>3. HandlesSurvive
  BY <1>1 DEF Init, HandlesSurvive, Loaded, Restrict, Refused
<1>4. QED
  BY <1>2, <1>3

LEMMA SurviveStays ==
  TypeOK /\ Known /\ HandlesSurvive /\ SnapshotKeeps /\ [Next]_vars
    => HandlesSurvive' /\ SnapshotKeeps'
<1> SUFFICES ASSUME TypeOK, Known, HandlesSurvive, SnapshotKeeps, [Next]_vars
             PROVE  HandlesSurvive' /\ SnapshotKeeps'
  OBVIOUS
<1>1. ASSUME NEW cfg \in Config, NEW readable \in BOOLEAN, Restart(cfg, readable)
      PROVE  HandlesSurvive' /\ SnapshotKeeps'
  <2>1. SnapshotKeeps'
    BY <1>1 DEF Restart, SnapshotKeeps
  <2>2. CASE readable
    BY <1>1, <2>2 DEF Restart, HandlesSurvive, SnapshotKeeps, Loaded, Restrict, Refused
  <2>3. CASE ~readable
    BY <1>1, <2>3 DEF Restart, HandlesSurvive, SnapshotKeeps
  <2>4. QED
    BY <2>1, <2>2, <2>3
<1>2. ASSUME NEW h \in Handle, NEW reg \in Registration, Register(h, reg)
      PROVE  HandlesSurvive' /\ SnapshotKeeps'
  <2>1. durable \subseteq DOMAIN drawn
    BY TypeParts DEF DiskOK
  <2>2. QED
    BY <1>2, <2>1 DEF Register, HandlesSurvive, SnapshotKeeps
<1>3. CASE Flush
  BY <1>3 DEF Flush, HandlesSurvive, SnapshotKeeps
<1>4. ASSUME NEW reg \in Registration, GiveUp(reg) PROVE HandlesSurvive' /\ SnapshotKeeps'
  BY <1>4 DEF GiveUp, HandlesSurvive, SnapshotKeeps
<1>5. ASSUME NEW c \in Call, CallAction(c) PROVE HandlesSurvive' /\ SnapshotKeeps'
  BY <1>5, CallsDropTheGone DEF HandlesSurvive, SnapshotKeeps
<1>6. CASE UNCHANGED vars
  BY <1>6 DEF vars, HandlesSurvive, SnapshotKeeps
<1>7. QED
  BY <1>1, <1>2, <1>3, <1>4, <1>5, <1>6, NextCases

(* A handle that was ever in the snapshot is served until its token is gone,  *)
(* except for what a start dropped.                                           *)
THEOREM NoHandleIsLost == Spec => []HandlesSurvive
<1>1. Init => TypeOK /\ Known /\ HandlesSurvive /\ SnapshotKeeps
  BY InitTypes, InitKnown, InitSurvive
<1>2. TypeOK /\ Known /\ HandlesSurvive /\ SnapshotKeeps /\ [Next]_vars
        => (TypeOK /\ Known /\ HandlesSurvive /\ SnapshotKeeps)'
  BY NextTypes, KnownStays, SurviveStays
<1>3. QED
  BY <1>1, <1>2, PTL DEF Spec
-----------------------------------------------------------------------------
LEMMA OutcomesStay == TypeOK /\ Known /\ OutcomesAreTrue /\ [Next]_vars => OutcomesAreTrue'
<1> SUFFICES ASSUME TypeOK, Known, OutcomesAreTrue, [Next]_vars PROVE OutcomesAreTrue'
  OBVIOUS
<1>1. ASSUME NEW cfg \in Config, NEW readable \in BOOLEAN, Restart(cfg, readable)
      PROVE  OutcomesAreTrue'
  BY <1>1, Idle DEF Restart, OutcomesAreTrue
<1>2. ASSUME NEW h \in Handle, NEW reg \in Registration, Register(h, reg)
      PROVE  OutcomesAreTrue'
  BY <1>2 DEF Register, OutcomesAreTrue, Known
<1>3. CASE Flush \/ UNCHANGED vars
  BY <1>3 DEF Flush, vars, OutcomesAreTrue
<1>4. ASSUME NEW reg \in Registration, GiveUp(reg) PROVE OutcomesAreTrue'
  BY <1>4 DEF GiveUp, OutcomesAreTrue
<1>5. ASSUME NEW c \in Call, CallAction(c) PROVE OutcomesAreTrue'
  <2>1. ASSUME NEW h \in Handle, Wake(c, h) PROVE OutcomesAreTrue'
    <3>1. ConfigOK /\ store[h] = drawn[h] /\ drawn[h].platform \in Platform
      BY <2>1, WakeMoves, TypeParts, DeliveryAssumption
    <3>2. QED
      BY <2>1, <3>1, WakeMoves, SendersAreSenders DEF OutcomesAreTrue
  <2>2. CASE Finish(c) \/ \E h \in Handle : Refuse(c, h)
    BY <2>2, RestMoves DEF OutcomesAreTrue
  <2>3. ASSUME NEW answers \in Answers, Dial(c, answers) PROVE OutcomesAreTrue'
    BY <2>3, DialMoves DEF OutcomesAreTrue
  <2>4. CASE Accept(c)
    BY <2>4, AcceptMoves DEF OutcomesAreTrue
  <2>5. ASSUME NEW outcome, End(c, outcome),
               outcome = "delivered" => call[c].accepted,
               outcome = "unregistered" => drawn[call[c].handle] \in gone
        PROVE  OutcomesAreTrue'
    <3>1. UNCHANGED <<config, drawn, gone>> /\ \A d \in Call \ {c} : call'[d] = call[d]
      BY <2>5, EndMoves
    <3>2. DOMAIN store' = IF outcome = "unregistered"
                          THEN DOMAIN store \ {call[c].handle} ELSE DOMAIN store
      BY <2>5, EndMoves
    <3>3. /\ call'[c].handle = call[c].handle /\ call'[c].outcome = outcome
          /\ call'[c].accepted = call[c].accepted
      BY <2>5, EndMoves
    <3>4. ASSUME NEW d \in Call
          PROVE  /\ call'[d].outcome = "delivered" =>
                      \/ call'[d].accepted
                      \/ config'.echo /\ drawn'[call'[d].handle].platform \notin config'.senders
                 /\ call'[d].outcome = "unregistered" =>
                      drawn'[call'[d].handle] \in gone' /\ call'[d].handle \notin DOMAIN store'
      <4>1. CASE d = c
        BY <2>5, <3>1, <3>2, <3>3, <4>1
      <4>2. CASE d # c
        BY <3>1, <3>2, <4>2 DEF OutcomesAreTrue
      <4>3. QED
        BY <4>1, <4>2
    <3>5. QED
      BY <3>4 DEF OutcomesAreTrue
  <2>6. CASE Answer(c) \/ GivesUp(c)
    BY <2>5, <2>6, AnswersMean DEF GivesUp
  <2>7. QED
    BY <1>5, <2>1, <2>2, <2>3, <2>4, <2>6 DEF CallAction
<1>6. QED
  BY <1>1, <1>2, <1>3, <1>4, <1>5, NextCases

(* What a wake is answered is what happened to it.                            *)
THEOREM AnswersAreTruthful == Spec => []OutcomesAreTrue
<1>1. Init => TypeOK /\ Known /\ OutcomesAreTrue
  BY InitTypes, InitKnown, Idle DEF Init, OutcomesAreTrue
<1>2. TypeOK /\ Known /\ OutcomesAreTrue /\ [Next]_vars => (TypeOK /\ Known /\ OutcomesAreTrue)'
  BY NextTypes, KnownStays, OutcomesStay
<1>3. QED
  BY <1>1, <1>2, PTL DEF Spec
-----------------------------------------------------------------------------
(* A call that waits for an address, or has one, passed the sender's checks.  *)
Checked == \A c \in Call : call[c].pc \in {"resolving", "dialled"} => Sendable(drawn[call[c].handle])

LEMMA DialsStay ==
  TypeOK /\ Known /\ Checked /\ DialsOnlyPublic /\ [Next]_vars => Checked' /\ DialsOnlyPublic'
<1> SUFFICES ASSUME TypeOK, Known, Checked, DialsOnlyPublic, [Next]_vars
             PROVE  Checked' /\ DialsOnlyPublic'
  OBVIOUS
<1>1. ASSUME NEW cfg \in Config, NEW readable \in BOOLEAN, Restart(cfg, readable)
      PROVE  Checked' /\ DialsOnlyPublic'
  BY <1>1, Idle DEF Restart, Checked, DialsOnlyPublic
<1>2. ASSUME NEW h \in Handle, NEW reg \in Registration, Register(h, reg)
      PROVE  Checked' /\ DialsOnlyPublic'
  BY <1>2 DEF Register, Checked, DialsOnlyPublic, Known, Sendable
<1>3. CASE Flush \/ (\E reg \in Registration : GiveUp(reg)) \/ UNCHANGED vars
  BY <1>3 DEF Flush, GiveUp, vars, Checked, DialsOnlyPublic, Sendable
<1>4. ASSUME NEW c \in Call, CallAction(c) PROVE Checked' /\ DialsOnlyPublic'
  <2>1. ASSUME NEW h \in Handle, Wake(c, h) PROVE Checked' /\ DialsOnlyPublic'
    BY <2>1, WakeMoves DEF Checked, DialsOnlyPublic, Sendable
  <2>2. CASE Finish(c) \/ \E h \in Handle : Refuse(c, h)
    BY <2>2, RestMoves DEF Checked, DialsOnlyPublic, Sendable
  <2>3. ASSUME NEW answers \in Answers, Dial(c, answers) PROVE Checked' /\ DialsOnlyPublic'
    <3>1. Checked'
      BY <2>3, DialMoves DEF Checked, Sendable
    <3>2. Public(call'[c].addr) /\ call'[c].addr \in Address4 \cup Address6
      BY <2>3, DialMoves, DeliveryAssumption DEF Resolves
    <3>3. Routable(call'[c].addr)
      BY <3>2, GuardIsExactEverywhere
    <3>4. LET reg == drawn[call[c].handle] IN
          reg.platform = "webpush" =>
            /\ reg.endpoint.scheme = "https"
            /\ \E r \in HostRules(config) : Matches(r, reg.endpoint.host)
      BY <2>3, DialMoves DEF Checked, Sendable, AcceptsEndpoint
    <3>5. QED
      BY <2>3, <3>1, <3>3, <3>4, DialMoves DEF DialsOnlyPublic
  <2>4. CASE Accept(c)
    BY <2>4, AcceptMoves DEF Checked, DialsOnlyPublic, Sendable
  <2>5. ASSUME NEW outcome, End(c, outcome) PROVE Checked' /\ DialsOnlyPublic'
    <3>1. UNCHANGED <<config, drawn>> /\ \A d \in Call \ {c} : call'[d] = call[d]
      BY <2>5, EndMoves
    <3>2. call'[c].pc = "done"
      BY <2>5, EndMoves
    <3>3. QED
      BY <3>1, <3>2 DEF Checked, DialsOnlyPublic, Sendable
  <2>6. CASE Answer(c) \/ GivesUp(c)
    BY <2>5, <2>6, AnswerEnds DEF GivesUp
  <2>7. QED
    BY <1>4, <2>1, <2>2, <2>3, <2>4, <2>6 DEF CallAction
<1>5. QED
  BY <1>1, <1>2, <1>3, <1>4, NextCases

(* No connection to an internal address, or for Web Push to an unlisted host. *)
THEOREM ConnectsOnlyToPublic == Spec => []DialsOnlyPublic
<1>1. Init => TypeOK /\ Known /\ Checked /\ DialsOnlyPublic
  BY InitTypes, InitKnown, Idle DEF Init, Checked, DialsOnlyPublic
<1>2. TypeOK /\ Known /\ Checked /\ DialsOnlyPublic /\ [Next]_vars
        => (TypeOK /\ Known /\ Checked /\ DialsOnlyPublic)'
  BY NextTypes, KnownStays, DialsStay
<1>3. QED
  BY <1>1, <1>2, PTL DEF Spec

(* And none to a public address is refused, whatever a name resolves to.      *)
THEOREM GuardNeverErrs == Spec => []GuardIsExact
<1>1. ASSUME NEW a \in Address PROVE Resolves({a}) <=> Routable(a)
  <2>1. a \in Address4 \cup Address6
    BY DeliveryAssumption DEF Address
  <2>2. QED
    BY <2>1, GuardIsExactEverywhere DEF Resolves
<1>2. GuardIsExact
  BY <1>1 DEF GuardIsExact, ExactOnAnswers
<1>3. QED
  BY <1>2, PTL
=============================================================================
