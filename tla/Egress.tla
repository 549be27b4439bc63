------------------------------- MODULE Egress -------------------------------
(* What the gateway is willing to connect to (egress.rs) and to store         *)
(* (types.rs): host rules, endpoints, addresses and registrations.  A host    *)
(* name is the sequence of its labels, an address the sequence of its octets  *)
(* (IPv4) or of its 16-bit segments (IPv6).                                   *)
EXTENDS Integers, Sequences, SequencesExt

Address4 == {a \in Seq(0..255) : Len(a) = 4}
Segment  == 0..(2^16 - 1)
Address6 == {a \in Seq(Segment) : Len(a) = 8}

(* A configuration: whether GATEWAY_WEBPUSH_ALLOWED_HOSTS is set (listed) and *)
(* its entries, @default expanded; GATEWAY_APNS_TOPICS, {} when it is unset   *)
(* or empty.                                                                  *)
Exact(labels)    == [wildcard |-> FALSE, labels |-> labels]
Wildcard(labels) == [wildcard |-> TRUE, labels |-> labels]

DefaultHosts ==
  {Exact(<<"fcm", "googleapis", "com">>),
   Exact(<<"updates", "push", "services", "mozilla", "com">>),
   Exact(<<"web", "push", "apple", "com">>),
   Wildcard(<<"notify", "windows", "com">>)}

(* HostRule::parse: a wildcard must sit below a registrable domain.           *)
Parses(entry) == entry.wildcard => Len(entry.labels) >= 3

(* from_config: an invalid entry, or a list of none, stops the start. *)
Starts(config) == config.listed => config.hosts # {} /\ \A e \in config.hosts : Parses(e)
HostRules(config) == IF config.listed THEN config.hosts ELSE DefaultHosts

(* HostRule::matches: a wildcard matches below its base, at a label boundary. *)
Matches(rule, host) ==
  IF rule.wildcard
  THEN Len(host) > Len(rule.labels) /\ IsSuffix(rule.labels, host)
  ELSE host = rule.labels

(* apns_topic_allowed *)
TopicAllowed(config, topic) == config.topics = {} \/ topic \in config.topics

(* validate_webpush_endpoint.  form is "plain" for an absolute URL of bounded *)
(* length without userinfo, fragment or a port of its own; an IP literal, in  *)
(* whatever notation, has no host name.                                       *)
AcceptsEndpoint(config, ep) ==
  /\ ep.scheme = "https"
  /\ ep.form = "plain"
  /\ ep.host # <<>>
  /\ \E r \in HostRules(config) : Matches(r, ep.host)

(* PushRegistration::validate and the bound on its controller's DID, at       *)
(* push/register and when a snapshot is opened.  wellFormed stands for the    *)
(* fields the policy says nothing of: lengths, alphabets and keys.            *)
Accepts(config, reg) ==
  /\ reg.wellFormed
  /\ reg.platform = "apns" => TopicAllowed(config, reg.topic)
  /\ reg.platform = "webpush" => AcceptsEndpoint(config, reg.endpoint)
-----------------------------------------------------------------------------
(* is_public_ipv4, over the octets. *)
PublicV4_Masked(o) ==
  ~ \/ o[1] \in {0, 10, 127, 169, 172, 192, 198, 203}
    \/ o[1] = 100 /\ o[2] \in 64..127
    \/ o[1] >= 224
PublicV4(o) ==
  ~ \/ o[1] \in {0, 10, 127}
    \/ o[1] = 100 /\ o[2] \in 64..127
    \/ o[1] = 169 /\ o[2] = 254
    \/ o[1] = 172 /\ o[2] \in 16..31
    \/ o[1] = 192 /\ (o[2] = 168 \/ <<o[2], o[3]>> \in {<<0, 0>>, <<0, 2>>, <<88, 99>>})
    \/ o[1] = 198 /\ (o[2] \in {18, 19} \/ <<o[2], o[3]>> = <<51, 100>>)
    \/ o[1] = 203 /\ <<o[2], o[3]>> = <<0, 113>>
    \/ o[1] >= 224

(* The IPv4 address that two segments embed. *)
Octets(hi, lo) == <<hi \div 256, hi % 256, lo \div 256, lo % 256>>

Mapped(s) == s[6] \in {0, 65535} /\ \A i \in 1..5 : s[i] = 0
Nat64(s)  == s[1] = 100 /\ s[2] = 65435 /\ \A i \in 3..6 : s[i] = 0

(* is_public_ipv6, over the segments: an address that embeds an IPv4 one is   *)
(* judged by that.  65435 is 0xff9b, 8194 0x2002, 8193 0x2001, 16383 0x3fff.  *)
BlockedV6(s) ==
  \/ s[1] = 100 /\ s[2] = 65435 /\ s[3] = 1
  \/ s[1] = 256 /\ \A i \in 2..4 : s[i] = 0
  \/ s[1] = 8193 /\ (s[2] < 512 \/ s[2] = 3512)
  \/ s[1] = 16383 /\ s[2] < 4096
  \/ s[1] \div 512 = 126      \* fc00::/7
  \/ s[1] \div 64 = 1018      \* fe80::/10
  \/ s[1] \div 64 = 1019      \* fec0::/10
  \/ s[1] \div 256 = 255      \* ff00::/8

PublicV6_Unembedded(s) == ~Mapped(s) /\ ~BlockedV6(s)
PublicV6(s) ==
  IF Mapped(s) \/ Nat64(s) THEN PublicV4(Octets(s[7], s[8]))
  ELSE IF s[1] = 8194 THEN PublicV4(Octets(s[2], s[3]))
  ELSE ~BlockedV6(s)

Public(a) == IF Len(a) = 4 THEN PublicV4(a) ELSE PublicV6(a)

(* GuardedResolver: one answer that is not public condemns the name. *)
Resolves(answers) == answers # {} /\ \A a \in answers : Public(a)
-----------------------------------------------------------------------------
(* The reference is_public_ip is checked against: the special-purpose blocks  *)
(* its comments name, as prefixes, and which addresses embed another one.     *)
Block(prefix, length) == [prefix |-> prefix, length |-> length]

Within(a, width, b) ==
  LET whole == b.length \div width
      rest  == b.length % width
  IN /\ \A i \in 1..whole : a[i] = b.prefix[i]
     /\ rest > 0 => LET unit == 2^(width - rest) IN
                      a[whole + 1] \div unit = b.prefix[whole + 1] \div unit

SpecialV4 ==
  {Block(<<0>>, 8), Block(<<10>>, 8), Block(<<100, 64>>, 10), Block(<<127>>, 8),
   Block(<<169, 254>>, 16), Block(<<172, 16>>, 12), Block(<<192, 0, 0>>, 24),
   Block(<<192, 0, 2>>, 24), Block(<<192, 88, 99>>, 24), Block(<<192, 168>>, 16),
   Block(<<198, 18>>, 15), Block(<<198, 51, 100>>, 24), Block(<<203, 0, 113>>, 24),
   Block(<<224>>, 4), Block(<<240>>, 4)}

SpecialV6 ==
  {Block(<<100, 65435, 1>>, 48), Block(<<256, 0, 0, 0>>, 64), Block(<<8193, 0>>, 23),
   Block(<<8193, 3512>>, 32), Block(<<16383, 0>>, 20), Block(<<64512>>, 7),
   Block(<<65152>>, 10), Block(<<65216>>, 10), Block(<<65280>>, 8)}

Embedding == {Block(<<0, 0, 0, 0, 0, 0>>, 96), Block(<<0, 0, 0, 0, 0, 65535>>, 96),
              Block(<<100, 65435, 0, 0, 0, 0>>, 96)}

Routable4(o) == \A b \in SpecialV4 : ~Within(o, 8, b)
Routable6(s) ==
  IF \E b \in Embedding : Within(s, 16, b) THEN Routable4(Octets(s[7], s[8]))
  ELSE IF Within(s, 16, Block(<<8194>>, 16)) THEN Routable4(Octets(s[2], s[3]))
  ELSE \A b \in SpecialV6 : ~Within(s, 16, b)
Routable(a) == IF Len(a) = 4 THEN Routable4(a) ELSE Routable6(a)
=============================================================================
