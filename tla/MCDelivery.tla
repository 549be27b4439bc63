----------------------------- MODULE MCDelivery -----------------------------
(* Two wakes and two handles over three starts: one handle is drawn here, the *)
(* other was left by an older build under a policy that had no host list.     *)
EXTENDS Delivery, TLC

CONSTANTS h1, h2, c1, c2

MCHandle == {h1, h2}
MCCall == {c1, c2}
MCSymmetry == Permutations(MCCall)

Url(scheme, form, host) == [scheme |-> scheme, form |-> form, host |-> host]
NoUrl == Url("", "", <<>>)
Reg(platform, url, topic, ok) ==
  [platform |-> platform, endpoint |-> url, topic |-> topic, wellFormed |-> ok]
Web(url) == Reg("webpush", url, "", TRUE)

Mozilla == <<"updates", "push", "services", "mozilla", "com">>
Relay   == <<"push", "example", "org">>
Windows == <<"notify", "windows", "com">>

Good   == Web(Url("https", "plain", Mozilla))
Relays == Web(Url("https", "plain", <<"a">> \o Relay))
Apns   == Reg("apns", NoUrl, "app.beta", TRUE)
Fcm    == Reg("fcm", NoUrl, "", TRUE)

MCRegistration ==
  {Good, Relays, Apns, Fcm,
   Reg("fcm", NoUrl, "", FALSE),
   Web(Url("http", "plain", Mozilla)),
   Web(Url("https", "userinfo", Mozilla)),
   Web(Url("https", "plain", <<>>)),                \* an IP literal
   Web(Url("https", "plain", Windows)),             \* a wildcard's own base
   Web(Url("https", "plain", <<"evil">> \o Mozilla))}

MCOld == h2 :> Relays

Cfg(listed, hosts, topics, senders, echo) ==
  [listed |-> listed, hosts |-> hosts, topics |-> topics, senders |-> senders, echo |-> echo]
MCConfig ==
  {Cfg(TRUE, DefaultHosts \cup {Wildcard(Relay)}, {}, {"webpush", "apns", "fcm"}, FALSE),
   Cfg(FALSE, {}, {"app"}, {"webpush", "apns"}, FALSE),
   Cfg(FALSE, {}, {"app", "app.beta"}, {"webpush"}, TRUE),
   Cfg(TRUE, {Wildcard(<<"example", "org">>)}, {}, {"fcm"}, FALSE),   \* these two
   Cfg(TRUE, {}, {}, {"webpush"}, FALSE)}                             \* do not start

(* Both sides of every block's edges, plain and embedded.                     *)
Edge4 ==
  {<<0, 0, 0, 0>>, <<0, 255, 255, 255>>, <<1, 0, 0, 0>>, <<9, 255, 255, 255>>,
   <<10, 0, 0, 0>>, <<10, 255, 255, 255>>, <<11, 0, 0, 0>>, <<100, 63, 255, 255>>,
   <<100, 64, 0, 0>>, <<100, 127, 255, 255>>, <<100, 128, 0, 0>>, <<126, 255, 255, 255>>,
   <<127, 0, 0, 1>>, <<128, 0, 0, 0>>, <<169, 253, 255, 255>>, <<169, 254, 169, 254>>,
   <<169, 255, 0, 0>>, <<172, 15, 255, 255>>, <<172, 16, 0, 0>>, <<172, 31, 255, 255>>,
   <<172, 32, 0, 0>>, <<192, 0, 0, 255>>, <<192, 0, 1, 0>>, <<192, 0, 2, 0>>,
   <<192, 0, 3, 0>>, <<192, 88, 98, 255>>, <<192, 88, 99, 0>>, <<192, 88, 100, 0>>,
   <<192, 167, 255, 255>>, <<192, 168, 0, 0>>, <<192, 169, 0, 0>>, <<198, 17, 255, 255>>,
   <<198, 18, 0, 0>>, <<198, 19, 255, 255>>, <<198, 20, 0, 0>>, <<198, 51, 99, 255>>,
   <<198, 51, 100, 0>>, <<198, 51, 101, 0>>, <<203, 0, 112, 255>>, <<203, 0, 113, 0>>,
   <<203, 0, 114, 0>>, <<223, 255, 255, 255>>, <<224, 0, 0, 0>>, <<255, 255, 255, 255>>}

Zeros(n) == [i \in 1..n |-> 0]
Hi(o) == o[1] * 256 + o[2]
Lo(o) == o[3] * 256 + o[4]
Embed(o) == {Zeros(6) \o <<Hi(o), Lo(o)>>,
             Zeros(5) \o <<65535, Hi(o), Lo(o)>>,
             <<100, 65435, 0, 0, 0, 0, Hi(o), Lo(o)>>,
             <<8194, Hi(o), Lo(o), 0, 0, 0, 0, 1>>}

Top(a, b, c, d) == <<a, b, c, d, 0, 0, 0, 1>>
Edge6 ==
  {Top(100, 65435, 1, 0), Top(100, 65435, 2, 0), Top(255, 0, 0, 0), Top(256, 0, 0, 0),
   Top(256, 0, 0, 1), Top(8193, 0, 0, 0), Top(8193, 511, 0, 0), Top(8193, 512, 0, 0),
   Top(8193, 3511, 0, 0), Top(8193, 3512, 0, 0), Top(8193, 3513, 0, 0),
   Top(8195, 0, 0, 0), Top(16382, 0, 0, 0), Top(16383, 4095, 0, 0),
   Top(16383, 4096, 0, 0), Top(64511, 0, 0, 0), Top(64512, 0, 0, 0),
   Top(65023, 0, 0, 0), Top(65024, 0, 0, 0), Top(65151, 0, 0, 0), Top(65152, 0, 0, 0),
   Top(65215, 0, 0, 0), Top(65216, 0, 0, 0), Top(65279, 0, 0, 0), Top(65280, 0, 0, 0)}

AllEdges == Edge4 \cup Edge6 \cup UNION {Embed(o) : o \in Edge4}

(* A name that resolves to nothing, to one address, and to a mixed set: of    *)
(* the public addresses that carry no more state two are enough to dial.      *)
Two == {<<11, 0, 0, 0>>, Top(8195, 0, 0, 0)}
MCAnswers == {{}} \cup {{a} : a \in {e \in AllEdges : ~Routable(e)} \cup Two}
                  \cup {{a, <<10, 0, 0, 0>>} : a \in AllEdges}
                  \cup {{a, <<1, 0, 0, 0>>} : a \in Two}
=============================================================================
