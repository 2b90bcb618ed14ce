------------------------------- MODULE MCNet --------------------------------
(***************************************************************************)
(* A small instance of the network.                                        *)
(***************************************************************************)
EXTENDS Net

Queue2 == <<"emac", "net", "idle">>
Prio == [t \in {"emac", "net", "idle"} |->
           CASE t = "emac" -> 100 [] t = "net" -> 110 [] OTHER -> 1000]
OnePlace == [s \in {"tx_buf"} |-> 1]
Us == <<1, 2>>
Places == 0..2

Frame(dst, type, oper, src, to, n) ==
  [dst |-> dst, type |-> type, oper |-> oper, src |-> src, to |-> to, n |-> n, no |-> 0]
Ask   == Frame(<<255, 255>>, "arp", "request", 11, 10, 1)
AskAs == Frame(<<255, 2>>, "arp", "request", 10, 10, 1)
AskOdd == Frame(Us, "arp", "other", 11, 10, 1)
Reply == Frame(Us, "arp", "reply", 11, 10, 1)
Echo  == Frame(Us, "ipv4", "echo request", 11, 10, 1)
Echoed == Frame(Us, "ipv4", "echo reply", 11, 10, 1)
Long  == Frame(Us, "ipv4", "udp", 11, 10, 2)
Alien == Frame(<<3, 2>>, "ipv4", "echo request", 11, 10, 1)
Lost  == Frame(Us, "ipv4", "echo request", 11, 12, 1)
Odd   == Frame(Us, "other", "other", 0, 0, 1)
Frag  == Frame(Us, "ipv4", "echo fragment", 11, 10, 1)
AllKinds == {Frag, Ask, AskAs, AskOdd, Reply, Echo, Echoed, Long, Alien, Lost, Odd}
Mixes == {[kinds |-> {Echo}, more |-> 3], [kinds |-> {Long}, more |-> 4],
          [kinds |-> {Echo, Long}, more |-> 2], [kinds |-> {Ask, Echo}, more |-> 2],
          [kinds |-> AllKinds, more |-> 1]}
=============================================================================
