------------------------------ MODULE NetStack ------------------------------
(***************************************************************************)
(* The network module (modules/net): net_task(), which gets frames from    *)
(* its box, answers ARP and ICMP echo requests, and gives the frame's      *)
(* buffers back.  A frame is a record: dst, the destination as two bytes;  *)
(* type; oper, the ARP operation or the IP protocol and type; src and to,  *)
(* the addresses; and n, the buffers that it takes.                        *)
(*                                                                         *)
(* What it prints goes through putchar(), which waits for a place in       *)
(* stdio's ring.  While it waits there, the driver's msg_send() makes it   *)
(* ready, and leaves its wait_id.                                          *)
(***************************************************************************)
EXTENDS Emac

CONSTANTS
  Mac,        \* netif_t.mac, two bytes of it
  IpAddr,     \* netif_t.ip_addr
  Text,       \* bound: the characters of what is printed
  MostRead    \* bound: how often net_task() calls msg_get() at most

VARIABLES
  net,        \* ipv4_id, the chain at hand (buf), and what is
              \* left of it to free (rest)
  pkt,        \* the one packet of buf.c
  tty,        \* the output: text, what is left of it to print; chars, what is
              \* in stdio's ring; waits, net_task's wait_id is tx_buf_sem
  handled     \* history: the frames that net_task() got

netVars == <<net, pkt, handled>>

All == 255
None == [kind |-> "none", to |-> 0, id |-> 0]

NetInit ==
  /\ net = [ipv4_id |-> 0, buf |-> NoBuf, rest |-> NoBuf]
  /\ pkt = None /\ handled = <<>>
  /\ tty = [text |-> 0, chars |-> 0, waits |-> FALSE]

(* net_task(): a byte of the destination is ours or all ones.              *)
IsOurs_Bug(f) == f.dst = Mac
IsOurs(f) == \A i \in DOMAIN Mac : f.dst[i] \in {All, Mac[i]}

(* arp_pkt_rx(): replies, and announcements, are looked up in a cache to   *)
(* which nothing is ever added; a request to us is answered.               *)
IsNews(f) == f.oper = "reply" \/ f.to = f.src
ArpAnswers_Bug(f) == f.to = IpAddr
ArpAnswers(f) == ~IsNews(f) /\ f.to = IpAddr

(* ipv4_pkt_rx(), icmp_pkt_rx(), udp_pkt_rx(): only echo requests to us    *)
(* are answered.  A fragment is taken for a packet.                        *)
IpAnswers(f) == f.to = IpAddr /\ f.oper \in {"echo request", "echo fragment"}

(* NET_DEBUG and the dumps of udp_pkt_rx() are printf().                   *)
Prints(f) ==
  /\ IsOurs(f)
  /\ \/ f.type = "arp" /\ IsNews(f)
     \/ f.type = "ipv4" /\ f.to = IpAddr /\ f.oper \in {"udp", "echo fragment"}
     \/ f.type \notin {"arp", "ipv4"}

(* ipv4_hdr_init(): the packets that are sent are numbered.                *)
Ipv4Id == (net.ipv4_id + 1) % 65536

Announcement == [kind |-> "arp", to |-> All, id |-> 0]
ArpReply(f) == [kind |-> "arp reply", to |-> f.src, id |-> 0]
EchoReply(f, id) == [kind |-> "echo reply", to |-> f.src, id |-> id]

-----------------------------------------------------------------------------
Does(from, to) == Step("net", from, to) /\ UNCHANGED <<schedVars, boxVars>>

(* arp_init(): our address is announced.                                   *)
NetStart == /\ Does("start", "send")
            /\ pkt' = Announcement
            /\ UNCHANGED <<emacVars, net, handled, tty>>

(* msg_get(): it waits when the box is empty, and takes a message without  *)
(* looking again, whoever made it ready.  Its wait_id is left alone.       *)
NetWait == /\ Len(handled) < MostRead
           /\ Step("net", "get", "take")
           /\ \/ /\ box.num_msgs # 0 /\ UNCHANGED <<status, run>>
              \/ /\ box.num_msgs = 0
                 /\ status' = [status EXCEPT !["net"] = "box"]
                 /\ run' = First(status')
           /\ UNCHANGED <<count_now, isr, missed, boxVars, emacVars, netVars, tty>>
NetTake == /\ Step("net", "take", "look") /\ Taken
           /\ net' = [net EXCEPT !.buf = loc', !.rest = loc']
           /\ UNCHANGED <<schedVars, emacVars, pkt, handled, tty>>

(* The frame is read in the buffers, and what is to be printed of it is    *)
(* printed: ...                                                            *)
Of(b) == rx_desc[b].frame
NetLook ==
  /\ \/ /\ Does("look", "print") /\ Prints(Of(net.buf))
        /\ tty' = [tty EXCEPT !.text = Text]
     \/ Does("look", "answer") /\ ~Prints(Of(net.buf)) /\ UNCHANGED tty
  /\ UNCHANGED <<emacVars, netVars>>

(* ... putchar() gets a place, and does not look whether it got one; ...   *)
NetPrint == /\ Step("net", "print", "put") /\ Get("tx_buf")
            /\ tty' = [tty EXCEPT !.waits = @ \/ count_now["tx_buf"] = 0]
            /\ UNCHANGED <<boxVars, emacVars, netVars>>
NetPut == /\ Does("put", IF tty.text = 1 THEN "answer" ELSE "print")
          /\ tty' = [tty EXCEPT !.text = @ - 1, !.chars = @ + 1]
          /\ UNCHANGED <<emacVars, netVars>>

(* ... and a reply to it is made.                                          *)
NetAnswer ==
  LET f == Of(net.buf)
      arp == IsOurs(f) /\ f.type = "arp"
      ip == IsOurs(f) /\ f.type = "ipv4"
  IN  /\ Does("answer", IF (arp /\ ArpAnswers(f)) \/ (ip /\ IpAnswers(f)) THEN "send" ELSE "free")
      /\ pkt' = CASE arp /\ ArpAnswers(f) -> ArpReply(f)
                  [] ip /\ IpAnswers(f) -> EchoReply(f, net.ipv4_id)
                  [] OTHER -> pkt
      /\ net' = [net EXCEPT !.ipv4_id = IF ip /\ IpAnswers(f) THEN Ipv4Id ELSE @]
      /\ handled' = Append(handled, f)
      /\ UNCHANGED <<emacVars, tty>>

(* pkt_send(), which is the driver's rx_func(): four steps.                *)
NetSend ==
  /\ \/ Does("send", "last") /\ TxCopy(pkt) /\ UNCHANGED eth
     \/ Does("last", "size") /\ TxMark("last") /\ UNCHANGED eth
     \/ Does("size", "next") /\ TxMark("size") /\ UNCHANGED eth
     \/ Does("next", "go") /\ TxNext /\ UNCHANGED eth
     \/ /\ Does("go", IF net.buf = NoBuf THEN "get" ELSE "free")
        /\ eth' = [eth EXCEPT !.sending = TRUE]
        /\ UNCHANGED <<txVars, spoilt>>
  /\ UNCHANGED <<rxVars, val, netVars, tty>>

(* dev_buf_free(), for each buffer of the chain.                           *)
NetFree ==
  /\ UNCHANGED tty
  /\ \/ /\ Does("free", "retire") /\ GiveBack(net.rest)
        /\ UNCHANGED <<bufs, net>> /\ UNCHANGED <<rx, txVars, eth, val, spoilt, pkt, handled>>
     \/ /\ Does("retire", "unchain") /\ Retire(net.rest)
        /\ net' = [net EXCEPT !.buf = net.rest, !.rest = bufs[net.rest].next]
        /\ UNCHANGED <<rx_desc, rx, txVars, eth, val, spoilt, pkt, handled>>
     \/ /\ Does("unchain", IF net.rest = NoBuf THEN "get" ELSE "free") /\ Unchain(net.buf)
        /\ spoilt' = IF bufs[net.buf].active /\ bufs[net.buf].next # NoBuf
                     THEN spoilt \cup {"cut"} ELSE spoilt
        /\ net' = [net EXCEPT !.buf = net.rest]
        /\ UNCHANGED <<rx_desc, rx, txVars, eth, val, pkt, handled>>

NetTask == \/ NetStart \/ NetWait \/ NetTake \/ NetLook \/ NetPrint \/ NetPut
           \/ NetAnswer \/ NetSend \/ NetFree

(* stdout_task(), more urgent than the tasks here, has passed a character  *)
(* on, and gives its place back.  sem_give() takes a task that waits for   *)
(* the one whose wait_id it finds, and so wakes net_task() in msg_get().   *)
Printed ==
  /\ isr = "off" /\ tty.chars > 0
  /\ LET waiting == tty.waits /\ status["net"] # "READY"
     IN  \/ /\ ~Gives("tx_buf")
            /\ tty' = [tty EXCEPT !.chars = @ - 1]
            /\ UNCHANGED <<count_now, status, run, spoilt>>
         \/ /\ Gives("tx_buf") /\ (count_now["tx_buf"] # 0 \/ ~waiting)
            /\ count_now' = [count_now EXCEPT !["tx_buf"] = @ + 1]
            /\ tty' = [tty EXCEPT !.chars = @ - 1]
            /\ UNCHANGED <<status, run, spoilt>>
         \/ /\ Gives("tx_buf") /\ count_now["tx_buf"] = 0 /\ waiting
            /\ status' = [status EXCEPT !["net"] = "READY"]
            /\ run' = First(status')
            /\ tty' = [tty EXCEPT !.chars = @ - 1, !.waits = FALSE]
            /\ spoilt' = IF status["net"] = "box" THEN spoilt \cup {"stray"} ELSE spoilt
            /\ UNCHANGED count_now
  /\ UNCHANGED <<isr, missed, pc, boxVars, rxVars, txVars, eth, val, netVars>>
=============================================================================
