------------------------------- MODULE Network -------------------------------
(***************************************************************************)
(* The datagrams that the file-transfer client and server of the RDT Lab   *)
(* exchange, and the UDP network between them.                             *)
(*                                                                         *)
(* A file is a sequence of blocks; the content of a block is the triple    *)
(* <<path, version, index>>, which is all the properties tell apart.  A    *)
(* digest (MD5) of a byte string is the sequence of its blocks: equal      *)
(* digests are taken to mean equal contents.  A datagram whose CRC32 does  *)
(* not match is dropped by Channel::receiver, so corruption is loss.       *)
(***************************************************************************)
EXTENDS Integers, Sequences, FiniteSets

CONSTANTS Client,      \* the clients: one (IP, port) pair each
          File,        \* the paths clients may ask for
          Existing,    \* those that exist on the server
          Blocks,      \* Blocks[f] = number of blocks of f (file size)
          MaxBlocks,   \* no file is longer than this
          Nil,         \* "no value"
          Retries,     \* mRetries, of the client and of the server
          MaxVersion,  \* bound: how often a file on the server may be replaced
          Unreliable   \* TRUE: datagrams are lost, duplicated and reordered;
                       \* FALSE: each is delivered once, in any order, and no
                       \* timer is shorter than the round trip

ASSUME FileAssumption ==
  /\ Existing \subseteq File
  /\ MaxBlocks \in Nat
  /\ Blocks \in [File -> 0..MaxBlocks]
  /\ Nil \notin File

ASSUME ChannelAssumption ==
  /\ Retries \in Nat \ {0}
  /\ MaxVersion \in Nat \ {0}
  /\ Unreliable \in BOOLEAN

VARIABLE net           \* the datagrams in flight (never forgotten if Unreliable)

-----------------------------------------------------------------------------

BlockId == 0..(MaxBlocks - 1)
Version == 1..MaxVersion
Content == File \X Version \X BlockId

ASSUME ContentAssumption == Nil \notin Content \cup Seq(Content)

\* The blocks of version v of file f, in order: what the server reads from disk.
Bytes(f, v) == [i \in 1..Blocks[f] |-> <<f, v, i - 1>>]

\* Retransmission counters: 0 when no entry is live, else the number of
\* datagrams Channel::sender has already put on the wire for it, and one more
\* once it has found the last retry spent.
Tries == 0..(Retries + 2)

QueryMsg(c, f)       == [type |-> "Query", client |-> c, path |-> f]
GetMsg(c, f)         == [type |-> "Get", client |-> c, path |-> f]
AcknowledgeMsg(c, f, b) ==
  [type |-> "Acknowledge", client |-> c, path |-> f, block |-> b]
ChecksumMsg(c, f, d) ==
  [type |-> "Checksum", client |-> c, path |-> f, digest |-> d]

SizeMsg(c, f)        == [type |-> "Size", client |-> c, path |-> f, size |-> Blocks[f]]
StartMsg(c, f)       == [type |-> "Start", client |-> c, path |-> f]
DataMsg(c, f, b, d)  == [type |-> "Data", client |-> c, path |-> f, block |-> b, data |-> d]
ConfirmMsg(c, f)     == [type |-> "Confirm", client |-> c, path |-> f]
ErrorMsg(c, f)       == [type |-> "Error", client |-> c, path |-> f]

ToServer ==
       [type : {"Query", "Get"}, client : Client, path : File]
  \cup [type : {"Acknowledge"}, client : Client, path : File, block : BlockId]
  \cup [type : {"Checksum"}, client : Client, path : File, digest : Seq(Content)]

ToClient ==
       [type : {"Size"}, client : Client, path : File, size : 0..MaxBlocks]
  \cup [type : {"Start", "Confirm", "Error"}, client : Client, path : File]
  \cup [type : {"Data"}, client : Client, path : File, block : BlockId, data : Content]

Request == {"Query", "Get", "Acknowledge", "Checksum"}
Reply   == {"Size", "Start", "Data", "Confirm", "Error"}

NetworkTypeOK == \A m \in net : m \in ToServer \cup ToClient

NetworkInit == net = {}

\* Socket::send: the datagrams ms join those in flight.
Send(ms) == net' = net \cup ms

\* Socket::receive of m, answered with the datagrams ms.  On an unreliable
\* network m may still arrive again, later or never: a datagram never received
\* is a lost one, a second receipt a duplicate, and receipts come in any order.
Receive(m, ms) ==
  /\ m \in net
  /\ net' = (IF Unreliable THEN net ELSE net \ {m}) \cup ms

=============================================================================
