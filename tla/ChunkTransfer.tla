--------------------------- MODULE ChunkTransfer ---------------------------
(***************************************************************************)
(* One transfer of a chunk between two nodes (octopii shipping_lane.rs,    *)
(* chunk.rs, transport/peer.rs): size, data and checksum on a stream, and  *)
(* one status byte back.  A file is read while it is sent, so it can grow  *)
(* or shrink after its size was taken; the connection can break at any     *)
(* point; and the node's RPC receive loop listens on the same connection.  *)
(* A piece stands for a buffer of data, a checksum for the pieces it was   *)
(* computed from.                                                          *)
(***************************************************************************)
EXTENDS Integers, Sequences

CONSTANTS Pieces,   \* contents of a buffer
          MaxSize   \* bound on the size of a chunk

ASSUME ChunkAssumption == MaxSize \in Nat \ {0}

VARIABLES source,   \* the file that is sent: its pieces
          snd,      \* the sender: kind of source, size sent, what was hashed
          stream,   \* what is on the stream: data, then the checksum, then the end
          rcv,      \* the receiver: kind of destination, expected size, data read
          dest,     \* the file at the receiver's path, or <<"old">>
          status,   \* the status byte on its way back
          conn      \* whether the connection is up

chunkVars == <<source, snd, stream, rcv, dest, status, conn>>

Contents == UNION {[1..n -> Pieces] : n \in 0..MaxSize}

\* What is on the stream, and what it is of.
Token(is, of) == [is |-> is, of |-> of]
Data(s) == [i \in 1..Len(s) |-> Token("data", s[i])]
Sum(s) == <<Token("sum", s)>>

\* send_chunk_verified opens the stream and sends the size: the length of the
\* bytes in memory, or the file's length as its metadata gives it.
SendSize ==
  /\ snd.at = "idle" /\ conn
  /\ snd' = [snd EXCEPT !.at = "data", !.size = Len(source)]
  /\ stream' = <<Token("size", Len(source))>>
  /\ UNCHANGED <<source, rcv, dest, status, conn>>

\* Bytes in memory are sent at once, with the checksum of those bytes.
SendMemory ==
  /\ snd.at = "data" /\ snd.kind = "memory" /\ conn
  /\ stream' = stream \o Data(source) \o Sum(source)
  /\ snd' = [snd EXCEPT !.at = "ack", !.hashed = source]
  /\ UNCHANGED <<source, rcv, dest, status, conn>>

\* A file is read to its end, buffer by buffer, and hashed on the way.
SendBuffer ==
  /\ snd.at = "data" /\ snd.kind = "file" /\ conn
  /\ LET n == Len(snd.hashed) IN
       IF n < Len(source)
       THEN /\ stream' = Append(stream, Token("data", source[n + 1]))
            /\ snd' = [snd EXCEPT !.hashed = Append(@, source[n + 1])]
       ELSE /\ stream' = stream \o Sum(snd.hashed)
            /\ snd' = [snd EXCEPT !.at = "ack"]
  /\ UNCHANGED <<source, rcv, dest, status, conn>>

\* Another task writes to the file, or truncates it.
SourceChanges ==
  /\ snd.kind = "file" /\ snd.at = "data"
  /\ \E s \in Contents :
       /\ Len(s) # Len(source)
       /\ \A i \in 1..Len(s) : i <= Len(source) => s[i] = source[i]
       /\ source' = s
  /\ UNCHANGED <<snd, stream, rcv, dest, status, conn>>

\* The receiver takes the stream and reads the size; a receiver to a path
\* creates the file, whatever was there.
ReceiveSize ==
  /\ rcv.at = "accept" /\ conn /\ stream # <<>> /\ Head(stream).is = "size"
  /\ rcv' = [rcv EXCEPT !.at = "data", !.size = Head(stream).of]
  /\ stream' = Tail(stream)
  /\ dest' = IF rcv.kind = "file" THEN <<>> ELSE dest
  /\ UNCHANGED <<source, snd, status, conn>>

\* The node's RPC receive loop takes the stream instead: it reads a message
\* where there is none, and finishes the stream without a status.
ReceiveLoopTakes ==
  /\ rcv.at = "accept" /\ conn /\ stream # <<>>
  /\ stream' = <<>> /\ status' = "finished"
  /\ UNCHANGED <<source, snd, rcv, dest, conn>>

\* The end of the stream, where the receiver asks for more.
Eof == stream = <<>> /\ snd.at = "ack"

Refuse(code) ==
  /\ status' = code /\ rcv' = [rcv EXCEPT !.at = "failed"]
  /\ UNCHANGED <<source, snd, stream, dest, conn>>

\* Data is read until the size is reached.  In a file shorter than its size
\* the checksum is read as data, and then the stream ends.
ReceiveBuffer ==
  /\ rcv.at = "data" /\ conn /\ Len(rcv.data) < rcv.size /\ status = "none"
  /\ \/ /\ stream # <<>>
        /\ LET piece == IF Head(stream).is = "data" THEN Head(stream).of ELSE "sum" IN
             /\ rcv' = [rcv EXCEPT !.data = Append(@, piece)]
             /\ dest' = IF rcv.kind = "file" THEN Append(dest, piece) ELSE dest
        /\ stream' = Tail(stream)
        /\ UNCHANGED <<source, snd, status, conn>>
     \/ Eof /\ Refuse("error")

\* Faulty: the checksum is not compared.
BadVerified == TRUE

\* The checksum that came is the one of the data.
Verified == Head(stream).is = "sum" /\ Head(stream).of = rcv.data

\* The checksum is read and compared, and the status sent.  A destination
\* file is flushed before.
ReceiveChecksum ==
  /\ rcv.at = "data" /\ conn /\ Len(rcv.data) = rcv.size /\ status = "none"
  /\ \/ Eof /\ Refuse("error")
     \/ stream # <<>> /\ ~Verified /\ Refuse("mismatch")
     \/ /\ stream # <<>> /\ Verified
        /\ status' = "ok" /\ rcv' = [rcv EXCEPT !.at = "ok"]
        /\ UNCHANGED <<source, snd, stream, dest, conn>>

\* The sender gets the status, or the end of the stream without one.
GetStatus ==
  /\ snd.at = "ack" /\ status # "none" /\ conn
  /\ snd' = [snd EXCEPT !.at = IF status = "ok" THEN "ok" ELSE "failed"]
  /\ UNCHANGED <<source, stream, rcv, dest, status, conn>>

\* The connection breaks, or idles out while both wait.
ConnectionLost ==
  /\ conn /\ conn' = FALSE
  /\ UNCHANGED <<source, snd, stream, rcv, dest, status>>

\* Every read and write fails on a connection that is gone.
EndFails ==
  /\ ~conn
  /\ \/ /\ snd.at \in {"idle", "data", "ack"} /\ snd' = [snd EXCEPT !.at = "failed"] /\ UNCHANGED rcv
     \/ /\ rcv.at \in {"accept", "data"} /\ rcv' = [rcv EXCEPT !.at = "failed"] /\ UNCHANGED snd
  /\ UNCHANGED <<source, stream, dest, status, conn>>

ChunkInit ==
  /\ source \in Contents
  /\ \E k \in {"memory", "file"} : snd = [at |-> "idle", kind |-> k, size |-> 0, hashed |-> <<>>]
  /\ \E k \in {"memory", "file"} : rcv = [at |-> "accept", kind |-> k, size |-> 0, data |-> <<>>]
  /\ stream = <<>> /\ dest = <<"old">> /\ status = "none" /\ conn = TRUE

ChunkNext ==
  \/ SendSize \/ SendMemory \/ SendBuffer \/ SourceChanges
  \/ ReceiveSize \/ ReceiveLoopTakes \/ ReceiveBuffer \/ ReceiveChecksum
  \/ GetStatus \/ ConnectionLost \/ EndFails

ChunkSpec == ChunkInit /\ [][ChunkNext]_chunkVars

-----------------------------------------------------------------------------
\* A transfer that the sender reports as a success is complete at the
\* receiver: it holds what the sender read and hashed, of the size that was
\* announced, also when the file changed while it was sent.
SentIsStored ==
  snd.at = "ok" =>
    /\ rcv.at = "ok" /\ rcv.data = snd.hashed /\ Len(snd.hashed) = snd.size
    /\ rcv.kind = "file" => dest = snd.hashed

\* A receiver that reports success holds data the sender had, whether the
\* sender learns of it or not.
ReceivedIsWhole ==
  rcv.at = "ok" => rcv.data = snd.hashed /\ (rcv.kind = "file" => dest = rcv.data)

=============================================================================
