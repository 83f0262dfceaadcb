-------------------------------- MODULE Sockets ---------------------------------
(* One direction of a connection between two servers: socket/socket_writer.cpp at  *)
(* the server that sends, socket/socket_reader.cpp and client/tcp_client.cpp at    *)
(* the one that reads, and the frames of response/sendable.cpp between them. Any   *)
(* worker may write; m_mutex makes each write one step. Bytes are digits, and a    *)
(* frame's length is written with LengthSize of them, high digit first.            *)
EXTENDS Naturals, Sequences, FiniteSetsExt

CONSTANTS
  Bodies,        \* the messages sent
  LengthSize,    \* M_LENGTH_SIZE: 4 in the code
  Base,          \* the values of a byte: 256 in the code
  Window,        \* bytes the kernel holds at either end
  MaxMessages    \* bound: messages written

ASSUME SocketsAssumption ==
  /\ LengthSize \in Nat \ {0} /\ Base \in Nat \ {0, 1}
  /\ Window \in Nat /\ Window > LengthSize
  /\ \A body \in Bodies : body \in Seq(0 .. Base - 1) /\ Len(body) \in 1 .. Base^LengthSize - 1

VARIABLES
  keeps_headers,         \* external: a length always arrives with a byte of its message
  m_message, m_index,    \* SocketWriter: the bytes to send, and how many of them were
  watched,               \* the writer is in m_write_epoll
  kernel, arrived,       \* bytes the sending kernel holds; bytes that can be read
  moved,                 \* history: bytes that ever arrived
  m_buffer, m_message_left,  \* SocketReader: its m_message as far as read, and the rest
  written, delivered,    \* history: bodies given to write, bodies given to callback
  ends,                  \* history: where in the stream of bytes each written body ends
  sender, reader         \* "open", "closing" (m_closed), "closed" (removed), "down" (terminated)

svars == <<keeps_headers, m_message, m_index, watched, kernel, arrived, moved, m_buffer, m_message_left,
           written, delivered, ends, sender, reader>>
writer == <<m_message, m_index, watched, kernel, written, ends>>

SInit ==
  /\ keeps_headers \in BOOLEAN
  /\ m_message = <<>> /\ m_index = 0 /\ watched = FALSE
  /\ kernel = <<>> /\ arrived = <<>> /\ moved = 0
  /\ m_buffer = <<>> /\ m_message_left = 0
  /\ written = <<>> /\ delivered = <<>> /\ ends = <<>>
  /\ sender = "open" /\ reader = "open"

-----------------------------------------------------------------------------
\* htonl and ntohl. ntohl gets the digits that could be read: size starts at zero.
htonl(n) == [k \in 1 .. LengthSize |-> (n \div Base^(LengthSize - k)) % Base]
ntohl(digits) == MapThenSumSet(LAMBDA k : digits[k] * Base^(LengthSize - k), DOMAIN digits)

\* ntohl undoes htonl, as those of the C library do.
ASSUME LengthAssumption == \A body \in Bodies : ntohl(htonl(Len(body))) = Len(body)

extract_data(body) == htonl(Len(body)) \o body

\* How many bytes were given to write.
StreamEnd == IF ends = <<>> THEN 0 ELSE ends[Len(ends)]

SocketGone == reader \in {"closed", "down"}
SenderGone == sender \in {"closed", "down"}

\* do_write until it would block: the kernel takes some of the bytes when it has room.
\* After the other end is gone it may still take them, and drops them.
try_write_all(message, index) ==
  LET left == Len(message) - index
      space == IF SocketGone THEN left ELSE Window - Len(kernel)
  IN
  \E sent \in IF space = 0 \/ left = 0 THEN {0} ELSE 1 .. Min({space, left}) :
    /\ kernel' = IF SocketGone THEN <<>> ELSE kernel \o SubSeq(message, index + 1, index + sent)
    /\ m_message' = IF sent = left THEN <<>> ELSE message
    /\ m_index' = IF sent = left THEN 0 ELSE index + sent

\* SocketWriter::write registers a writer that was empty. One that emptied itself in
\* an earlier write is still in the epoll until ready runs: then add_writer throws.
write(body) ==
  /\ try_write_all(m_message \o extract_data(body), m_index)
  /\ watched' = (watched \/ (m_message = <<>> /\ m_message' # <<>>))
  /\ sender' \in IF watched /\ m_message = <<>> /\ m_message' # <<>> THEN {sender, "down"} ELSE {sender}

\* A handler's reply or event_publish. What write throws ends the process in the
\* second; RequestServer::handle catches it and sends an error after the reply.
SendMessage(body) ==
  /\ ~SenderGone /\ Len(written) < MaxMessages
  /\ write(body)
  /\ written' = Append(written, body)
  /\ ends' = Append(ends, StreamEnd + Len(extract_data(body)))
  /\ UNCHANGED <<arrived, moved, m_buffer, m_message_left, delivered, reader>>

\* A plausible slip: the writer is unregistered after one attempt.
write_ready_once ==
  /\ ~SenderGone /\ watched
  /\ SocketGone \/ Len(kernel) < Window
  /\ try_write_all(m_message, m_index)
  /\ watched' = FALSE
  /\ UNCHANGED <<arrived, moved, m_buffer, m_message_left, written, ends, delivered, sender, reader>>

\* SocketWriter::ready, when the write epoll reports the socket.
write_ready ==
  /\ ~SenderGone /\ watched
  /\ SocketGone \/ Len(kernel) < Window
  /\ try_write_all(m_message, m_index)
  /\ watched' = (m_message' # <<>>)
  /\ UNCHANGED <<arrived, moved, m_buffer, m_message_left, written, ends, delivered, sender, reader>>

\* do_write on a connection the other end has reset: SIGPIPE, or a SocketError that
\* nothing above the writer's callers catches. Either ends the process.
WriteFails ==
  /\ SocketGone /\ ~SenderGone
  /\ watched \/ Len(written) < MaxMessages
  /\ sender' = "down"
  /\ UNCHANGED <<writer, arrived, moved, m_buffer, m_message_left, delivered, reader>>

-----------------------------------------------------------------------------
\* External: the places in the byte stream just after some of a length's digits.
InHeader == {ends[k] - Len(written[k]) - j : k \in DOMAIN written, j \in 0 .. LengthSize - 1}

\* External: the network brings some of the bytes to the reader.
Arrive ==
  \E k \in 1 .. Min({Len(kernel), Window - Len(arrived)}) :
    /\ keeps_headers => moved + k \notin InHeader \/ (SenderGone /\ k = Len(kernel))
    /\ ~SocketGone
    /\ arrived' = arrived \o SubSeq(kernel, 1, k)
    /\ kernel' = SubSeq(kernel, k + 1, Len(kernel))
    /\ moved' = moved + k
    /\ UNCHANGED <<m_message, m_index, watched, m_buffer, m_message_left, written, ends, delivered,
                   sender, reader>>

\* Nothing is left to read and nothing will come: Socket::read returns 0.
AtEnd(bytes) == bytes = <<>> /\ SenderGone /\ kernel = <<>>

\* A plausible slip: the second part of a message is put where the first one is.
take_over(bytes, left, buffer) ==
  LET n == Min({left, Len(bytes)}) IN
  /\ arrived' = SubSeq(bytes, n + 1, Len(bytes))
  /\ m_message_left' = left - n
  /\ m_buffer' = IF left = n THEN <<>> ELSE SubSeq(bytes, 1, n)
  /\ delivered' = IF left = n THEN Append(delivered, SubSeq(bytes, 1, n)) ELSE delivered

\* The bytes at hand of a message that lacks left more, and the callback if it is whole.
take(bytes, left, buffer) ==
  LET n == Min({left, Len(bytes)})
      m_read == buffer \o SubSeq(bytes, 1, n)
  IN
  /\ arrived' = SubSeq(bytes, n + 1, Len(bytes))
  /\ m_message_left' = left - n
  /\ m_buffer' = IF left = n THEN <<>> ELSE m_read
  /\ delivered' = IF left = n THEN Append(delivered, m_read) ELSE delivered

\* A plausible slip: a message is only read once all of it can be.
read_whole(bytes, left, buffer) ==
  /\ left > 0 /\ Len(bytes) >= left
  /\ take(bytes, left, buffer)
  /\ reader' = reader

\* The second half of SocketReader::read: left is zero for an empty message, which is
\* taken for the end; with no byte at hand the socket would block, which throws. The
\* callback may close its own client, which TcpClient::ready then removes at once.
read_message(bytes, left, buffer) ==
  \/ /\ left > 0 /\ bytes # <<>>
     /\ take(bytes, left, buffer)
     /\ reader' \in IF delivered' = delivered THEN {reader} ELSE {reader, "closed"}
  \/ /\ left = 0 \/ AtEnd(bytes)
     /\ reader' = "closed"
     /\ arrived' = <<>> /\ m_message_left' = left /\ m_buffer' = buffer
     /\ UNCHANGED delivered
  \/ /\ left > 0 /\ bytes = <<>> /\ ~AtEnd(bytes)
     /\ reader' = "down"
     /\ arrived' = <<>> /\ m_message_left' = left /\ m_buffer' = buffer
     /\ UNCHANGED delivered

read ==
  LET digits == Min({LengthSize, Len(arrived)})
      rest == SubSeq(arrived, digits + 1, Len(arrived))
  IN
  \/ m_message_left > 0 /\ read_message(arrived, m_message_left, m_buffer)
  \/ m_message_left = 0 /\ arrived # <<>> /\ read_message(rest, ntohl(SubSeq(arrived, 1, digits)), <<>>)
  \/ /\ m_message_left = 0 /\ AtEnd(arrived)
     /\ reader' = "closed"
     /\ UNCHANGED <<arrived, m_message_left, m_buffer, delivered>>

\* TcpClient::ready at the reader, when the read epoll reports its socket.
read_ready ==
  /\ arrived # <<>> \/ AtEnd(arrived)
  /\ \/ reader = "open" /\ read
     \/ /\ reader = "closing" /\ reader' = "closed"
        /\ UNCHANGED <<arrived, m_message_left, m_buffer, delivered>>
  /\ UNCHANGED <<writer, moved, sender>>

-----------------------------------------------------------------------------
\* TcpClient::close, called at either end by the handler of another connection: the
\* client stays until it is ready next.
close ==
  /\ \/ sender = "open" /\ sender' = "closing" /\ reader' = reader
     \/ reader = "open" /\ reader' = "closing" /\ sender' = sender
  /\ UNCHANGED <<writer, arrived, moved, m_buffer, m_message_left, delivered>>

\* remove_client at the sender, at the end of its input, once it is closing and input
\* comes, or because the handler of its own input has closed it: what the kernel did
\* not take is dropped, the rest still arrives.
remove_client ==
  /\ sender \in {"open", "closing"}
  /\ sender' = "closed"
  /\ m_message' = <<>> /\ m_index' = 0 /\ watched' = FALSE
  /\ UNCHANGED <<kernel, arrived, moved, m_buffer, m_message_left, written, ends, delivered, reader>>

SNext ==
  /\ UNCHANGED keeps_headers
  /\ \/ \E body \in Bodies : SendMessage(body)
     \/ write_ready
     \/ WriteFails
     \/ Arrive
     \/ read_ready
     \/ close
     \/ remove_client

\* The event loop serves every socket an epoll reports (EventLoop!RequestsServed), and the
\* network moves what it holds.
SFairness ==
  /\ WF_svars(write_ready /\ UNCHANGED keeps_headers)
  /\ WF_svars(Arrive /\ UNCHANGED keeps_headers)
  /\ WF_svars(read_ready /\ UNCHANGED keeps_headers)

SSpec == SInit /\ [][SNext]_svars /\ SFairness

-----------------------------------------------------------------------------
Ends == {"open", "closing", "closed", "down"}

\* The shapes of the state: try_write_all keeps its position inside the message, and
\* the kernel never holds more than it has room for.
STypeOK ==
  /\ keeps_headers \in BOOLEAN
  /\ m_message \in Seq(0 .. Base - 1) /\ kernel \in Seq(0 .. Base - 1) /\ arrived \in Seq(0 .. Base - 1)
  /\ m_index \in 0 .. Len(m_message)
  /\ watched \in BOOLEAN
  /\ Len(kernel) <= Window /\ Len(arrived) <= Window
  /\ moved \in Nat /\ m_message_left \in Nat
  /\ m_buffer \in Seq(0 .. Base - 1)
  /\ written \in Seq(Bodies) /\ Len(written) <= MaxMessages
  /\ ends \in Seq(Nat) /\ Len(ends) = Len(written)
  /\ sender \in Ends /\ reader \in Ends

\* SocketWriter, SocketReader: however the kernel and the network cut the stream into
\* pieces, as long as a length comes with a byte of its message, the reader never
\* throws and hands over exactly the messages that were written, whole and in order.
DeliveredInOrder ==
  keeps_headers =>
    reader # "down" /\ \E n \in 0 .. Len(written) : delivered = SubSeq(written, 1, n)

\* SocketWriter::write, ready: bytes the kernel did not take are in the write epoll's
\* care, whichever writes and reports came in between, and m_index is among them.
PendingIsWatched ==
  IF m_message = <<>> THEN m_index = 0 ELSE watched /\ m_index < Len(m_message)

\* SocketWriter::ready, SocketReader::read: a message longer than the kernel's buffers,
\* or stuck behind others in them, is handed over in the end unless an end goes away.
MessagesArrive ==
  \A k \in 1 .. MaxMessages :
    Len(written) >= k ~> (Len(delivered) >= k \/ sender # "open" \/ reader # "open")
=================================================================================
