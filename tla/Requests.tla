-------------------------------- MODULE Requests --------------------------------
(* How one message of a user becomes answers: request/request_server.cpp,        *)
(* request/request_handler.cpp, request/extractable.cpp and pipe_server.cpp. A   *)
(* message is a sequence of tokens: <<"op", name>>, <<"arg", type>>,             *)
(* <<"len", n>> for the length that opens a pipe, and <<"rest", t>> for what is  *)
(* left of a token of which only a part was read. What an operation does once    *)
(* it is dispatched is the subject of the other modules; here its answer is      *)
(* <<"ran", op>>.                                                                *)
EXTENDS Operations, SequencesExt

CONSTANTS
  Auths,      \* the authentication levels whose requests reach handle_user
  Messages    \* the messages sent, as requests: [op, args, body]

VARIABLES
  auth,       \* the level of the session the message arrives on
  message,    \* history: what the client meant
  rest,       \* m_msg from m_pos on
  calls       \* do_handle, one record per nesting level: [announced, left, out]

rvars == <<auth, message, rest, calls>>

-----------------------------------------------------------------------------
\* A request on the wire.
RECURSIVE Wire(_)
Wire(r) ==
  << <<"op", r.op>> >>
    \o (IF r.op = "PIPE" THEN << <<"len", Len(r.body)>> >> ELSE <<>>)
    \o [i \in DOMAIN r.args |-> <<"arg", r.args[i]>>]
    \o FoldLeft(LAMBDA out, q : out \o Wire(q), <<>>, r.body)

StartsWith(text, s) == Len(s) <= Len(text) /\ SubSeq(text, 1, Len(s)) = s

\* compare, end, expect: what the extractor sees first, nothing at the end.
Current == IF rest = <<>> THEN <<"end", "">> ELSE rest[1]

\* The first string of the list the text starts with, {} when there is none.
peek_from_list(text) ==
  LET hits == {i \in DOMAIN OPERATION_T_STRINGS : StartsWith(text, OPERATION_T_STRINGS[i])}
  IN  {OPERATION_T_STRINGS[i] : i \in {j \in hits : \A k \in hits : j <= k}}

peek_operation ==
  IF Current[1] = "op" THEN peek_from_list(Current[2]) ELSE {}

\* get_operation leaves what follows the string it matched.
get_operation(op) ==
  IF Current[2] = op THEN Tail(rest) ELSE << <<"rest", "name">> >> \o Tail(rest)

-----------------------------------------------------------------------------
\* Reading one object of type t from the tokens: whether it succeeded, and what is
\* left. Every string and container opens with a length, so a failed read of one
\* may have taken the length, and a string read from a container takes as many
\* characters as the container has members.
Lengthy == {"STR", "ARR", "LIST", "SET", "HASH"}

\* An object of type u reads as one of type t, to its end.
Fits(t, u) == t = u \/ <<t, u>> = <<"FLOAT", "INT">> \/ {t, u} = {"ARR", "LIST"}

get_object(t, tokens) ==
  LET tok == IF tokens = <<>> THEN <<"end", "">> ELSE tokens[1]
      left == IF tokens = <<>> THEN <<>> ELSE Tail(tokens)
      part == << <<"rest", "object">> >> \o left
      u == IF tok[1] = "arg" THEN tok[2] ELSE "none"
  IN  CASE Fits(t, u)
             -> [ok |-> TRUE, left |-> left]
        [] <<t, u>> = <<"INT", "FLOAT">> \/ (t = "STR" /\ u \in Lengthy)
             -> [ok |-> TRUE, left |-> part]
        [] t \in Lengthy /\ t # "STR" /\ u \in Lengthy
             -> [ok |-> FALSE, left |-> part]
        [] OTHER
             -> [ok |-> FALSE, left |-> tokens]


\* get_exact: the objects in order, the first that fails throws where it stands;
\* then nothing may follow if this is the end.
get_exact(types, tokens, end) ==
  LET read == FoldLeft(LAMBDA acc, t : IF acc.ok THEN get_object(t, acc.left) ELSE acc,
                       [ok |-> TRUE, left |-> tokens], types)
  IN  [read EXCEPT !.ok = @ /\ (end => read.left = <<>>)]

\* EXIT and TERMINATE insist on being the end wherever they stand.
IsEnd(op, end) == end \/ op \in {"EXIT", "TERMINATE"}

-----------------------------------------------------------------------------
RInit ==
  /\ auth \in Auths
  /\ message \in Messages
  /\ rest = Wire(message)
  /\ calls = << [announced |-> 1, left |-> 1, out |-> <<>>] >>

Top == calls[Len(calls)]

\* One of the requests do_handle was called for is over, with these answers.
Answer(answers) ==
  calls' = [calls EXCEPT ![Len(calls)] =
              [@ EXCEPT !.left = @ - 1, !.out = @ \o answers]]

InPipe == Len(calls) > 1

\* What the handler sends: EXIT closes the client and TERMINATE stops the server
\* without an answer, but in a pipe both are an error.
Sent(op) ==
  CASE op \in {"EXIT", "TERMINATE"} /\ InPipe  -> << <<"error", op>> >>
    [] op \in {"EXIT", "TERMINATE"} /\ ~InPipe -> <<>>
    [] OTHER                                   -> << <<"ran", op>> >>

Refused(op) == ~is_permitted(op, auth)


\* do_handle_single, a request whose operation is not recognised.
BadOperation ==
  /\ Top.left > 0
  /\ peek_operation = {}
  /\ Answer(<< <<"bad_request", "">> >>)
  /\ UNCHANGED <<auth, message, rest>>

\* A plausible slip: the refused request is not stepped over.
refuse_in_place(op) ==
  /\ Top.left > 0
  /\ Refused(op)
  /\ Answer(<< <<"denied", op>> >>)
  /\ rest' = get_operation(op)
  /\ UNCHANGED <<auth, message>>

\* refuse_with_response: the last request is left where it is, any other is
\* stepped over, and fails instead if it cannot be.
refuse_with_response(op) ==
  /\ Top.left > 0
  /\ Refused(op)
  /\ \/ /\ Top.left = 1
        /\ Answer(<< <<"denied", op>> >>)
        /\ UNCHANGED rest
     \/ /\ Top.left > 1
        /\ LET read == get_exact(DryTypes[op], get_operation(op), IsEnd(op, FALSE))
           IN  /\ Answer(<< <<IF read.ok THEN "denied" ELSE "bad_request", op>> >>)
               /\ rest' = read.left
  /\ UNCHANGED <<auth, message>>

\* dispatch of everything but PIPE.
dispatch(op) ==
  /\ Top.left > 0
  /\ ~Refused(op)
  /\ op # "PIPE"
  /\ LET read == get_exact(DispatchTypes[op], get_operation(op), IsEnd(op, Top.left = 1))
     IN  /\ rest' = read.left
         /\ Answer(IF read.ok THEN Sent(op) ELSE << <<"bad_request", op>> >>)
  /\ UNCHANGED <<auth, message>>

\* request_pipe up to do_handle: the length is read and the pipe's own answers
\* begin; without a length the request fails.
request_pipe ==
  /\ Top.left > 0
  /\ ~Refused("PIPE")
  /\ LET after == get_operation("PIPE")
     IN  IF after # <<>> /\ after[1][1] = "len"
         THEN /\ rest' = Tail(after)
              /\ calls' = Append(calls, [announced |-> after[1][2], left |-> after[1][2],
                                         out |-> <<>>])
         ELSE /\ rest' = after
              /\ Answer(<< <<"bad_request", "PIPE">> >>)
  /\ UNCHANGED <<auth, message>>

\* perform_write and the check that follows request_pipe in dispatch: a pipe whose
\* answers were already written may still be found to have something after it.
perform_write ==
  /\ InPipe
  /\ Top.left = 0
  /\ LET below == calls[Len(calls) - 1]
         agg == <<"agg", Top.announced, Top.out>>
         ok == get_exact(<<>>, rest, below.left = 1).ok
     IN  calls' = [SubSeq(calls, 1, Len(calls) - 1) EXCEPT ![Len(calls) - 1] =
                     [@ EXCEPT !.left = @ - 1,
                               !.out = @ \o <<agg>>
                                 \o IF ok THEN <<>> ELSE << <<"bad_request", "PIPE">> >>]]
  /\ UNCHANGED <<auth, message, rest>>

\* handle_user is over: the message was answered.
Answered == ~InPipe /\ Top.left = 0

Wait == Answered /\ UNCHANGED rvars

RNext ==
  \/ BadOperation
  \/ \E op \in peek_operation : refuse_with_response(op)
  \/ \E op \in peek_operation : dispatch(op)
  \/ "PIPE" \in peek_operation /\ request_pipe
  \/ perform_write
  \/ Wait

RSpec == RInit /\ [][RNext]_rvars

-----------------------------------------------------------------------------
\* The tokens and answers have their shape; every level of do_handle has at most
\* as many requests to go as were announced (do_handle's loop).
RTypeOK ==
  /\ auth \in Auths
  /\ \A i \in DOMAIN rest : rest[i][1] \in {"op", "arg", "len", "rest"}
  /\ \A i \in DOMAIN calls : calls[i].left \in 0 .. calls[i].announced

\* The request is one of the protocol's and has the objects its operation takes.
WellFormed(r) ==
  /\ r.op \in operation_t
  /\ Len(r.args) = Len(DispatchTypes[r.op])
  /\ \A i \in DOMAIN r.args : Fits(DispatchTypes[r.op][i], r.args[i])

\* The three requests dry_dispatch declares with one object less than dispatch.
Misdeclared(r) == Refused(r.op) /\ r.op \in {"CLUSTER_JOIN", "CLUSTER_NEW", "PEER_AUTH"}

\* Well formed down to every pipe in it; a pipe or a misdeclared request that is
\* refused is the last of its pipe, and a pipe in a pipe does not end with a
\* refused request.
RECURSIVE Regular(_)
Regular(r) ==
  /\ WellFormed(r)
  /\ \A i \in DOMAIN r.body :
       /\ Regular(r.body[i])
       /\ i < Len(r.body) => r.body[i].op # "PIPE" /\ ~Misdeclared(r.body[i])
       /\ r.body[i].op = "PIPE" /\ r.body[i].body # <<>> => ~Refused(Last(r.body[i].body).op)

\* The answer a request of a pipe is due: what it would have been answered alone,
\* except that EXIT and TERMINATE are errors.
RECURSIVE Due(_, _)
Due(r, last) ==
  CASE r.op \in {"EXIT", "TERMINATE"} /\ ~last -> <<"bad_request", r.op>>
    [] Refused(r.op)                           -> <<"denied", r.op>>
    [] r.op \in {"EXIT", "TERMINATE"}          -> <<"error", r.op>>
    [] r.op = "PIPE" -> <<"agg", Len(r.body),
                          [i \in DOMAIN r.body |-> Due(r.body[i], last /\ i = Len(r.body))]>>
    [] OTHER         -> <<"ran", r.op>>

\* do_handle, refuse_with_response, dry_dispatch: whatever mixture of permitted and
\* refused requests a pipe holds, each is answered as it would be alone and in its
\* own place: a refused request is stepped over exactly, so the next one is read
\* from where it begins.
InStep ==
  Answered /\ Regular(message) /\ message.op \notin {"EXIT", "TERMINATE"} =>
    Top.out[1] = Due(message, TRUE)

\* As many answers as announced. One more follows only a pipe that was the last
\* request: the BAD_REQUEST of what dispatch found to be left behind it.
RECURSIVE Kept(_, _)
Kept(announced, out) ==
  /\ \/ Len(out) = announced
     \/ /\ Len(out) = announced + 1
        /\ out[announced][1] = "agg"
        /\ out[announced + 1] = <<"bad_request", "PIPE">>
  /\ \A i \in DOMAIN out : out[i][1] = "agg" => Kept(out[i][2], out[i][3])


RECURSIVE AllWellFormed(_)
AllWellFormed(r) == WellFormed(r) /\ \A i \in DOMAIN r.body : AllWellFormed(r.body[i])

\* The requests of a message, the pipes and what is in them.
RECURSIVE RequestsOf(_)
RequestsOf(r) == {r} \union UNION {RequestsOf(r.body[i]) : i \in DOMAIN r.body}

RECURSIVE BadAnswers(_)
BadAnswers(out) ==
  \E i \in DOMAIN out :
    \/ out[i][1] = "bad_request"
    \/ out[i][1] = "agg" /\ BadAnswers(out[i][3])


\* docs/SYNTAX.md of handle_user and request_pipe: "It is guaranteed that there will
\* be exactly one response for each request, with the exception of the `TERMINATE`
\* and `EXIT` commands": a message all of whose requests are well formed gets one.
OneAnswerPerMessage ==
  Answered /\ AllWellFormed(message) /\ message.op \notin {"EXIT", "TERMINATE"} =>
    Len(Top.out) = 1

\* docs/commands/PIPE.md of request_pipe: "one response in the aggregate for each
\* request in the sequence, in the same order". Not so of a pipe whose last request
\* is a pipe that ends with a refused one: the same BAD_REQUEST is then a response
\* too many inside the outer aggregate.
AggregatesExact ==
  Answered /\ AllWellFormed(message) /\ message.op = "PIPE" /\ ~Refused("PIPE") =>
    LET RECURSIVE Exact(_)
        Exact(agg) == /\ Len(agg[3]) = agg[2]
                      /\ \A i \in DOMAIN agg[3] : agg[3][i][1] = "agg" => Exact(agg[3][i])
    IN  Exact(Top.out[1])
===============================================================================
