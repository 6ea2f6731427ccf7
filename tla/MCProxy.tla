------------------------------- MODULE MCProxy -------------------------------
(***************************************************************************)
(* Two clients of one proxy.  Native requests: tools "x" and "y" in flat   *)
(* lists with repetitions and in Gemini's groups, spellings with and       *)
(* without padding, bodies of every form; a managed run and the question   *)
(* for one; canonical requests of up to three blocks with the caller's     *)
(* flags, one content a secret.                                            *)
(***************************************************************************)
EXTENDS Proxy

CONSTANTS c1, c2

MCSizeOf(content) == IF content = "long" THEN 2 ELSE 1

Message(flag) == <<[content |-> "hi", flag |-> flag]>>

Body(form, endpoint, messages, tools, padding) ==
  [form |-> form, endpoint |-> endpoint, messages |-> messages, tools |-> tools,
   padding |-> padding]

Group(functions, other) == [functions |-> functions, other |-> other]

Bodies ==
  {Body("object", "chat-completions", Message("none"), tools, 2) :
     tools \in {Nothing, <<"x", "y", "x">>}}
  \cup {Body("object", "chat-completions", Message("none"), tools, 0) :
          tools \in {Nothing, <<"y", "x", "x">>}}
  \cup {Body("object", endpoint, Message("proven_redundant"), <<"x", "y", "x">>, 2) :
          endpoint \in {"chat-completions", "responses", "messages"}}
  \cup {Body("object", "messages", Message("none"), <<"x", "x">>, 0)}
  \cup {Body("object", "generate-content", Message("none"), tools, 0) :
          tools \in {<<Group(<<"x", "y", "x">>, Nothing), Group(<<>>, "search")>>,
                     <<Group(<<"x">>, "search"), Group(<<"x">>, Nothing)>>}}
  \cup {Body(form, "chat-completions", <<>>, Nothing, 1) :
          form \in {"invalid", "value", "odd", "undecodable"}}

Native(body, admitted, stream, path_stream) ==
  [kind |-> "native", body |-> body, admitted |-> admitted, stream |-> stream,
   path_stream |-> path_stream]

Natives ==
  {Native(b, TRUE, FALSE, FALSE) : b \in Bodies}
  \cup {Native(b, TRUE, TRUE, FALSE) :
          b \in {x \in Bodies : x.form = "object" /\ x.padding = 2}}
  \cup {Native(b, TRUE, FALSE, TRUE) : b \in {x \in Bodies : x.form = "value"}}
  \cup {Native(Body("invalid", "chat-completions", <<>>, Nothing, 0), FALSE, FALSE, FALSE)}

A == {Block("repository", "long", flag, TRUE) : flag \in {"none", "task_irrelevant"}}
B == {Block("repository", "long", "proven_redundant", TRUE),
      Block("checkpoint", "long", "superseded", TRUE),
      Block("command_output", "key", "represented_by_verified_structure", TRUE)}
C == {Block("checkpoint", "long", "none", TRUE), Block("command_output", "key", "none", FALSE)}

(* A tool of a canonical request may be of any kind.                       *)
Canonicals ==
  {[blocks |-> IF first THEN <<b, c, a>> ELSE <<a, c, b>>,
    tools |-> <<Block(IF a.flag = "none" THEN "tool_definition" ELSE "source",
                      "x", "task_irrelevant", TRUE)>>] :
     a \in A, b \in B, c \in C, first \in BOOLEAN}

Managed(admitted) == [kind |-> "managed", admitted |-> admitted]

(* The second client may also be a command, or ask for the first's run.    *)
MCRequests ==
  (c1 :> Natives \cup {Managed(TRUE)}) @@
  (c2 :> Natives \cup {Managed(TRUE), Managed(FALSE), [kind |-> "status", run |-> c1]}
           \cup {[kind |-> "canonical", canonical |-> r] : r \in Canonicals})
=============================================================================
