------------------------------ MODULE AiAnswers ------------------------------
(***************************************************************************)
(* What crates/scrapix-ai makes of the answers of a model: extraction.rs   *)
(* asks for JSON, repairs what it gets and reads a value, a list, a class  *)
(* or entities from it; summary.rs asks for texts, and for one of many     *)
(* documents.  The call itself, with its permits and retries, is that of   *)
(* SyncRequests.                                                           *)
(*                                                                         *)
(* A text that is longer than the model takes is cut at a token first, and *)
(* is not sent if what is left cannot be decoded: whether a text can be    *)
(* cut, if it must be, is part of the task (`cuts', and "uncut" for a      *)
(* document that cannot).                                                  *)
(*                                                                         *)
(* A reply is the sequence of its brackets, scalar values, words that are  *)
(* not JSON and fences of code blocks; keys and separators are left out.   *)
(***************************************************************************)
EXTENDS Naturals, FiniteSets, Sequences, FiniteSetsExt, SequencesExt

CONSTANTS Replies,     \* what the model may answer
          DocTexts,    \* what documents may be, for a summary of many: sequences
          Takeaways    \* how many takeaways are asked for

AiTokens ==
  {"brace", "end_brace", "bracket", "end_bracket", "value", "words", "json_fence", "fence"}

ASSUME AiAssumption ==
  /\ Replies \subseteq Seq(AiTokens) /\ Takeaways \in Nat
  /\ DocTexts \subseteq Seq({"empty", "uncut", "answered", "failed"})

Extractions == {"prompt", "value", "list", "classify", "entities"}

Summaries == {"summary", "headline", "takeaways", "tldr", "audience"}

VARIABLES
  aiTask,      \* the operation, its content or documents, whether what is sent can be cut
  aiAt,        \* where it is
  reply,       \* the model's last answer
  aiData,      \* the JSON that was read
  aiCalls,     \* calls of the model, answered or not
  summarized,  \* documents looked at, and their summaries
  aiAnswer

aiVars == <<aiTask, aiAt, reply, aiData, aiCalls, summarized, aiAnswer>>

AiInit ==
  /\ aiTask \in [op : Extractions \cup Summaries, empty : BOOLEAN, docs : {<<>>}, cuts : BOOLEAN]
                  \cup [op : {"multiple"}, empty : {FALSE}, docs : DocTexts, cuts : BOOLEAN]
  /\ aiAt = "start" /\ reply = <<>> /\ aiData = <<>> /\ aiCalls = 0
  /\ summarized = [docs |-> 0, summaries |-> 0] /\ aiAnswer = <<>>

AiFail == aiAt' = "failed" /\ UNCHANGED <<aiTask, aiData, summarized, aiAnswer>>

\* Nothing is asked about nothing.
RefuseEmpty ==
  /\ aiAt = "start" /\ (aiTask.empty \/ (aiTask.op = "multiple" /\ aiTask.docs = <<>>))
  /\ AiFail /\ UNCHANGED <<reply, aiCalls>>

\* No call is made for a document without text, or whose text cannot be cut.
Unasked == {"empty", "uncut"}

\* summarize_multiple: one document after the other; one that fails is left out.
SummarizeOne ==
  /\ aiAt = "start" /\ aiTask.op = "multiple" /\ summarized.docs < Len(aiTask.docs)
  /\ LET doc == aiTask.docs[summarized.docs + 1]
     IN  /\ aiCalls' = IF doc \in Unasked THEN aiCalls ELSE aiCalls + 1
         /\ summarized' = [docs |-> summarized.docs + 1,
                           summaries |-> summarized.summaries + (IF doc = "answered" THEN 1 ELSE 0)]
  /\ UNCHANGED <<aiTask, aiAt, reply, aiData, aiAnswer>>

MayAsk ==
  IF aiTask.op # "multiple" THEN ~aiTask.empty
  ELSE aiTask.docs # <<>> /\ summarized.docs = Len(aiTask.docs)

NothingToCombine ==
  /\ aiAt = "start" /\ MayAsk /\ aiTask.op = "multiple" /\ summarized.summaries = 0
  /\ AiFail /\ UNCHANGED <<reply, aiCalls>>

\* What is sent is the content, or the summaries together.
HasText == MayAsk /\ (aiTask.op = "multiple" => summarized.summaries > 0)

\* truncate_content: the cut text does not decode.
CutFails ==
  /\ aiAt = "start" /\ HasText /\ ~aiTask.cuts
  /\ AiFail /\ UNCHANGED <<reply, aiCalls>>

\* simple_chat
AskModel ==
  /\ aiAt = "start" /\ HasText /\ aiTask.cuts
  /\ aiCalls' = aiCalls + 1
  /\ \/ AiFail /\ UNCHANGED reply
     \/ /\ reply' \in Replies
        /\ aiAt' = IF aiTask.op \in Extractions THEN "parse" ELSE "text"
        /\ UNCHANGED <<aiTask, aiData, summarized, aiAnswer>>

-----------------------------------------------------------------------------
(* extraction.rs                                                           *)

Closing == [b \in {"brace", "bracket"} |-> IF b = "brace" THEN "end_brace" ELSE "end_bracket"]

\* The parser after one more token: brackets still open, values at the top.
Read(state, token) ==
  LET depth == Len(state.open)
      tops == state.tops + (IF depth = 0 THEN 1 ELSE 0)
  IN  CASE token \in {"brace", "bracket"} -> [state EXCEPT !.open = Append(@, token), !.tops = tops]
        [] token = "value" -> [state EXCEPT !.tops = tops]
        [] token \in {"end_brace", "end_bracket"} ->
             IF depth > 0 /\ Closing[state.open[depth]] = token
             THEN [state EXCEPT !.open = Front(@)] ELSE [state EXCEPT !.sound = FALSE]
        [] OTHER -> [state EXCEPT !.sound = FALSE]

IsJson(s) ==
  LET end == FoldLeft(Read, [open |-> <<>>, tops |-> 0, sound |-> TRUE], s)
  IN  end.sound /\ end.open = <<>> /\ end.tops = 1

WithoutPrefix(s, token) == IF s # <<>> /\ Head(s) = token THEN Tail(s) ELSE s

WithoutSuffix(s, token) == IF s # <<>> /\ Last(s) = token THEN Front(s) ELSE s

Places(s, token) == {i \in DOMAIN s : s[i] = token}

\* From the first opening bracket of a kind to the last closing one; a slice
\* that would end more than a byte before it starts is a panic.
Between_FirstCloseMutant(s, opening, closing) ==
  IF Places(s, closing) = {} THEN s
  ELSE SubSeq(s, Min(Places(s, opening)), Min(Places(s, closing)))

Between(s, opening, closing) ==
  IF Places(s, closing) = {} THEN s
  ELSE SubSeq(s, Min(Places(s, opening)), Max(Places(s, closing)))

Bare(s) == WithoutSuffix(WithoutPrefix(WithoutPrefix(s, "json_fence"), "fence"), "fence")

RepairJson(s) ==
  LET bare == Bare(s)
  IN  IF Places(bare, "brace") # {} THEN Between(bare, "brace", "end_brace")
      ELSE IF Places(bare, "bracket") # {} THEN Between(bare, "bracket", "end_bracket")
      ELSE bare

Panics(s) ==
  LET bare == Bare(s)
      Crossed(opening, closing) ==
        /\ Places(bare, opening) # {} /\ Places(bare, closing) # {}
        /\ Min(Places(bare, opening)) > Max(Places(bare, closing)) + 1
  IN  IF Places(bare, "brace") # {} THEN Crossed("brace", "end_brace")
      ELSE Crossed("bracket", "end_bracket")

\* parse_json
ParseReply ==
  /\ aiAt = "parse"
  /\ IF IsJson(reply) THEN aiData' = reply /\ aiAt' = "read"
     ELSE IF Panics(reply) THEN aiAt' = "panic" /\ UNCHANGED aiData
     ELSE IF IsJson(RepairJson(reply)) THEN aiData' = RepairJson(reply) /\ aiAt' = "read"
     ELSE aiAt' = "failed" /\ UNCHANGED aiData
  /\ UNCHANGED <<aiTask, reply, aiCalls, summarized, aiAnswer>>

\* The tokens of s that stand directly in its outermost bracket.
Inside(s) ==
  SelectSeq([i \in DOMAIN s |-> <<i, s[i]>>],
    LAMBDA at : /\ at[1] > 1 /\ at[2] \notin {"end_brace", "end_bracket"}
                /\ Len(FoldLeft(Read, [open |-> <<>>, tops |-> 0, sound |-> TRUE],
                                SubSeq(s, 1, at[1] - 1)).open) = 1)

AiAnswered(answer) ==
  /\ aiAt' = "answered" /\ aiAnswer' = answer
  /\ UNCHANGED <<aiTask, reply, aiData, aiCalls, summarized>>

AiRefused == aiAt' = "failed" /\ UNCHANGED <<aiTask, reply, aiData, aiCalls, summarized, aiAnswer>>

Is(opening) == Head(aiData) = opening

\* extract_with_prompt, extract_with_schema and extract_fields
ReadData == aiAt = "read" /\ aiTask.op = "prompt" /\ AiAnswered(aiData)

\* extract_value: a missing value is no error.
ReadValue ==
  /\ aiAt = "read" /\ aiTask.op = "value"
  /\ \/ AiAnswered(<<>>)
     \/ Is("brace") /\ Inside(aiData) # <<>> /\ AiAnswered(<<Inside(aiData)[1][2]>>)

ReadList ==
  /\ aiAt = "read" /\ aiTask.op = "list"
  /\ IF Is("bracket") THEN AiAnswered([i \in DOMAIN Inside(aiData) |-> Inside(aiData)[i][2]])
     ELSE AiRefused

\* The answer need not be one of the categories.
ReadClass ==
  /\ aiAt = "read" /\ aiTask.op = "classify"
  /\ \/ AiRefused
     \/ Is("brace") /\ (\E i \in DOMAIN Inside(aiData) : Inside(aiData)[i][2] = "value")
          /\ AiAnswered(<<"value">>)

\* extract_entities: what is not a list is left out, in a list what is no string.
ReadEntities ==
  /\ aiAt = "read" /\ aiTask.op = "entities"
  /\ AiAnswered(IF Is("brace")
                THEN SelectSeq([i \in DOMAIN Inside(aiData) |-> Inside(aiData)[i][2]],
                               LAMBDA t : t = "bracket")
                ELSE <<>>)

-----------------------------------------------------------------------------
(* summary.rs                                                              *)

\* extract_key_takeaways keeps the first lines, the others the whole text.
ReadText ==
  /\ aiAt = "text"
  /\ AiAnswered(IF aiTask.op = "takeaways" /\ Len(reply) > Takeaways
                THEN SubSeq(reply, 1, Takeaways) ELSE reply)

AiNext ==
  \/ RefuseEmpty \/ SummarizeOne \/ NothingToCombine \/ CutFails \/ AskModel \/ ParseReply
  \/ ReadData \/ ReadValue \/ ReadList \/ ReadClass \/ ReadEntities \/ ReadText

-----------------------------------------------------------------------------
AiTypeOK ==
  /\ aiAt \in {"start", "parse", "text", "read", "answered", "failed", "panic"}
  /\ reply \in Seq(AiTokens) /\ aiData \in Seq(AiTokens) /\ aiAnswer \in Seq(AiTokens)
  /\ aiCalls \in Nat

Prose == {"words", "json_fence", "fence"}

\* The reply is one JSON object with nothing but prose around it.
LoneObject ==
  \E i, k \in DOMAIN reply :
    /\ i <= k /\ reply[i] = "brace" /\ IsJson(SubSeq(reply, i, k))
    /\ \A n \in DOMAIN reply \ (i..k) : reply[n] \in Prose

\* An answer is what the model said: JSON as it was sent, or one piece of the
\* reply that is JSON; an object among prose is always found; reading it stops
\* the task only where every bracket was closed before one is opened; and many
\* documents cost one call for each with a text that can be sent and one more, which
\* is made if one of them could be summarized and what they give together can be
\* sent.  (repair_json cuts the reply at its outermost brackets.)
AnswersAreSaid ==
  /\ aiAt \in {"read", "answered"} /\ aiTask.op \in Extractions =>
       /\ IsJson(aiData)
       /\ \E i \in 1..Len(reply), k \in 0..Len(reply) : aiData = SubSeq(reply, i, k)
       /\ IsJson(reply) => aiData = reply
  /\ aiAt \notin {"start", "parse"} /\ LoneObject => aiAt # "panic" /\
       (aiTask.op \in Extractions => aiData # <<>>)
  /\ aiAt = "panic" => \A i, k \in DOMAIN reply :
       (reply[i] = "brace" /\ reply[k] = "end_brace") => k < i
  /\ aiTask.op = "multiple" /\ aiAt \notin {"start"} =>
       LET asked == Cardinality({d \in DOMAIN aiTask.docs : aiTask.docs[d] \notin Unasked})
           told == {d \in DOMAIN aiTask.docs : aiTask.docs[d] = "answered"}
       IN  aiCalls = asked + (IF told # {} /\ aiTask.cuts THEN 1 ELSE 0)

=============================================================================
