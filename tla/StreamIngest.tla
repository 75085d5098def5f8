---------------------------- MODULE StreamIngest ----------------------------
(* The ingestor that turns the agent's output lines into trace events:       *)
(* consecutive thought and message chunks are coalesced into segments, tool  *)
(* updates join the node of their call (src/lib/grok-stream.ts, the merge    *)
(* rules of src/lib/trace-text.ts, the stamping of stream-event-schema.ts).  *)
(* Text is a sequence of words; a chunk also says whether it begins with     *)
(* white space and whether it is a short fragment, which is what the merge   *)
(* rules look at.  "noise" is a system prompt dump, "cli" technical output;  *)
(* prose may come to read as technical output when it is merged.             *)
(* `nodes` is what the trace retains: for each node id the last event.       *)
EXTENDS Naturals, Sequences, FiniteSets, SequencesExt

CONSTANTS
  Chunks,     \* chunks of prose: [words, lead, short, class]
  CliPhrases, \* what makes a text read as technical output (isNonThoughtContent)
  Break,      \* the word that is a line break
  CallIds,    \* tool call ids the agent uses
  MaxNodes,   \* bound: trace nodes
  MaxText     \* bound: words of an open segment

VARIABLES
  thought,  \* the open thought segment: [id, text], id 0 when there is none
  message,  \* the open message segment
  tools,    \* tool call id -> node of its call (toolNodes)
  nodes,    \* node id -> [type, status, text]
  heard     \* words of every chunk that was taken for prose

vars == <<thought, message, tools, nodes, heard>>

NoSegment == [id |-> 0, text |-> <<>>]
NextId == Cardinality(DOMAIN nodes) + 1

Put(ns, id, type, status, text) ==
  [i \in DOMAIN ns \cup {id} |->
     IF i = id THEN [type |-> type, status |-> status, text |-> text] ELSE ns[i]]

-----------------------------------------------------------------------------
(* mergeStreamingText and isStreamingContinuation. *)
Overlap(prev, chunk) ==
  {n \in 1..Len(chunk) : n <= Len(prev) /\ IsPrefix(SubSeq(prev, Len(prev) - n + 1, Len(prev)), chunk)}
Longest(S) == CHOOSE n \in S : \A k \in S : k <= n

MergeReplaces(prev, c) == IF c.lead THEN prev \o c.words ELSE c.words

Merge(prev, c) ==
  IF prev = <<>> \/ IsPrefix(prev, c.words) THEN c.words
  ELSE IF (IsSuffix(c.words, prev) /\ ~c.short) \/ IsPrefix(c.words, prev) THEN prev
  ELSE IF c.lead \/ Overlap(prev, c.words) = {} THEN prev \o c.words
  ELSE prev \o SubSeq(c.words, Longest(Overlap(prev, c.words)) + 1, Len(c.words))

Continues(prev, c) ==
  \/ prev = <<>> \/ IsPrefix(prev, c.words) \/ IsPrefix(c.words, prev)
  \/ c.lead \/ c.short \/ Overlap(prev, c.words) # {}

-----------------------------------------------------------------------------
ReadsAsCli(text) ==
  \E p \in CliPhrases, k \in 0..Len(text) : IsPrefix(p, SubSeq(text, k + 1, Len(text)))

(* flushOpenText: what is open is emitted once more as a sealed segment,     *)
(* unless it reads as technical output.                                      *)
Sealed(ns, seg, type) ==
  IF seg.id = 0 \/ ReadsAsCli(seg.text) THEN ns
  ELSE Put(ns, seg.id, type, "success", seg.text)

FlushedNodes == Sealed(Sealed(nodes, thought, "thinking"), message, "message")

(* A flush that keeps the ids of what it sealed. *)
AfterFlushKeepsId(seg) == [seg EXCEPT !.text = <<>>]
AfterFlush(seg) == NoSegment

Init ==
  /\ thought = NoSegment /\ message = NoSegment
  /\ tools = [c \in CallIds |-> 0]
  /\ nodes = [i \in {} |-> 0]
  /\ heard = {}

Room(k) ==
  /\ Cardinality(DOMAIN nodes) + k <= MaxNodes
  /\ Len(thought.text) <= MaxText /\ Len(message.text) <= MaxText

(* Technical output becomes a debug system node wherever it appears. *)
CliOutput(ns) == Put(ns, NextId, "system", "success", <<>>)

GivenUp(text) == ReadsAsCli(text) /\ Break \notin Range(text)

(* appendThoughtProse: agent_thought_chunk and its variants, and the         *)
(* {type: "thought"} lines of streaming-json.  A chunk with which the        *)
(* segment, still on one line, reads as technical output is dropped, and     *)
(* the segment is given up unsealed: its node keeps what it showed.          *)
ThoughtChunk(c) ==
  /\ Room(1)
  /\ \/ /\ c.class = "noise" /\ UNCHANGED vars
     \/ /\ c.class = "cli"
        /\ nodes' = CliOutput(nodes) /\ UNCHANGED <<thought, message, tools, heard>>
     \/ /\ c.class = "prose"
        /\ LET id == IF thought.id = 0 THEN NextId ELSE thought.id
               text == Merge(thought.text, c)
           IN IF GivenUp(text)
              THEN thought' = NoSegment /\ UNCHANGED <<message, nodes, heard>>
              ELSE /\ thought' = [id |-> id, text |-> text]
                   /\ nodes' = Put(nodes, id, "thinking", "running", text)
                   /\ message' = NoSegment
                   /\ heard' = heard \cup Range(c.words)
        /\ UNCHANGED tools

(* appendMessageProse: an open thought is sealed first; a chunk that does    *)
(* not continue the open message seals it and starts another.                *)
MessageChunk(c) ==
  /\ Room(1)
  /\ \/ /\ c.class = "noise" /\ UNCHANGED vars
     \/ /\ c.class = "cli"
        /\ nodes' = CliOutput(Sealed(nodes, thought, "thinking"))
        /\ thought' = NoSegment /\ UNCHANGED <<message, tools, heard>>
     \/ /\ c.class = "prose"
        /\ LET fresh == message.id = 0 \/ ~Continues(message.text, c)
               base == Sealed(nodes, thought, "thinking")
               kept == IF fresh THEN Sealed(base, message, "message") ELSE base
               id == IF fresh THEN NextId ELSE message.id
               text == IF fresh THEN c.words ELSE Merge(message.text, c)
           IN /\ message' = [id |-> id, text |-> text]
              /\ nodes' = Put(kept, id, "message", "running", text)
        /\ thought' = NoSegment
        /\ heard' = heard \cup Range(c.words)
        /\ UNCHANGED tools

(* tool_call: open text is sealed, the call gets a node of its own and, for  *)
(* a write that carries its content, a file change under it.                 *)
ToolCall(c, writes) ==
  /\ Room(IF writes THEN 2 ELSE 1)
  /\ tools' = [tools EXCEPT ![c] = NextId]
  /\ LET called == Put(FlushedNodes, NextId, "tool", "running", <<>>)
     IN nodes' = IF writes THEN Put(called, NextId + 1, "file", "success", <<>>) ELSE called
  /\ thought' = AfterFlush(thought) /\ message' = AfterFlush(message)
  /\ UNCHANGED heard

(* tool_call_update: joins its call, or a node of its own when the call was  *)
(* never announced; open text stays open.                                    *)
ToolUpdate(c, status, diffs) ==
  /\ Room(2)
  /\ LET id == IF tools[c] = 0 THEN NextId ELSE tools[c]
         joined == Put(nodes, id, IF status = "running" THEN "tool" ELSE "result",
                       status, <<>>)
     IN nodes' = IF diffs THEN Put(joined, Cardinality(DOMAIN joined) + 1, "file",
                                   "success", <<>>)
                          ELSE joined
  /\ UNCHANGED <<thought, message, tools, heard>>

(* turn_completed and task_completed: flush, a system node, resetTurn. *)
TurnCompleted ==
  /\ Room(1)
  /\ nodes' = Put(FlushedNodes, NextId, "system", "success", <<>>)
  /\ thought' = NoSegment /\ message' = NoSegment
  /\ UNCHANGED <<tools, heard>>

(* turn_started resets the segments without sealing them. *)
TurnStarted ==
  /\ Room(1)
  /\ nodes' = Put(nodes, NextId, "system", "running", <<>>)
  /\ thought' = NoSegment /\ message' = NoSegment
  /\ UNCHANGED <<tools, heard>>

(* Everything else is a node of its own and leaves the segments alone:       *)
(* a plain line, an event of the harness, a native typed event, a user       *)
(* message, a backgrounded task, a phase, an exit, unknown JSON.             *)
Standalone(type, status) ==
  /\ Room(1)
  /\ nodes' = Put(nodes, NextId, type, status, <<>>)
  /\ UNCHANGED <<thought, message, tools, heard>>

Next ==
  \/ \E c \in Chunks : ThoughtChunk(c) \/ MessageChunk(c)
  \/ \E c \in CallIds, b \in BOOLEAN : ToolCall(c, b)
  \/ \E c \in CallIds, s \in {"running", "success", "error"}, b \in BOOLEAN :
       ToolUpdate(c, s, b)
  \/ TurnCompleted \/ TurnStarted
  \/ \E k \in {<<"message", "success">>, <<"system", "error">>} : Standalone(k[1], k[2])

Spec == Init /\ [][Next]_vars

-----------------------------------------------------------------------------
TypeOK ==
  /\ thought.id \in 0..MaxNodes /\ message.id \in 0..MaxNodes
  /\ tools \in [CallIds -> 0..MaxNodes]
  /\ DOMAIN nodes = 1..Cardinality(DOMAIN nodes)

(* Progress the terminal would clear is kept: whatever arrives next, the     *)
(* prose of a node only grows and a sealed segment is never written again    *)
(* (grok-stream.ts:906-911, 1004-1006).                                      *)
HistoryIsKept ==
  [][\A i \in DOMAIN nodes : nodes[i].type \in {"thinking", "message"} =>
       /\ i \in DOMAIN nodes' /\ IsPrefix(nodes[i].text, nodes'[i].text)
       /\ nodes[i].status = "success" => nodes'[i] = nodes[i]]_vars

(* Prose once taken is not lost in a merge, a seal, a reset or when its      *)
(* segment comes to read as technical output and is given up (the chunk that *)
(* makes it so is dropped), and at most one segment is open                  *)
(* (grok-stream.ts:947-1049, trace-text.ts:196-231).                         *)
ProseIsKept ==
  /\ heard \subseteq UNION {Range(nodes[i].text) : i \in DOMAIN nodes}
  /\ thought.id = 0 \/ message.id = 0
=============================================================================
