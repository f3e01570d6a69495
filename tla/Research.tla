------------------------------ MODULE Research ------------------------------
(***************************************************************************)
(* application/agents/research_article: plan, search the web and videos in *)
(* parallel, write; with the tools search_web and search_youtube, which    *)
(* search with one of the same two clients, behind the cached adapters.    *)
(*                                                                         *)
(* Video searches run in threads, over one httplib2 connection that is     *)
(* guarded only while it is built: searches on the wire together may read  *)
(* each other's response, or fail.  A thread does not end when the call    *)
(* that started it times out or is cancelled.                              *)
(*                                                                         *)
(* A result is named by the query it answers.  Waiting for another call of *)
(* one key is CacheAside's; here both may load.                            *)
(***************************************************************************)
EXTENDS Integers, FiniteSets

CONSTANTS ToolCalls,    \* of research_article, search_web and search_youtube
          KindOf,       \* "article", "web" or "videos"
          QueryOf,      \* the query of each call
          NodeRetries   \* node_retries, of the nodes that call a model

Providers == {"web", "videos"}
Needs == [c \in ToolCalls |-> IF KindOf[c] = "article" THEN Providers ELSE {KindOf[c]}]
RequestOf == [c \in ToolCalls |-> <<KindOf[c], QueryOf[c]>>]

Nobody == "nobody"     \* no call waits for a thread
None == "none"         \* no results

ASSUME ResearchAssumption ==
  /\ Nobody \notin ToolCalls
  /\ KindOf \in [ToolCalls -> {"article"} \cup Providers]
  /\ QueryOf \in [ToolCalls -> STRING]
  /\ NodeRetries \in Nat

VARIABLES stage,     \* where each call is: in a node that calls a model, or searching
          attempts,  \* failed attempts of the node in hand
          tool,      \* where each search of a call is
          again,     \* whether a search of a call was tried before
          found,     \* whose results each search returned
          threads,   \* video searches on the wire, and who waits for them
          mixed,     \* history: the queries that were on it at once
          kept,      \* what the cached adapters hold, by provider and query
          answers,   \* what the tool cache holds, by request
          told       \* what each call was told

researchVars == <<stage, attempts, tool, again, found, threads, mixed, kept, answers, told>>

Untold == [is |-> "untold"]

ResearchTypeOK ==
  /\ stage \in [ToolCalls -> {"new", "plan", "search", "write", "return", "done"}]
  /\ attempts \in [ToolCalls -> 0..NodeRetries]
  /\ \A c \in ToolCalls : tool[c] \in [Needs[c] -> {"silent", "busy", "ok", "failed"}]
  /\ \A t \in threads : t.for \in ToolCalls \cup {Nobody}

ResearchInit ==
  /\ stage = [c \in ToolCalls |-> "new"]
  /\ attempts = [c \in ToolCalls |-> 0]
  /\ tool = [c \in ToolCalls |-> [p \in Needs[c] |-> "silent"]]
  /\ again = [c \in ToolCalls |-> [p \in Needs[c] |-> FALSE]]
  /\ found = [c \in ToolCalls |-> [p \in Needs[c] |-> None]]
  /\ threads = {}
  /\ mixed = {}
  /\ kept = {}
  /\ answers = {}
  /\ told = [c \in ToolCalls |-> Untold]

Goto(c, p) == stage' = [stage EXCEPT ![c] = p]

\* Nobody waits any longer for the thread of call c.
Orphaned(c) ==
  {IF t.for = c THEN [t EXCEPT !.for = Nobody] ELSE t : t \in threads}

\* The call ends with an exception: the sibling's task is cancelled, a thread
\* goes on.
Fail(c) ==
  /\ told' = [told EXCEPT ![c] = [is |-> "error"]]
  /\ threads' = Orphaned(c)
  /\ Goto(c, "done")
  /\ UNCHANGED <<attempts, tool, again, found, mixed, kept, answers>>

----------------------------------------------------------------------------
\* _cached_tool_invoke: the answer to an earlier call, or a run.
Replay(c) ==
  /\ stage[c] = "new"
  /\ \E a \in answers :
       /\ a.of = RequestOf[c]
       /\ told' = [told EXCEPT ![c] = a.answer]
  /\ Goto(c, "done")
  /\ UNCHANGED <<attempts, tool, again, found, threads, mixed, kept, answers>>

StartArticle(c) ==
  /\ stage[c] = "new" /\ KindOf[c] = "article"
  /\ Goto(c, "plan")
  /\ UNCHANGED <<attempts, tool, again, found, threads, mixed, kept, answers, told>>

StartSearch(c) ==
  /\ stage[c] = "new" /\ KindOf[c] # "article"
  /\ Goto(c, "search")
  /\ UNCHANGED <<attempts, tool, again, found, threads, mixed, kept, answers, told>>

\* Mutant: merge_context does not wait for the other search.
JoinsAny(c) == \E p \in Needs[c] : tool[c][p] \in {"ok", "failed"}

\* merge_context, deferred until both searches have reported.
Joins(c) == \A p \in Needs[c] : tool[c][p] \in {"ok", "failed"}

\* A model answers agent_plan_research, or write_article after merge_context;
\* it raises or times out, and is asked again or ends the call.
ModelAnswers(c) ==
  /\ \/ stage[c] = "plan" /\ Goto(c, "search")
     \/ stage[c] = "search" /\ KindOf[c] = "article" /\ Joins(c) /\ Goto(c, "write")
     \/ stage[c] = "write" /\ Goto(c, "return")
  /\ attempts' = [attempts EXCEPT ![c] = 0]
  /\ UNCHANGED <<tool, again, found, threads, mixed, kept, answers, told>>

ModelFails(c) ==
  /\ stage[c] \in {"plan", "write"}
  /\ \/ /\ attempts[c] < NodeRetries
        /\ attempts' = [attempts EXCEPT ![c] = @ + 1]
        /\ UNCHANGED <<stage, tool, again, found, threads, mixed, kept, answers, told>>
     \/ Fail(c)

\* Mutant: what the adapters keep is not told apart by query.
KeptForAny(p, q) == {k \in kept : k.provider = p}

\* What a cached adapter holds for a query.
KeptFor(p, q) == {k \in kept : k.provider = p /\ k.query = q}

Finds(c, p, q) ==
  /\ tool' = [tool EXCEPT ![c][p] = "ok"]
  /\ found' = [found EXCEPT ![c][p] = q]

\* The thread of call c begins beside those on the wire.
WithThread(c) ==
  {[t EXCEPT !.beside = @ \cup {QueryOf[c]}] : t \in threads}
    \cup {[for |-> c, query |-> QueryOf[c], beside |-> {t.query : t \in threads}]}

\* Its query with each of theirs, both ways.
Beside(c) ==
  UNION {{<<QueryOf[c], t.query>>, <<t.query, QueryOf[c]>>} : t \in threads}

\* tool_search_tavily, tool_search_youtube: the adapter has the results, or
\* the search goes out, videos in a thread of its own.
SearchProvider(c, p) ==
  /\ stage[c] = "search" /\ tool[c][p] = "silent"
  /\ IF KeptFor(p, QueryOf[c]) # {}
     THEN /\ \E k \in KeptFor(p, QueryOf[c]) : Finds(c, p, k.found)
          /\ UNCHANGED <<threads, mixed>>
     ELSE /\ tool' = [tool EXCEPT ![c][p] = "busy"]
          /\ IF p = "web" THEN UNCHANGED <<threads, mixed>>
             ELSE /\ threads' = WithThread(c)
                  /\ mixed' = mixed \cup Beside(c)
          /\ UNCHANGED found
  /\ UNCHANGED <<stage, attempts, again, kept, answers, told>>

Keeps(p, query, of) ==
  kept' = kept \cup {[provider |-> p, query |-> query, found |-> of]}

WebReturns(c) ==
  /\ stage[c] = "search" /\ "web" \in Needs[c] /\ tool[c]["web"] = "busy"
  /\ Finds(c, "web", QueryOf[c])
  /\ Keeps("web", QueryOf[c], QueryOf[c])
  /\ UNCHANGED <<stage, attempts, again, threads, mixed, answers, told>>

\* A response arrives, perhaps one to a search that was on the wire beside
\* it, and the thread that reads it ends.
ThreadReturns(t, q) ==
  /\ t \in threads
  /\ q \in {t.query} \cup t.beside
  /\ threads' = threads \ {t}
  /\ IF t.for = Nobody
     THEN UNCHANGED <<tool, found, kept>>
     ELSE Finds(t.for, "videos", q) /\ Keeps("videos", t.query, q)
  /\ UNCHANGED <<stage, attempts, again, mixed, answers, told>>

Waiting(c, p) == {t \in threads : p = "videos" /\ t.for = c}

\* The limiter or the provider refuses, or the connection breaks: the record
\* of an article's search says so, and the search has found nothing; a tool
\* raises.
SearchFails(c, p) ==
  /\ stage[c] = "search" /\ tool[c][p] = "busy"
  /\ IF KindOf[c] = "article"
     THEN /\ tool' = [tool EXCEPT ![c][p] = "failed"]
          /\ threads' = threads \ Waiting(c, p)
          /\ UNCHANGED <<stage, attempts, again, found, mixed, kept, answers, told>>
     ELSE Fail(c)

\* The credentials are missing or rejected, or the node times out: no record
\* is made, the node is tried a second time or the call ends.
NodeRaises(c, p) ==
  /\ stage[c] = "search" /\ tool[c][p] = "busy"
  /\ \/ /\ KindOf[c] = "article" /\ ~again[c][p]
        /\ again' = [again EXCEPT ![c][p] = TRUE]
        /\ tool' = [tool EXCEPT ![c][p] = "silent"]
        /\ threads' = IF p = "videos" THEN Orphaned(c) ELSE threads
        /\ UNCHANGED <<stage, attempts, found, mixed, kept, answers, told>>
     \/ Fail(c)

\* A tool's search returned.
ToolReturns(c) ==
  /\ stage[c] = "search" /\ KindOf[c] # "article" /\ Joins(c)
  /\ Goto(c, "return")
  /\ UNCHANGED <<attempts, tool, again, found, threads, mixed, kept, answers, told>>

\* The answer goes to the tool cache, if that works, and to the caller, if it
\* is still there.
AnswerCaller(c) ==
  /\ stage[c] = "return"
  /\ LET answer == [is |-> "answer", records |-> tool[c], found |-> found[c]]
     IN  /\ answers' \in {answers, answers \cup {[of |-> RequestOf[c], answer |-> answer]}}
         /\ told' \in {[told EXCEPT ![c] = answer], [told EXCEPT ![c] = [is |-> "error"]]}
  /\ Goto(c, "done")
  /\ UNCHANGED <<attempts, tool, again, found, threads, mixed, kept>>

\* Mutant: the deadline is that of the nodes that call a model.
TimesOutInModel(c) == KindOf[c] = "article" /\ stage[c] \in {"plan", "write"} /\ Fail(c)

\* The deadline of ainvoke_with_workflow_timeout ...
TimesOut(c) == KindOf[c] = "article" /\ stage[c] \in {"plan", "search", "write"} /\ Fail(c)

\* ... and a caller that leaves.
Leave(c) == stage[c] \in {"plan", "search", "write"} /\ Fail(c)

Expire ==
  /\ \/ \E k \in kept : kept' = kept \ {k} /\ UNCHANGED answers
     \/ \E a \in answers : answers' = answers \ {a} /\ UNCHANGED kept
  /\ UNCHANGED <<stage, attempts, tool, again, found, threads, mixed, told>>

ResearchNext ==
  \/ \E c \in ToolCalls :
       \/ Replay(c) \/ StartArticle(c) \/ StartSearch(c) \/ ModelAnswers(c)
       \/ ModelFails(c) \/ WebReturns(c) \/ ToolReturns(c) \/ AnswerCaller(c) \/ TimesOut(c) \/ Leave(c)
       \/ \E p \in Needs[c] : SearchProvider(c, p) \/ SearchFails(c, p) \/ NodeRaises(c, p)
  \/ \E t \in threads : \E q \in {t.query} \cup t.beside : ThreadReturns(t, q)
  \/ Expire

\* Deadlines strike, and the clients of the providers have timeouts of their
\* own; nothing is assumed of a model.
ResearchFairness ==
  \A c \in ToolCalls :
    WF_researchVars(
      \/ TimesOut(c) \/ ToolReturns(c) \/ AnswerCaller(c)
      \/ KindOf[c] # "article" /\ \E p \in Needs[c] : SearchProvider(c, p) \/ SearchFails(c, p))

ResearchSpec == ResearchInit /\ [][ResearchNext]_researchVars /\ ResearchFairness

----------------------------------------------------------------------------
(* Properties *)

\* A search with p for query q may be told of query r: its own, or one whose
\* video search shared the connection with a search for q.
MayPassFor(p, q, r) == r = q \/ (p = "videos" /\ <<q, r>> \in mixed)

\* A call is told what was found for its own query.  Only the connection of
\* the video searches can mix queries, and a mix-up goes no further than to
\* the searches for a query that was on it: not to web results, to another
\* query through either cache, to a call that a thread outlived, nor to one
\* whose search failed.
ResultsAreOwn ==
  \A c \in ToolCalls :
    told[c].is = "answer" =>
      \A p \in Needs[c] :
        IF told[c].records[p] = "ok"
        THEN MayPassFor(p, QueryOf[c], told[c].found[p])
        ELSE told[c].found[p] = None

\* What ResearchPromise sees: a search that is not over has reported nothing,
\* and an answer is its records.
ReportOf(where) == IF where \in {"ok", "failed"} THEN where ELSE "silent"
Outline(answer) == IF answer.is = "answer"
                   THEN [is |-> "answer", records |-> answer.records] ELSE answer

Reported == [c \in ToolCalls |-> [p \in Needs[c] |-> ReportOf(tool[c][p])]]
Made == {[of |-> a.of, records |-> a.answer.records] : a \in answers}
Outlines == [c \in ToolCalls |-> Outline(told[c])]

Promise == INSTANCE ResearchPromise WITH
  Calls <- ToolCalls, reported <- Reported, made <- Made, told <- Outlines

\* An article is made from what both searches reported, one that failed is
\* told to have failed, and no answer is told to another request.
ImplementsResearchPromise == Promise!Spec

\* Every call ends, whatever the model, the providers and the threads do.
EveryResearchEnds == \A c \in ToolCalls : stage[c] # "new" ~> stage[c] = "done"
=============================================================================
