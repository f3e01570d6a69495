------------------------------ MODULE SaveTool ------------------------------
(***************************************************************************)
(* interface/custom_tools_authoring.py: save_to_backend, which goes        *)
(* through _cached_tool_invoke to run_cache_aside with save_lesson_bundle  *)
(* as the loader.  A request of CacheAside is a call of the tool, and its  *)
(* key (CallKey) is made of module_id, lesson_slug and publish: the bundle *)
(* is not in it.                                                           *)
(***************************************************************************)
EXTENDS CacheAside

CONSTANTS Lessons, LessonOf, Publishing, Bundles, Reliable

VARIABLES step, bundle, lesson, part, late

INSTANCE LessonSave WITH Runs <- Requests

\* What the tool's arguments make of a call in its cache key.
CallKey(r) == <<LessonOf[r], r \in Publishing>>

saveState == <<step, bundle, lesson, part, late>>
toolVars == <<pc, result, store, coordVars, saveState>>

ToolInit == Init /\ SaveInit

\* Everything run_cache_aside does but wait for its loader.
AroundTheSave(r) ==
  /\ \/ FastHit(r) \/ FastMiss(r)
     \/ Enter(r) \/ Resume(r) \/ CancelWaiter(r) \/ LeaveQueue(r)
     \/ LockedHit(r) \/ LockedMiss(r) \/ Saved(r)
  /\ UNCHANGED saveState

\* The loader: the save returns its ids, or raises, or awaits another RPC.
SaveToBackend(r) ==
  /\ pc[r] = "load"
  /\ \/ \E b \in Bundles : Begin(r, b)
     \/ Refuse(r)
     \/ Answered(r)
     \/ Broken(r)
  /\ CASE step'[r] = "saved"  -> Loaded(r)
       [] step'[r] = "broken" -> LoadFailed(r)
       [] OTHER               -> UNCHANGED vars

\* The call is cancelled inside singleflight.
CancelCall(r) ==
  /\ Abort(r)
  /\ Broken(r) \/ (step[r] \notin Rpcs /\ UNCHANGED saveState)

ToolNext ==
  \/ \E r \in Requests : AroundTheSave(r) \/ SaveToBackend(r) \/ CancelCall(r)
  \/ \E r \in Requests, s \in Rpcs : Arrives(r, s) /\ UNCHANGED vars
  \/ \E k \in Keys : Expire(k) /\ UNCHANGED saveState

ToolSpec == ToolInit /\ [][ToolNext]_toolVars

\* docs/MCP_TOOL_CATALOG.md:63, "Manual save after edits: validate_* then
\* save_to_backend": a call that returned has written the bundle it was given.
SaveIsWritten == \A r \in Requests : pc[r] = "done" => step[r] = "saved"
=============================================================================
