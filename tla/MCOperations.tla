---------------------------- MODULE MCOperations ----------------------------
(* The instance of ModelRequests in Operations: tool calls of two profiles,  *)
(* one of which the server was started for, beside messages of others that   *)
(* have no token or one that nobody was given.                               *)
EXTENDS Operations

CONSTANTS call1, call2, call3, profile1, profile2

NoBearer == [header |-> NoValue, query |-> NoValue]

OtherMessages ==
  [surface : {"http", "socket"}, from : {0}, bearer : {NoBearer},
   body : {"object"}, version : {TRUE}, method : {"tools/call"}, id : {call1}, params : {TRUE},
   tool : {"image", "unknown"}, entry : {profile1}, token : {NoValue}]
  \cup
  [surface : {"http"}, from : {0}, bearer : {NoBearer},
   body : {"object"}, version : {TRUE}, method : {"tools/call"}, id : {call1}, params : {TRUE},
   tool : {"image"}, entry : {profile1}, token : {"guessed"}]

EntryOfCall == [k \in {call1, call2, call3} |-> IF k = call2 THEN profile2 ELSE profile1]

-----------------------------------------------------------------------------
(* The instance of MemoryStore: memories that overflow the store, expire on  *)
(* different days and are found by words, by either name of a category, or   *)
(* by words that are no category.                                            *)

MemoryWords == {"tea", "warm", " ", "prefs", "preference", "household", "garden"}

FewMemories == [max_items |-> 1, max_ttl |-> 1, default_ttl |-> 5]
MemoryLimits == {FewMemories, [max_items |-> 2, max_ttl |-> Unset, default_ttl |-> 0]}

MemoryNotes ==
  {[text |-> <<"tea", " ", "warm">>, category |-> <<"garden">>, ttl |-> 9],
   [text |-> <<"warm">>, category |-> <<"prefs">>, ttl |-> Unset],
   [text |-> <<>>, category |-> Unset, ttl |-> Unset],
   [text |-> <<"warm", " ", "tea", "warm">>, category |-> Unset, ttl |-> Unset],
   [text |-> <<"warm">>, category |-> <<"garden", "tea">>, ttl |-> Unset]}

MemoryLookups ==
  {[query |-> <<"warm", " ", "tea">>, category |-> Unset],
   [query |-> <<>>, category |-> <<"preference">>], [query |-> <<"tea">>, category |-> <<>>]}

-----------------------------------------------------------------------------
(* The instance of ConfigForms: profiles of both kinds, in which a save      *)
(* changes at most one field that the form shows, and shared settings, in    *)
(* which it changes one, or fills in the form for a first profile.           *)

FieldValues ==
  [mode |-> {"default", "none"}, phrases |-> {"standard", "mine", Blank},
   disable |-> {"on", "off"}, prompt |-> {"built_in", "mine", Blank},
   session_mode |-> {"fixed", "per_conversation"}, session_key |-> {"main", "mine"}]

SharedValues ==
  [search |-> {"on", "off"}, provider |-> {"duckduckgo", "searxng"},
   searxng_url |-> {Blank, "url"}, max_ttl |-> {0, 20}, default_ttl |-> {40}]

\* No field changed, or one.
Edits(values) == {Empty} \cup UNION {[{f} -> values[f]] : f \in DOMAIN values}

FormProfiles ==
  [kind : {"agent"},
   fields : [mode : FieldValues.mode, phrases : {"standard", "mine"}, disable : FieldValues.disable,
             session_mode : FieldValues.session_mode, session_key : FieldValues.session_key]]
  \cup
  [kind : {"model"},
   fields : [mode : FieldValues.mode, phrases : {"standard", "mine"}, disable : FieldValues.disable,
             prompt : FieldValues.prompt]]

FormEdits == Edits(FieldValues)
FirstShared ==
  [search : {"on", "off"}, provider : {"duckduckgo", "searxng"},
   searxng_url : {Blank, "url"}, max_ttl : {0, 20}]
LaterShared == Edits(SharedValues)

-----------------------------------------------------------------------------
(* The instance of ProfileTools: two external tools, of which a reload       *)
(* makes one act that only read before, and drops the other.                 *)

AllTools == 1..6
KindsOfTools == <<"core", "core", "external", "external", "external", "external">>
ToolsOfVersion == [first |-> {1, 3, 4}, second |-> {1, 3}]
ReadingOfVersion == [first |-> {1, 3}, second |-> {1}]

FirstSettingsOfAll ==
  [mode |-> "standard", control |-> TRUE, shared |-> {"external"}, own |-> {"external"}]
FewSettings ==
  {FirstSettingsOfAll, [FirstSettingsOfAll EXCEPT !.control = FALSE],
   [FirstSettingsOfAll EXCEPT !.mode = "light", !.own = {}]}
=============================================================================
