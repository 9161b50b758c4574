---------------------------- MODULE MemoryStore -----------------------------
(***************************************************************************)
(* The memories that the assistant keeps: a list in memory and its copy on *)
(* disk, changed by calls that hold the manager's lock from start to end.  *)
(* A write to disk may fail: the store logs it and does not raise, so that *)
(* the call reports success, and a restart undoes what was not written.    *)
(* Texts and categories are sequences of words, expiry is counted in days, *)
(* and the number of a memory says which is the newer.                     *)
(***************************************************************************)
EXTENDS Integers, Sequences, FiniteSets

CONSTANTS
  Unset,         \* an argument or a setting that is not given
  Words,         \* what texts and categories consist of
  Limits,        \* settings: max_items, max_ttl, default_ttl
  FirstLimits,   \* the settings at the start
  Notes,         \* arguments of remember_memory: text, category, ttl
  Lookups,       \* arguments of recall and forget: query, category
  Pages,         \* the limits that recall is given
  LeastItems,    \* 10: at least as many memories are kept
  LongestText,   \* MAX_MEMORY_TEXT_CHARS and MAX_MEMORY_CATEGORY_CHARS,
  LongestCategory,  \* counted in words
  MostMemories,  \* bound: memories that are stored
  LastDay        \* bound: days

\* As many memories are kept at most, and as long.
MostItems == 5000
MostDays == 3650

ASSUME MemoryAssumption ==
  /\ Unset \notin Int \cup Seq(Words)
  /\ FirstLimits \in Limits
  /\ Limits \subseteq [max_items : Int \cup {Unset}, max_ttl : Int \cup {Unset},
                default_ttl : Int \cup {Unset}]
  /\ Notes \subseteq [text : Seq(Words), category : Seq(Words) \cup {Unset}, ttl : Int \cup {Unset}]
  /\ Lookups \subseteq [query : Seq(Words), category : Seq(Words) \cup {Unset}]
  /\ {"preference", "household"} \subseteq Words
  /\ Pages \subseteq Int \cup {Unset}
  /\ LeastItems \in 1..MostItems
  /\ LongestText \in Nat /\ LongestCategory \in Nat
  /\ MostMemories \in Nat /\ LastDay \in Nat

Text == INSTANCE HomeRegistry WITH None <- Unset

VARIABLES
  memories,   \* _memories
  stored,     \* what the store has in its file
  today,
  limits,     \* the shared settings
  noted,      \* history: what each call of remember stored, when and under
              \* which settings
  forgotten,  \* history: numbers of the memories that calls deleted
  behind,     \* history: the last write to disk failed
  undone,     \* history: numbers of the memories that a restart in such a
              \* state lost, or brought back
  reply       \* what the last call found, if it was one that looks

memoryVars == <<memories, stored, today, limits, noted, forgotten, behind, undone, reply>>

\* MEMORY_CATEGORY_PRESETS, of which two stand for all.
Presets == {<<"preference">>, <<"household">>}

\* _MEMORY_CATEGORY_ALIASES, of which two stand for all.
Meaning(words) ==
  CASE words = <<"prefs">> -> <<"preference">>
    [] words = <<"house">> -> <<"household">>
    [] OTHER -> words

\* _normalize_category: a custom category stays as it is.
Category(words) == IF words = <<>> THEN Unset ELSE Meaning(words)

\* _normalize_category_filter: words that are no category match nothing.
CategoryFits(m, words) ==
  words = Unset \/ (words # <<>> /\ Category(m.category) = Category(words))

-----------------------------------------------------------------------------
\* _coerce_int_arg: a setting or an argument that is kept within bounds.
Coerced(value, default, least, most) ==
  LET given == IF value = Unset THEN default ELSE value
      upper == IF given < most THEN given ELSE most
  IN  IF upper > least THEN upper ELSE least

\* DEFAULT_MEMORY_MAX_ITEMS, _MAX_TTL_DAYS and _DEFAULT_TTL_DAYS
DefaultItems == 500
DefaultMaxDays == 365
DefaultDays == 30

\* _memory_max_items, _memory_max_ttl_days, _memory_default_ttl_days
MaxItems(s) == Coerced(s.max_items, DefaultItems, LeastItems, MostItems)
MaxTtl(s) == Coerced(s.max_ttl, DefaultMaxDays, 1, MostDays)
DefaultTtl(s) == Coerced(s.default_ttl, DefaultDays, 1, MaxTtl(s))

\* The lifetime of a memory in tool_remember_memory and remember.
Lifetime(s, ttl) == Coerced(ttl, DefaultTtl(s), 1, MaxTtl(s))

PageSize(limit) == Coerced(limit, 5, 1, 50)

-----------------------------------------------------------------------------
\* The score in _rank_memories; without a query all are alike.
Relevance(m, query) ==
  LET haystack == m.text \o (IF m.category = Unset THEN <<>> ELSE <<" ">> \o m.category)
      terms == {i \in DOMAIN query : query[i] \notin Text!Separators}
      hits == {i \in terms : Text!Within(<<query[i]>>, haystack)}
  IN  IF query = <<>> THEN 0
      ELSE (IF Text!Within(query, haystack) THEN 100 ELSE 0) + 10 * Cardinality(hits) +
           (IF terms # {} /\ hits = terms THEN 25 ELSE 0)

Suits(m, f) == CategoryFits(m, f.category) /\ (f.query # <<>> => Relevance(m, f.query) > 0)

\* By relevance, then the newest first.
Above(x, y, query) ==
  \/ Relevance(x, query) > Relevance(y, query)
  \/ Relevance(x, query) = Relevance(y, query) /\ x.id > y.id

\* The first n of a list that is sorted so.
Top(items, query, n) ==
  {x \in items : Cardinality({y \in items : Above(y, x, query)}) < n}

\* _rank_memories
Ranked(items, f, n) == Top({m \in items : Suits(m, f)}, f.query, n)

\* _purge_expired_locked
Live(items) == {m \in items : m.until > today}

\* _prune_locked: the newest ones stay.
Pruned(items, most) == Top(items, <<>>, most)

-----------------------------------------------------------------------------
(* Calls.  `fails` is whether the write to disk fails, if there is one: the  *)
(* call does not learn of it.                                                *)

Silence == [op |-> "none"]

MemoryInit ==
  /\ memories = {} /\ stored = {}
  /\ today = 0
  /\ limits = FirstLimits
  /\ noted = <<>> /\ forgotten = {} /\ undone = {}
  /\ behind = FALSE
  /\ reply = Silence

\* _save_locked: Home Assistant's Store.async_save catches and logs a WriteError.
Write(items, fails) ==
  /\ stored' = IF fails THEN stored ELSE items
  /\ behind' = fails

Unwritten == UNCHANGED <<stored, behind>>

\* A text and a category that are too long are refused.
Storable(note) ==
  /\ note.text # <<>> /\ Len(note.text) <= LongestText
  /\ note.category \notin {Unset, <<>>} => Len(Meaning(note.category)) <= LongestCategory

\* tool_remember_memory, remember
Remember(note, fails) ==
  LET item == [id |-> Len(noted) + 1, text |-> note.text, category |-> Category(note.category),
               until |-> today + Lifetime(limits, note.ttl)]
  IN  /\ Storable(note)
      /\ Len(noted) < MostMemories
      /\ memories' = Pruned(Live(memories) \cup {item}, MaxItems(limits))
      /\ Write(memories', fails)
      /\ noted' = Append(noted, [item |-> item, day |-> today, by |-> limits])
      /\ reply' = Silence
      /\ UNCHANGED <<today, limits, forgotten, undone>>

\* The purge at the start of a call that only reads: saved if it changed anything.
Read(fails, told) ==
  /\ memories' = Live(memories)
  /\ IF Live(memories) = memories
     THEN Unwritten ELSE Write(Live(memories), fails)
  /\ reply' = told
  /\ UNCHANGED <<today, limits, noted, forgotten, undone>>

\* tool_recall_memories, recall
Recall(f, limit, fails) ==
  Read(fails, [op |-> "recall", filter |-> f, limit |-> limit,
               found |-> Ranked(Live(memories), f, PageSize(limit))])

\* list_categories: how many of each preset, of each other category, of none.
CategoryCounts(items) ==
  LET of(c) == Cardinality({m \in items : Category(m.category) = c})
      used == {Category(m.category) : m \in items} \ {Unset}
  IN  [op |-> "categories", preset |-> [c \in Presets |-> of(c)],
       custom |-> [c \in used \ Presets |-> of(c)], none |-> of(Unset),
       total |-> Cardinality(items)]

\* tool_list_memory_categories
ListCategories(fails) == Read(fails, CategoryCounts(Live(memories)))

\* Mutant: what was forgotten is not written.
DeleteUnsaved(wanted, fails) ==
  LET gone == {m \in Live(memories) : m.id \in wanted}
  IN  /\ memories' = Live(memories) \ gone
      /\ Unwritten
      /\ forgotten' = forgotten \cup {m.id : m \in gone}
      /\ undone' = undone \ {m.id : m \in gone}
      /\ reply' = Silence
      /\ UNCHANGED <<today, limits, noted>>

\* The end of forget: nothing is written where nothing was deleted.
Delete(wanted, fails) ==
  LET gone == {m \in Live(memories) : m.id \in wanted}
  IN  /\ memories' = Live(memories) \ gone
      /\ IF gone = {} THEN Unwritten ELSE Write(memories', fails)
      /\ forgotten' = forgotten \cup {m.id : m \in gone}
      /\ undone' = undone \ {m.id : m \in gone}
      /\ reply' = Silence
      /\ UNCHANGED <<today, limits, noted>>

\* tool_forget_memory, forget: by number, or the best match, or all matches.
Forget(id, fails) == Delete({id}, fails)
ForgetMatching(f, all, fails) ==
  /\ f.query # <<>> \/ f.category # Unset
  /\ LET matches == {m \in Live(memories) : Suits(m, f)}
     IN  Delete({m.id : m \in IF all THEN matches ELSE Top(matches, f.query, 1)}, fails)

\* A new manager, at a start of Home Assistant or when the tools are loaded
\* again: async_initialize and _ensure_loaded_locked.  What the disk does not
\* have is lost, and what it still has comes back.
Restart(fails) ==
  /\ memories' = Live(stored)
  /\ IF Live(stored) = stored
     THEN stored' = stored /\ behind' = FALSE ELSE Write(Live(stored), fails)
  /\ undone' = IF behind
               THEN undone \cup {m.id : m \in (memories \ stored) \cup (stored \ memories)}
               ELSE undone
  /\ reply' = Silence
  /\ UNCHANGED <<today, limits, noted, forgotten>>

NextDay ==
  /\ today < LastDay
  /\ today' = today + 1
  /\ reply' = Silence
  /\ UNCHANGED <<memories, stored, limits, noted, forgotten, behind, undone>>

\* The shared settings are saved.
ChangeLimits(s) ==
  /\ limits' = s
  /\ reply' = Silence
  /\ UNCHANGED <<memories, stored, today, noted, forgotten, behind, undone>>

MemoryNext ==
  \/ \E note \in Notes, fails \in BOOLEAN : Remember(note, fails)
  \/ \E f \in Lookups, limit \in Pages, fails \in BOOLEAN : Recall(f, limit, fails)
  \/ \E fails \in BOOLEAN : ListCategories(fails) \/ Restart(fails)
  \/ \E id \in 1..MostMemories, fails \in BOOLEAN : Forget(id, fails)
  \/ \E f \in Lookups, all \in BOOLEAN, fails \in BOOLEAN : ForgetMatching(f, all, fails)
  \/ NextDay
  \/ \E s \in Limits : ChangeLimits(s)

MemorySpec == MemoryInit /\ [][MemoryNext]_memoryVars

-----------------------------------------------------------------------------
(* Properties *)

Items ==
  [id : Nat, text : Seq(Words), category : Seq(Words) \cup {Unset}, until : Int]

\* What is kept is what calls stored, under their numbers.
MemoryTypeOK ==
  /\ noted \in Seq([item : Items, day : Nat, by : Limits])
  /\ \A i \in DOMAIN noted : noted[i].item.id = i
  /\ memories \cup stored \subseteq {noted[i].item : i \in DOMAIN noted}
  /\ today \in Nat /\ limits \in Limits
  /\ forgotten \cup undone \subseteq DOMAIN noted /\ behind \in BOOLEAN

\* A memory that a call stored is there, over purges, prunes, settings that
\* change and restarts, until it expires, a call deletes it, a call that keeps n
\* memories comes after n newer ones, or a restart follows a write that failed.
StoredStays ==
  \A i \in DOMAIN noted :
    \/ noted[i].item \in memories
    \/ noted[i].item.until <= today
    \/ i \in forgotten \cup undone
    \/ \E j \in DOMAIN noted : j - i >= MaxItems(noted[j].by)

\* A memory that a call deleted comes back by no call, and by no restart but one
\* that follows a write that failed.
DeletedGone == \A m \in memories : m.id \in forgotten => m.id \in undone

\* Unless the last write failed, the disk has what is in memory.
OnDisk == ~behind => Live(memories) = Live(stored)

\* There are no more memories than the settings allowed at the call that stored
\* the newest of them, or at a later one.
FewEnough(items) ==
  items # {} =>
    \E j \in DOMAIN noted :
      /\ Cardinality(items) <= MaxItems(noted[j].by)
      /\ \A m \in items : m.id <= j

\* A memory lives at least a day, and no longer than was allowed when it was
\* stored, whatever lifetime was asked for and whichever default is set.
Lifetimes ==
  \A i \in DOMAIN noted :
    noted[i].item.until - noted[i].day \in 1..MaxTtl(noted[i].by)

\* What is recalled is alive and fits, as much of it as was asked for, and all
\* of it goes before what is not recalled; words that are no category find nothing.
RecallsTheBest ==
  reply.op = "recall" =>
    LET fitting == {m \in memories : Suits(m, reply.filter)}
        most == PageSize(reply.limit)
        many == Cardinality(fitting)
    IN  /\ reply.found \subseteq fitting
        /\ \A m \in reply.found : m.until > today
        /\ Cardinality(reply.found) = IF many < most THEN many ELSE most
        /\ \A x \in reply.found, y \in fitting \ reply.found : Above(x, y, reply.filter.query)
        /\ reply.filter.category = <<>> => reply.found = {}

CountOf(c) ==
  IF c \in DOMAIN reply.preset THEN reply.preset[c]
  ELSE IF c \in DOMAIN reply.custom THEN reply.custom[c] ELSE 0

\* The number that is listed for a category is that of the memories that a
\* search by any name of it goes through, and the total is of living ones.
CountsAreFound ==
  reply.op = "categories" =>
    /\ \A f \in Lookups :
         f.query = <<>> /\ f.category \notin {<<>>, Unset} =>
           CountOf(Category(f.category)) = Cardinality({m \in memories : Suits(m, f)})
    /\ reply.total = Cardinality(Live(memories))
    /\ DOMAIN reply.preset \cap DOMAIN reply.custom = {}

\* What the memory tools have told holds on, as long as the disk can be written.
MemoriesAreKept ==
  /\ MemoryTypeOK /\ StoredStays /\ DeletedGone /\ OnDisk /\ FewEnough(memories) /\ Lifetimes
  /\ RecallsTheBest /\ CountsAreFound

\* The inductive invariant: a restart brings back what is on disk, so that it
\* is within limits as well.
MemoryIInv == MemoriesAreKept /\ FewEnough(stored)
=============================================================================
