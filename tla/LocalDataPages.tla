---------------------------- MODULE LocalDataPages ----------------------------
(***************************************************************************)
(* The history page and the dictionary page.                               *)
(*                                                                         *)
(* apps/desktop/src/local_data_ui.rs and local_data_ui/history_query.rs    *)
(* (the list, searching, loading more, deleting with an undo), with        *)
(* crates/infra/src/sqlite_storage/history_search.rs; and                  *)
(* local_data_ui/dictionary_ui.rs and dictionary_edit.rs (the words, the   *)
(* dialogs that add and edit them), with sqlite_storage/dictionary.rs.     *)
(*                                                                         *)
(* Actors: the UI thread, which runs the handlers, the timers and the      *)
(* closures that threads queue; a thread for each request to the storage.  *)
(* A closure may run at any time after its thread was answered, and        *)
(* closures of different threads in any order.                             *)
(***************************************************************************)
EXTENDS Naturals, Sequences, FiniteSets, SequencesExt, FiniteSetsExt

CONSTANTS
    FirstRows,   \* bound: rows of the history at the start, 1..FirstRows
    MaxRows,     \* bound: rows that are ever made
    Matching,    \* those with the text that is searched for
    PageSize,    \* rows of a page
    MaxHistoryClicks, \* bound: clicks on the history page
    MaxPageThreads,   \* bound: threads at a time
    Words,       \* that are put into the dictionary
    MaxWordClicks,    \* bound: clicks on the dictionary page
    MaxPageFaults     \* bound: requests that fail

ASSUME PagesAssumption ==
    /\ FirstRows \in Nat /\ FirstRows <= MaxRows /\ PageSize \in Nat \ {0}
    /\ "" \notin Words

VARIABLES
    rows,        \* the table; a later row has a greater number
    made,        \* rows that were ever made
    list,        \* UiDataState.history
    nextCursor,  \* next_history_cursor, or 0
    search,      \* history_query
    generation,  \* history_generation
    loadsMore,   \* load_more_in_flight
    pendingRow,  \* pending_history_delete, or 0
    timers,      \* running, of three seconds, in the order they were started
    loading, banner, \* what the page shows beside, or instead of, the list
    pageThreads, \* of requests for the history
    doomed,      \* history: rows whose deletion was the user's last word
    mixed,       \* history: the list was read anew while more of the old one is on its way
    historyClicks

historyPageVars == <<rows, made, list, nextCursor, search, generation, loadsMore, pendingRow,
                     timers, loading, banner, pageThreads, doomed, mixed, historyClicks>>
shownVars == <<list, nextCursor, loading, banner>>

VARIABLES
    words,       \* the table
    shownWords,     \* DictionaryUiState.shownWords
    drafts,      \* of the dialog
    dialog,      \* dictionary_add_visible
    saving,      \* dictionary_saving
    wordThreads,
    requested,   \* history: words the user saved and has not taken back
    wordClicks

wordPageVars == <<words, shownWords, drafts, dialog, saving, wordThreads, requested, wordClicks>>

VARIABLE pageFaults
pagesVars == <<historyPageVars, wordPageVars, pageFaults>>
-----------------------------------------------------------------------------
\* history_search::page: the rows after the cursor are looked through, newest
\* first, until the page is full; the cursor is the last row looked at.
Hits(query, cursor) ==
    {r \in rows : (cursor = 0 \/ r < cursor) /\ (query = "" \/ r \in Matching)}

Nth(set, i) == CHOOSE k \in set : Cardinality({j \in set : j <= k}) = i
Newest(set, n) ==
    LET size == Cardinality(set) IN
    [i \in 1..(IF size < n THEN size ELSE n) |-> Nth(set, size + 1 - i)]

\* What a sequence has at some places.
Remaining(s, places) == [i \in 1..Cardinality(places) |-> s[Nth(places, i)]]

PageOf(query, cursor) == Newest(Hits(query, cursor), PageSize)

CursorAfter(query, cursor) ==
    LET page == PageOf(query, cursor) IN
    IF Len(page) = PageSize /\ \E r \in rows : r < Last(page) THEN Last(page) ELSE 0

Asks(kind, row) ==
    [kind |-> kind, generation |-> generation', query |-> search', cursor |-> row,
     state |-> "asking", page |-> <<>>, next |-> 0]

HistoryPageInit ==
    /\ rows = 1..FirstRows /\ made = FirstRows
    /\ list = <<>> /\ nextCursor = 0 /\ search = "" /\ generation = 0 /\ loadsMore = FALSE
    /\ pendingRow = 0 /\ timers = <<>> /\ loading = FALSE /\ banner = "none"
    /\ pageThreads = <<>> /\ doomed = {} /\ mixed = FALSE /\ historyClicks = 0

PageClick ==
    /\ historyClicks < MaxHistoryClicks /\ historyClicks' = historyClicks + 1
    /\ Len(pageThreads) < MaxPageThreads

Listed == ~loading /\ banner = "none"
ListWithout(row) == Remaining(list, {i \in DOMAIN list : list[i] # row})
VisibleRows == Range(list) \ {pendingRow}

\* A dictation is saved; the page is refreshed when its result is presented.
DictationIsSaved ==
    /\ made < MaxRows /\ made' = made + 1
    /\ rows' = rows \cup {made'}
    /\ UNCHANGED <<list, nextCursor, search, generation, loadsMore, pendingRow, timers,
                   loading, banner, pageThreads, doomed, mixed, historyClicks>>

\* refresh_history_async: what was asked for before will not be shown.  On
\* another thread than the UI's it cannot say that the page is loading.
RereadList(threads, says) ==
    /\ generation' = generation + 1 /\ loadsMore' = FALSE
    /\ UNCHANGED mixed
    /\ pageThreads' = Append(threads, Asks("refresh", 0))
    /\ loading' = (loading \/ says)
    /\ banner' = IF says /\ banner = "failed" THEN "none" ELSE banner

RefreshHistory ==
    /\ PageClick /\ UNCHANGED search
    /\ RereadList(pageThreads, TRUE)
    /\ UNCHANGED <<rows, list, nextCursor, pendingRow, timers, doomed>>

SearchHistory ==
    /\ PageClick /\ search' \in {"", "text"} \ {search}
    /\ RereadList(pageThreads, TRUE)
    /\ UNCHANGED <<rows, list, nextCursor, pendingRow, timers, doomed>>

\* load_more_history_async, by a button under the list.
LoadMore ==
    /\ Listed /\ VisibleRows # {} /\ nextCursor # 0 /\ ~loadsMore
    /\ PageClick /\ UNCHANGED <<search, generation>>
    /\ loadsMore' = TRUE
    /\ pageThreads' = Append(pageThreads, Asks("more", nextCursor))
    /\ UNCHANGED <<rows, shownVars, pendingRow, timers, doomed, mixed>>

\* schedule_history_delete: a deletion that is still pending is carried out.
DeleteRow ==
    /\ Listed /\ PageClick /\ UNCHANGED <<search, generation>>
    /\ \E row \in VisibleRows :
          /\ pendingRow' = row /\ timers' = Append(timers, row)
          /\ doomed' = doomed \cup {row}
    /\ IF pendingRow = 0 THEN UNCHANGED <<list, pageThreads>>
       ELSE /\ list' = ListWithout(pendingRow)
            /\ pageThreads' = Append(pageThreads, Asks("delete", pendingRow))
    /\ UNCHANGED <<rows, nextCursor, loadsMore, loading, banner, mixed>>

\* A page that was read before may bring back a row whose deletion is under way:
\* it cannot be undone again.
UnderWay(row) ==
    \E i \in DOMAIN pageThreads : pageThreads[i].kind = "delete" /\ pageThreads[i].cursor = row

UndoDelete ==
    /\ pendingRow # 0 /\ PageClick
    /\ pendingRow' = 0
    /\ doomed' = IF UnderWay(pendingRow) THEN doomed ELSE doomed \ {pendingRow}
    /\ UNCHANGED <<rows, shownVars, search, generation, loadsMore, timers, pageThreads, mixed>>

\* Three seconds after a deletion: it is carried out, if that row is pending.
TimerFires ==
    /\ timers # <<>> /\ timers' = Tail(timers)
    /\ UNCHANGED <<search, generation>>
    /\ IF pendingRow = Head(timers)
       THEN /\ pendingRow' = 0
            /\ list' = ListWithout(pendingRow)
            /\ pageThreads' = Append(pageThreads, Asks("delete", pendingRow))
       ELSE UNCHANGED <<pendingRow, list, pageThreads>>
    /\ UNCHANGED <<rows, nextCursor, loadsMore, loading, banner, doomed, mixed, historyClicks>>

\* The buttons that clear the history and, when it is locked, reset it; the
\* retention and the timer of a day remove old rows.
RemoveMany ==
    /\ PageClick /\ UNCHANGED <<search, generation>>
    /\ \E kind \in {"clear", "reset", "cleanup"} :
          /\ kind = "clear" => Listed /\ VisibleRows # {}
          /\ kind = "reset" => banner = "locked"
          /\ pageThreads' = Append(pageThreads, Asks(kind, 0))
    /\ UNCHANGED <<rows, shownVars, loadsMore, pendingRow, timers, doomed, mixed>>

\* The storage answers a request.
Removed(t, old) ==
    CASE t.kind = "delete" -> {t.cursor}
      [] t.kind = "cleanup" -> {r \in rows : r <= old}
      [] t.kind \in {"clear", "reset"} -> rows
      [] OTHER -> {}

StorageAnswers(i) ==
    LET t == pageThreads[i] IN
    /\ t.state = "asking"
    /\ \E old \in 1..2 : rows' = rows \ Removed(t, old)
    /\ pageThreads' = [pageThreads EXCEPT ![i] =
          [@ EXCEPT !.state = "answered", !.page = PageOf(t.query, t.cursor),
                    !.next = CursorAfter(t.query, t.cursor)]]
    /\ UNCHANGED <<shownVars, search, generation, loadsMore, pendingRow, timers, doomed,
                   mixed, historyClicks, pageFaults>>

\* It does not: the history may be locked.
StorageRefuses(i) ==
    /\ pageThreads[i].state = "asking"
    /\ pageFaults < MaxPageFaults /\ pageFaults' = pageFaults + 1
    /\ \E error \in {"locked", "failed"} :
          pageThreads' = [pageThreads EXCEPT ![i].state = error]
    /\ UNCHANGED <<rows, shownVars, search, generation, loadsMore, pendingRow, timers, doomed,
                   mixed, historyClicks>>

Others(i) == RemoveAt(pageThreads, i)
Asked(i, kinds, states) == pageThreads[i].kind \in kinds /\ pageThreads[i].state \in states
Current(t) == t.generation = generation

\* Mutant of ListArrives: an older search is not told from the current one.
ListArrives_Late(i) ==
    LET t == pageThreads[i] IN
    /\ Asked(i, {"refresh"}, {"answered"})
    /\ list' = t.page /\ nextCursor' = t.next /\ loading' = FALSE /\ banner' = "none"
    /\ pageThreads' = Others(i)
    /\ UNCHANGED <<rows, search, generation, loadsMore, pendingRow, timers, doomed, mixed,
                   historyClicks>>

\* The closure of refresh_history_async.
ListArrives(i) ==
    LET t == pageThreads[i] IN
    /\ Asked(i, {"refresh"}, {"answered"})
    /\ IF Current(t)
       THEN /\ list' = t.page /\ nextCursor' = t.next /\ loading' = FALSE /\ banner' = "none"
            /\ mixed' = \E j \in DOMAIN pageThreads :
                          pageThreads[j].kind = "more" /\ Current(pageThreads[j])
       ELSE UNCHANGED <<shownVars, mixed>>
    /\ pageThreads' = Others(i)
    /\ UNCHANGED <<rows, search, generation, loadsMore, pendingRow, timers, doomed,
                   historyClicks>>

\* The closure of load_more_history_async.
MoreArrives(i) ==
    LET t == pageThreads[i] IN
    /\ Asked(i, {"more"}, {"answered"})
    /\ IF Current(t)
       THEN list' = list \o t.page /\ nextCursor' = t.next /\ loadsMore' = FALSE
       ELSE UNCHANGED <<list, nextCursor, loadsMore>>
    /\ pageThreads' = Others(i)
    /\ UNCHANGED <<rows, search, generation, loading, banner, pendingRow, timers, doomed,
                   mixed, historyClicks>>

\* The closures of the two with an error.
ReadFails(i) ==
    LET t == pageThreads[i] IN
    /\ Asked(i, {"refresh", "more"}, {"locked", "failed"})
    /\ IF ~Current(t) THEN UNCHANGED <<loading, banner, loadsMore>>
       ELSE /\ banner' = t.state
            /\ loading' = (t.kind = "more" /\ loading)
            /\ loadsMore' = (t.kind = "refresh" /\ loadsMore)
    /\ pageThreads' = Others(i)
    /\ UNCHANGED <<rows, list, nextCursor, search, generation, pendingRow, timers, doomed,
                   mixed, historyClicks>>

\* commit_history_delete reads the list again when the row could not be deleted.
DeleteEnds(i) ==
    LET t == pageThreads[i] IN
    /\ t.kind = "delete" /\ t.state # "asking" /\ UNCHANGED search
    /\ IF t.state = "answered"
       THEN pageThreads' = Others(i) /\ UNCHANGED <<loading, banner, generation, loadsMore>>
       ELSE /\ generation' = generation + 1 /\ loadsMore' = FALSE
            /\ pageThreads' = Append(Others(i), Asks("refresh", 0))
            /\ loading' = TRUE
            /\ banner' = IF t.state = "locked" THEN "locked" ELSE "none"
    /\ UNCHANGED <<rows, list, nextCursor, pendingRow, timers, doomed, mixed, historyClicks>>

\* Nothing is left to show, or to undo.  The generation stays.
RemovedMany(i) ==
    LET t == pageThreads[i] IN
    /\ Asked(i, {"clear", "reset"}, {"answered"})
    /\ list' = <<>> /\ nextCursor' = 0 /\ pendingRow' = 0
    /\ banner' = IF t.kind = "reset" /\ banner = "locked" THEN "none" ELSE banner
    /\ pageThreads' = Others(i)
    /\ UNCHANGED <<rows, search, generation, loadsMore, timers, loading, doomed, mixed,
                   historyClicks>>

RemoveFails(i) ==
    LET t == pageThreads[i] IN
    /\ Asked(i, {"clear", "reset", "cleanup"}, {"locked", "failed"})
    /\ banner' = IF t.kind = "reset" THEN t.state ELSE banner
    /\ pageThreads' = Others(i)
    /\ UNCHANGED <<rows, list, nextCursor, search, generation, loadsMore, pendingRow, timers,
                   loading, doomed, mixed, historyClicks>>

\* refresh_history_after_cleanup, on its own thread.
CleanupEnds(i) ==
    /\ Asked(i, {"cleanup"}, {"answered"}) /\ UNCHANGED search
    /\ RereadList(Others(i), FALSE)
    /\ UNCHANGED <<rows, list, nextCursor, pendingRow, timers, doomed, historyClicks>>

ClosureOrThread ==
    \E i \in DOMAIN pageThreads :
        \/ ListArrives(i) \/ MoreArrives(i) \/ ReadFails(i) \/ DeleteEnds(i)
        \/ RemovedMany(i) \/ RemoveFails(i) \/ CleanupEnds(i)

HistoryPageNext ==
    /\ UNCHANGED wordPageVars
    /\ \/ DictationIsSaved /\ UNCHANGED pageFaults
       \/ /\ \/ RefreshHistory \/ SearchHistory \/ LoadMore \/ DeleteRow \/ UndoDelete
             \/ TimerFires \/ RemoveMany \/ ClosureOrThread
          /\ UNCHANGED <<made, pageFaults>>
       \/ /\ \E i \in DOMAIN pageThreads : StorageAnswers(i) \/ StorageRefuses(i)
          /\ UNCHANGED made
-----------------------------------------------------------------------------
\* The dictionary page.  A word is told by its comparison key; the table is a
\* function from the numbers of its rows.
WordPageInit ==
    /\ \E first \in Words : words = [n \in {1} |-> first]
    /\ shownWords = words
    /\ drafts = <<>> /\ dialog = FALSE /\ saving = FALSE /\ wordThreads = <<>>
    /\ requested = {} /\ wordClicks = 0

Typed == Range(drafts) \ {""}
Rows(table, word) == {n \in DOMAIN table : table[n] = word}
InTable == Range(words)
AtWork(kind) == \E i \in DOMAIN wordThreads : wordThreads[i].kind = kind
StillToWrite == UNION {{w.word : w \in Range(wordThreads[i].todo)} : i \in DOMAIN wordThreads}

WordClick == wordClicks < MaxWordClicks /\ wordClicks' = wordClicks + 1

\* The two dialogs cover the page.
OnWordPage == WordClick /\ ~dialog /\ ~AtWork("edit")

Starts(kind, todo) ==
    /\ Len(wordThreads) < MaxPageThreads
    /\ wordThreads' = Append(wordThreads,
          [kind |-> kind, todo |-> todo, state |-> "writing", failed |-> FALSE, listed |-> <<>>])

Writing(kind, row, word) == [kind |-> kind, row |-> row, word |-> word]
WritesOf(chosen) == [i \in DOMAIN chosen |-> Writing("upsert", 0, chosen[i])]

OpenAdd ==
    /\ OnWordPage
    /\ dialog' = TRUE /\ drafts' = <<"">>
    /\ UNCHANGED <<words, shownWords, saving, wordThreads, requested>>

\* The user gives up the words that could not be saved.
CloseAdd ==
    /\ dialog /\ ~saving /\ WordClick
    /\ dialog' = FALSE /\ drafts' = <<>> /\ requested' = requested \cap InTable
    /\ UNCHANGED <<words, shownWords, saving, wordThreads>>

AddDraft ==
    /\ dialog /\ Len(drafts) < 2 /\ WordClick
    /\ drafts' = Append(drafts, "")
    /\ UNCHANGED <<words, shownWords, dialog, saving, wordThreads, requested>>

\* Also while a save is at work.  A word that is typed over is given up.
TypeDraft ==
    /\ dialog /\ WordClick
    /\ \E i \in DOMAIN drafts, word \in Words :
          /\ drafts' = [drafts EXCEPT ![i] = word]
          /\ requested' = requested \ {drafts[i]}
    /\ UNCHANGED <<words, shownWords, dialog, saving, wordThreads>>

RemoveDraft ==
    /\ dialog /\ Len(drafts) > 1 /\ WordClick
    /\ \E i \in DOMAIN drafts :
          drafts' = RemoveAt(drafts, i) /\ requested' = requested \ {drafts[i]}
    /\ UNCHANGED <<words, shownWords, dialog, saving, wordThreads>>

\* A word whose deletion is still under way is not counted as asked for.
SaveDrafts ==
    /\ dialog /\ ~saving /\ Typed # {} /\ WordClick
    /\ saving' = TRUE
    /\ Starts("save", WritesOf(Remaining(drafts, {i \in DOMAIN drafts : drafts[i] # ""})))
    /\ requested' = requested \cup {word \in Typed : ~AtWork("delete")}
    /\ UNCHANGED <<words, shownWords, drafts, dialog>>

\* What the user sees on the item he edits or deletes, which may be older than
\* what the row holds.
WordsOf(n) == {shownWords[n]} \cup {words[m] : m \in {n} \cap DOMAIN words}

EditWord ==
    /\ OnWordPage
    /\ \E n \in DOMAIN shownWords, word \in Words :
          /\ Starts("edit", <<Writing("update", n, word)>>)
          /\ requested' = requested \ WordsOf(n)
    /\ UNCHANGED <<words, shownWords, drafts, dialog, saving>>

DeleteWord ==
    /\ OnWordPage
    /\ \E n \in DOMAIN shownWords :
          /\ Starts("delete", <<Writing("delete", n, "")>>)
          /\ requested' = requested \ WordsOf(n)
    /\ UNCHANGED <<words, shownWords, drafts, dialog, saving>>

RefreshDictionary ==
    /\ OnWordPage /\ Starts("refresh", <<>>)
    /\ UNCHANGED <<words, shownWords, drafts, dialog, saving, requested>>

\* DictionaryFiles::import_csv leaves out the words that are there.
ImportCsv ==
    /\ OnWordPage
    /\ \E word \in Words : Starts("import", WritesOf(IF word \in InTable THEN <<>> ELSE <<word>>))
    /\ UNCHANGED <<words, shownWords, drafts, dialog, saving, requested>>

\* sqlite_storage/dictionary.rs: one write, which is done or fails.
NewRow == Max(DOMAIN words \cup DOMAIN shownWords \cup {0}) + 1
Upserted(word) ==
    IF word \in InTable THEN words
    ELSE [n \in DOMAIN words \cup {NewRow} |-> IF n = NewRow THEN word ELSE words[n]]

UpdateFails(w) == w.row \notin DOMAIN words \/ Rows(words, w.word) \ {w.row} # {}

Written(w) ==
    CASE w.kind = "upsert" -> Upserted(w.word)
      [] w.kind = "delete" -> Restrict(words, DOMAIN words \ {w.row})
      [] OTHER -> [words EXCEPT ![w.row] = w.word]

\* The first write that fails ends the writing.
ThreadWrites(i) ==
    LET t == wordThreads[i]
        w == Head(t.todo)
        fails == w.kind = "update" /\ UpdateFails(w) IN
    /\ t.state = "writing" /\ t.todo # <<>>
    /\ \/ /\ ~fails /\ words' = Written(w)
          /\ wordThreads' = [wordThreads EXCEPT ![i].todo = Tail(@)]
          /\ UNCHANGED pageFaults
       \/ /\ UNCHANGED words
          /\ fails \/ pageFaults < MaxPageFaults
          /\ pageFaults' = IF fails THEN pageFaults ELSE pageFaults + 1
          /\ wordThreads' = [wordThreads EXCEPT ![i] = [@ EXCEPT !.todo = <<>>, !.failed = TRUE]]
    /\ UNCHANGED <<shownWords, drafts, dialog, saving, requested, wordClicks>>

\* It lists the words whether it could write or not.
ThreadLists(i) ==
    /\ wordThreads[i].state = "writing" /\ wordThreads[i].todo = <<>>
    /\ \/ /\ wordThreads' = [wordThreads EXCEPT ![i] = [@ EXCEPT !.state = "listed", !.listed = words]]
          /\ UNCHANGED pageFaults
       \/ /\ pageFaults < MaxPageFaults /\ pageFaults' = pageFaults + 1
          /\ wordThreads' = [wordThreads EXCEPT ![i].state = "unlisted"]
    /\ UNCHANGED <<words, shownWords, drafts, dialog, saving, requested, wordClicks>>

\* Its closure.  A save shows what it could write; the dialog is left as it is
\* unless all was written and listed.
WordsArrive(i) ==
    LET t == wordThreads[i] IN
    /\ t.state \in {"listed", "unlisted"}
    /\ shownWords' = IF t.state = "listed" /\ (t.kind = "save" \/ ~t.failed) THEN t.listed ELSE shownWords
    /\ saving' = (saving /\ t.kind # "save")
    /\ IF t.kind = "save" /\ t.state = "listed" /\ ~t.failed
       THEN dialog' = FALSE /\ drafts' = <<>>
       ELSE UNCHANGED <<dialog, drafts>>
    /\ wordThreads' = RemoveAt(wordThreads, i)
    /\ UNCHANGED <<words, requested, wordClicks>>

WordPageNext ==
    /\ UNCHANGED historyPageVars
    /\ \/ /\ \/ OpenAdd \/ CloseAdd \/ AddDraft \/ TypeDraft \/ RemoveDraft \/ SaveDrafts
             \/ EditWord \/ DeleteWord \/ RefreshDictionary \/ ImportCsv
             \/ \E i \in DOMAIN wordThreads : WordsArrive(i)
          /\ UNCHANGED pageFaults
       \/ \E i \in DOMAIN wordThreads : ThreadWrites(i) \/ ThreadLists(i)
-----------------------------------------------------------------------------
PagesInit == HistoryPageInit /\ WordPageInit /\ pageFaults = 0
PagesNext == HistoryPageNext \/ WordPageNext
PagesSpec == PagesInit /\ [][PagesNext]_pagesVars

\* The rows, the deletion that can be undone and the cursor are rows that were
\* made; the dialog is open exactly when it has a line, and while it is saved.
PagesTypeOK ==
    /\ rows \subseteq 1..made /\ {pendingRow, nextCursor} \subseteq 0..made
    /\ Range(list) \subseteq 1..made
    /\ dialog = (drafts # <<>>) /\ saving = AtWork("save") /\ (saving => dialog)
    /\ Range(words) \cup Range(shownWords) \cup Typed \subseteq Words

\* What the history page lists, when it lists anything, is one stretch of the
\* rows that match what is searched for, newest first, without those the user
\* deleted.
ListIsOneStretch ==
    /\ \A i \in 1..(Len(list) - 1) : list[i] > list[i + 1]
    /\ search = "text" => Range(list) \subseteq Matching
    /\ \A r \in Hits(search, 0) \ (Range(list) \cup doomed) :
          list = <<>> \/ r > Head(list) \/ r < Last(list)

\* A row is never deleted after the user took its deletion back.
UndoneIsKept ==
    \A i \in DOMAIN pageThreads :
        pageThreads[i].kind = "delete" => pageThreads[i].cursor \in doomed

\* A word that was saved is in the table, in the dialog, or still to be written.
SavedWordsAreKept == requested \subseteq InTable \cup Typed \cup StillToWrite

(* The two pages of local data keep their word.  The history page never     *)
(* shows, for the search in its field, rows of another search, a row twice, *)
(* or a list with a gap, although answers arrive in any order                *)
(* (history_query.rs:72 and :124 compare the generations) - unless more was  *)
(* asked for while the list was being read again after old rows were         *)
(* removed, which the page does not show.  (It may still list a row that     *)
(* was deleted, until it is read again.)  A row whose deletion was undone    *)
(* is not deleted by a timer that still runs (local_data_ui.rs:292).  And a  *)
(* word the user saved is never lost by a save that fails half way: what was *)
(* not written is still in the dialog (dictionary_ui.rs:363).                *)
PagesKeepTheirWord ==
    /\ Listed /\ ~mixed => ListIsOneStretch
    /\ UndoneIsKept
    /\ SavedWordsAreKept
=============================================================================
