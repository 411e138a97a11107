------------------------------- MODULE History -------------------------------
(***************************************************************************)
(* How candles come into the files that backtests read: `fetch` pages back    *)
(* through a broker's history (data/fetcher.py) while the market goes on,     *)
(* `download` asks a public source, `import` reads a file from elsewhere and   *)
(* resamples it; `backtest` and `optimize` split and align what is in the      *)
(* files.  A time is the number of a base interval: the bar of time t covers   *)
(* [t, t + 1), and is finished from t + 1 on.                                  *)
(***************************************************************************)
EXTENDS Integers, Sequences, SequencesExt, FiniteSetsExt

CONSTANTS
  Symbols,
  Listings,     \* for each symbol, the times at which it trades
  Price,        \* Price[t]: open, high, low and close of the base bar of time t
  Spans,        \* how far back a fetch or a download is asked to go
  Ends,         \* the `end` of a fetch; NoTime for the newest bar there is
  Brokers,      \* "ccxt" pages by `since` and judges itself what is finished; "oanda" does not
  Chunk, MaxCount, MaxRequests,
  Interval,     \* of the bars an import resamples to
  Exports,      \* the times of which a file from elsewhere has the bars, where there are any
  FoldAt,       \* two base intervals with one local time begin here (NoTime: none)
  SplitNum, SplitDen, MinBars,
  Horizon,      \* bound: the clock stops here
  MaxCommands,  \* bound: commands started
  NoTime, NoFetch, NoAnswer, NoFile, NoSeries

Times == 0..Horizon

ASSUME HistoryAssumption ==
  /\ {Chunk, MaxCount, MaxRequests, Interval, SplitDen, MinBars, MaxCommands} \subseteq Nat \ {0}
  /\ IsFiniteSet(Symbols) /\ SplitNum \in 1..(SplitDen - 1) /\ Horizon \in Nat
  /\ Brokers \subseteq {"ccxt", "oanda"} /\ Exports \subseteq SUBSET Times
  /\ Price \in [Times -> Nat] /\ Listings \subseteq [Symbols -> SUBSET Times]
  /\ Spans \subseteq Nat /\ NoTime \notin Int /\ Ends \union {FoldAt} \subseteq Times \union {NoTime}

VARIABLES
  now,
  listed,   \* the times at which each symbol trades: the market, not the program
  fetch,    \* the command under way: fetch_candles between two awaits
  files,    \* the CSV of each symbol
  commands  \* how many were started, for MaxCommands only

vars == <<now, listed, fetch, files, commands>>

Init ==
  /\ now \in Times
  /\ listed \in Listings
  /\ fetch = NoFetch
  /\ files = [s \in Symbols |-> NoFile]
  /\ commands = 0

Tick == now < Horizon /\ now' = now + 1 /\ UNCHANGED <<listed, fetch, files, commands>>

\* final is history: whether the prices were those of the finished bar.
Bar(t) == [time |-> t, open |-> Price[t], high |-> Price[t], low |-> Price[t],
           close |-> Price[t], final |-> t < now]

Visible(s) == {t \in listed[s] : t <= now}

BarTimes(bars) == {b.time : b \in bars}

\* sorted() of a set of numbers: each at the place that the number of smaller ones gives it.
Ascending(set) ==
  [i \in 1..Cardinality(set) |-> CHOOSE x \in set : Cardinality({y \in set : y < x}) = i - 1]

InOrder(times, bars) == [i \in DOMAIN times |-> CHOOSE b \in bars : b.time = times[i]]

\* Mutant: the bars are left in the order of the pages, newest first.
ByPage(bars) == InOrder(Reverse(Ascending(BarTimes(bars))), bars)

\* A dictionary by time, and its times in order.
ByTime(bars) == InOrder(Ascending(BarTimes(bars)), bars)

\* The commands of the user, one after the other.
Command == fetch = NoFetch /\ commands < MaxCommands /\ commands' = commands + 1

Before(t, end) == end = NoTime \/ t < end

\* What save_csv leaves on disk; since, until, at, cut and rows are history: what was asked
\* for, when, whether MaxRequests or a server that ignores the end cut it short, and which
\* base bars an import was made of.
File(bars, by, since, until, at, cut, rows) ==
  [bars |-> bars, by |-> by, since |-> since, until |-> until, at |-> at, cut |-> cut,
   rows |-> rows]

-----------------------------------------------------------------------------
(* fetch *)

Limit == IF Chunk < MaxCount THEN Chunk ELSE MaxCount

\* _fetch: from days ago on
StartFetch(s, broker, days, end) ==
  /\ Command
  /\ fetch' = [symbol |-> s, broker |-> broker, start |-> now - days, end |-> end, cursor |-> end,
               requests |-> 1, collected |-> {}, answer |-> NoAnswer, at |-> now, misled |-> FALSE]
  /\ UNCHANGED <<now, listed, files>>

Newest(n, times) == {t \in times : Cardinality({u \in times : u > t}) < n}
Oldest(n, times) == {t \in times : Cardinality({u \in times : u < t}) < n}

\* The rows of one answer: the last ones before `to`, or the first ones from `since` on.
Rows(s, end) ==
  IF fetch.broker = "ccxt" /\ end # NoTime THEN Oldest(Limit, {t \in Visible(s) : t >= end - Limit})
  ELSE Newest(Limit, {t \in Visible(s) : Before(t, end)})

Asked == fetch # NoFetch /\ fetch.answer = NoAnswer

\* The server takes its answer from the market as it is now; one that ignores the end it
\* was given answers the newest page every time.
Serve ==
  /\ Asked
  /\ \E end \in {fetch.cursor, NoTime} :
       fetch' = [fetch EXCEPT !.answer = {Bar(t) : t \in Rows(fetch.symbol, end)},
                              !.misled = @ \/ end # fetch.cursor]
  /\ UNCHANGED <<now, listed, files, commands>>

\* A call that fails ends the fetch, and the file is as it was.
CallFails ==
  /\ Asked
  /\ fetch' = NoFetch
  /\ UNCHANGED <<now, listed, files, commands>>

\* Mutant: what the server answers beside what it was asked for is not dropped.
BatchUncut ==
  {[bar |-> b, complete |-> IF fetch.broker = "ccxt" THEN b.time + 1 <= now ELSE b.final] :
     b \in fetch.answer}

\* get_ohlcv: the ccxt adapter drops what is not before the end and calls a bar complete
\* by the clock after the await; OANDA's answer says itself what is complete.
Batch ==
  IF fetch.broker = "ccxt"
  THEN {[bar |-> b, complete |-> b.time + 1 <= now] :
          b \in {c \in fetch.answer : Before(c.time, fetch.cursor)}}
  ELSE {[bar |-> b, complete |-> b.final] : b \in fetch.answer}

TimesOf(batch) == {c.bar.time : c \in batch}

\* A bar that is met again replaces the one there was.
Collected(batch) == {c \in fetch.collected : c.bar.time \notin TimesOf(batch)} \union batch

\* Mutant: the search for older bars ends with the first page that is not full.
GoesOnIfFull(batch) ==
  /\ Cardinality(batch) = Limit
  /\ ~(TimesOf(batch) \subseteq TimesOf(fetch.collected))
  /\ Min(TimesOf(batch)) > fetch.start
  /\ fetch.requests < MaxRequests

\* Mutant: only the start and an empty answer end it.
GoesOnWithoutProgress(batch) == batch # {} /\ Min(TimesOf(batch)) > fetch.start

\* Whether fetch_candles asks for another page.
GoesOn(batch) ==
  /\ batch # {}
  /\ ~(TimesOf(batch) \subseteq TimesOf(fetch.collected))
  /\ Min(TimesOf(batch)) > fetch.start
  /\ fetch.requests < MaxRequests

\* The last lines of fetch_candles: the time asked for, and nothing unfinished.
Kept(collected) ==
  {c.bar : c \in {d \in collected :
                    d.bar.time >= fetch.start /\ Before(d.bar.time, fetch.end) /\ d.complete}}

NextPage(batch) ==
  /\ GoesOn(batch)
  /\ fetch' = [fetch EXCEPT !.cursor = Min(TimesOf(batch)), !.answer = NoAnswer,
                            !.requests = IF @ < MaxRequests THEN @ + 1 ELSE @,
                            !.collected = Collected(batch)]
  /\ UNCHANGED files

LastPage(batch) ==
  /\ ~GoesOn(batch)
  /\ fetch' = NoFetch
  /\ files' = IF Collected(batch) = {} THEN files
              ELSE [files EXCEPT ![fetch.symbol] =
                      File(ByTime(Kept(Collected(batch))), fetch.broker, fetch.start, fetch.end, fetch.at,
                           fetch.misled \/ (batch # {} /\ fetch.requests >= MaxRequests), {})]

\* The loop of fetch_candles from one await to the next, and save_csv after the last.
Receive ==
  /\ fetch # NoFetch /\ fetch.answer # NoAnswer
  /\ NextPage(Batch) \/ LastPage(Batch)
  /\ UNCHANGED <<now, listed, commands>>

-----------------------------------------------------------------------------
(* download and import *)

\* YahooProvider.fetch, StooqProvider.fetch: one request, in which the bar that is still
\* forming counts like any other; an empty or a bad answer, and one that does not come,
\* leave the file alone.
Download(s, days) ==
  LET rows == {t \in Visible(s) : t >= now - days}
  IN  /\ Command /\ rows # {}
      /\ files' = [files EXCEPT ![s] =
           File(ByTime({Bar(t) : t \in rows}), "download", now - days, NoTime, now, FALSE, {})]
      /\ UNCHANGED <<now, listed, fetch>>

\* A naive local time that occurs twice is read as its first occurrence.
Stamp(t) == IF FoldAt # NoTime /\ t = FoldAt + 1 THEN FoldAt ELSE t

\* What a file from elsewhere has of the symbol: it may begin or end inside an interval, and
\* lack bars in between.  All of them are finished.
Exported(s, export) == {t \in Visible(s) : t < now} \intersect export

\* read_any: these base bars, with the stamps they were read with.  Python's sort is stable:
\* bars of the same stamp stay in the order of the file.
ReadAny(rows) ==
  LET at == Ascending(rows)
  IN  [i \in DOMAIN at |-> [Bar(at[i]) EXCEPT !.time = Stamp(@)]]

\* _infer_interval: the least distance of two stamps, which one stamp does not have.
HasInterval(bars) == Cardinality(BarTimes(Range(bars))) > 1

SourceInterval(bars) ==
  Min({d \in 1..Horizon : \E i, j \in DOMAIN bars : bars[j].time - bars[i].time = d})

Floor(t) == (t \div Interval) * Interval

\* Where the bars of an interval are: buckets[key].
Bucket(bars, key) == {i \in DOMAIN bars : Floor(bars[i].time) = key}

Merged(bars, key) ==
  LET bucket == Bucket(bars, key)
  IN  [time |-> key, open |-> bars[Min(bucket)].open, close |-> bars[Max(bucket)].close,
       high |-> Max({bars[i].high : i \in bucket}), low |-> Min({bars[i].low : i \in bucket}),
       final |-> TRUE]

Keys(bars) == Ascending({Floor(b.time) : b \in Range(bars)})

AllMerged(bars) == [i \in DOMAIN Keys(bars) |-> Merged(bars, Keys(bars)[i])]

\* Mutant: the last interval is kept however little of it there is.
ResampleAll(bars) == AllMerged(bars)

\* resample: the last interval is dropped unless it holds all of its bars, which is known
\* where the distance of the bars is.  The first one and those with holes are kept as they are.
Resample(bars) ==
  LET wanted == IF HasInterval(bars) THEN Interval \div SourceInterval(bars) ELSE 1
  IN  IF wanted > 1 /\ Cardinality(Bucket(bars, Last(Keys(bars)))) < wanted
      THEN Front(AllMerged(bars)) ELSE AllMerged(bars)

\* _import.  Finer bars than the file has are refused; so is a file with a bad row or none.
Import(s, export) ==
  LET rows == Exported(s, export)
      bars == ReadAny(rows)
  IN  /\ Command
      /\ rows # {} /\ (HasInterval(bars) => SourceInterval(bars) <= Interval)
      /\ Resample(bars) # <<>>
      /\ files' = [files EXCEPT ![s] =
           File(Resample(bars), "import", 0, NoTime, now, FALSE, rows)]
      /\ UNCHANGED <<now, listed, fetch>>

Next ==
  \/ Tick
  \/ \E s \in Symbols :
       \/ \E days \in Spans : \/ \E broker \in Brokers, end \in Ends : StartFetch(s, broker, days, end)
                                \/ Download(s, days)
       \/ \E export \in Exports : Import(s, export)
  \/ Serve \/ CallFails \/ Receive

\* Every call to a broker has a timeout, and the loop goes on with whatever it was answered.
Fairness == WF_vars(Serve \/ CallFails) /\ WF_vars(Receive)

Spec == Init /\ [][Next]_vars /\ Fairness

-----------------------------------------------------------------------------
(* What backtest and optimize make of the files *)

\* load_csv of every symbol
Series == [s \in Symbols |-> files[s].bars]
Loaded == \A s \in Symbols : files[s] # NoFile

TimesIn(bars) == BarTimes(Range(bars))

\* The bars of a series at some places, in their order.
Picked(bars, places) ==
  LET at == Ascending(places)
  IN  [i \in DOMAIN at |-> bars[at[i]]]

\* Where a series has one of these times.
PlacesOf(times, bars) == {i \in DOMAIN bars : bars[i].time \in times}

\* Mutant: the others are cut to the times of the first symbol.
AlignToFirst(series) ==
  LET common == TimesIn(series[CHOOSE s \in Symbols : TRUE])
  IN  IF Cardinality(common) < MinBars THEN NoSeries
      ELSE [s \in Symbols |-> Picked(series[s], PlacesOf(common, series[s]))]

\* align_candles: a single symbol is left as it is.
Align(series) ==
  LET common == {t \in Times : \A s \in Symbols : t \in TimesIn(series[s])}
  IN  CASE Cardinality(Symbols) = 1 -> series
        [] Cardinality(Symbols) > 1 /\ Cardinality(common) < MinBars -> NoSeries
        [] OTHER -> [s \in Symbols |-> Picked(series[s], PlacesOf(common, series[s]))]

\* split_candles, symbol by symbol and before the alignment
Pivot(bars) == (Len(bars) * SplitNum) \div SplitDen
Train(series) == [s \in Symbols |-> SubSeq(series[s], 1, Pivot(series[s]))]
Test(series)  == [s \in Symbols |-> SubSeq(series[s], Pivot(series[s]) + 1, Len(series[s]))]

-----------------------------------------------------------------------------
(* Properties *)

Bars == [time : Times, open : Nat, high : Nat, low : Nat, close : Nat, final : BOOLEAN]

TypeOK ==
  /\ now \in Times /\ listed \in Listings
  /\ fetch # NoFetch =>
       /\ fetch.symbol \in Symbols /\ fetch.requests \in 1..MaxRequests
       /\ fetch.cursor \in Times \union {NoTime}
       /\ {c.bar : c \in fetch.collected} \subseteq Bars
  /\ \A s \in Symbols : files[s] # NoFile =>
       /\ Range(files[s].bars) \subseteq Bars
       /\ \A i \in 2..Len(files[s].bars) : files[s].bars[i - 1].time <= files[s].bars[i].time

\* A stretch without bars, as long as a page, between t and a bar or the end that ccxt
\* pages back from: the page in front of it is empty.
PageWithoutBars(s, t, until) ==
  \E u \in listed[s] \union {until} :
    /\ u # NoTime /\ t < u - Limit
    /\ listed[s] \intersect ((u - Limit)..(u - 1)) = {}

\* A fetch that was not cut short, with a server that pages back as asked, brings every bar
\* that traded in the time asked for and was finished when it began, whatever the pages and
\* the holes in the history, and no bar twice (fetcher.py:44, 55-56).  Not claimed across a
\* hole as long as a page.
FetchIsComplete ==
  \A s \in Symbols : files[s] # NoFile /\ files[s].by \in Brokers /\ ~files[s].cut =>
    LET f   == files[s]
        end == IF f.until = NoTime \/ f.until > f.at THEN f.at ELSE f.until
    IN  /\ \A t \in listed[s] :
             /\ f.since <= t /\ t < end
             /\ ~(f.by = "ccxt" /\ PageWithoutBars(s, t, f.until))
             => t \in TimesIn(f.bars)
        /\ Cardinality(TimesIn(f.bars)) = Len(f.bars)

\* resample learns the length of the base bars from two that are next to each other.
HasNeighbours(rows) == \E t \in rows : t + 1 \in rows

\* A bar in a file of `import` is made of exactly the bars that the file read had of its
\* interval, the first and the last of them giving its open and its close, and none is
\* missing because that file ended in the middle of the interval (importer.py:336-338): a bar
\* that the market had and the file has not comes before the last one of the file.
ImportedBarsAreWhole ==
  \A s \in Symbols : files[s] # NoFile /\ files[s].by = "import" /\ HasNeighbours(files[s].rows) =>
    \A b \in Range(files[s].bars) :
      LET inside == {t \in files[s].rows : Floor(t) = b.time}
      IN  /\ inside # {}
          /\ b.open = Price[Min(inside)] /\ b.close = Price[Max(inside)]
          /\ b.high = Max({Price[t] : t \in inside}) /\ b.low = Min({Price[t] : t \in inside})
          /\ \A t \in listed[s] \ files[s].rows : Floor(t) = b.time => t < Max(files[s].rows)

\* Refuted (importer.py:372-375): only the last interval is looked at, so the first bar of an
\* import may be made of the end of its interval, and a bar of what the file has around a hole.
ImportedBarsLackNothing ==
  \A s \in Symbols : files[s] # NoFile /\ files[s].by = "import" /\ HasNeighbours(files[s].rows) =>
    \A b \in Range(files[s].bars), t \in listed[s] : Floor(t) = b.time => t \in files[s].rows

\* Of the bars a fetch has written only the newest can have been answered while it was still
\* forming, however far the clock went on between the pages and whatever a server answered
\* that ignores the end it was asked for; and it can be so only where the adapter judges by
\* its own clock (ccxt_broker.py:366-373, fetcher.py:107-109).
OnlyTheNewestIsUnfinished ==
  \A s \in Symbols : files[s] # NoFile /\ files[s].by \in Brokers =>
    \A i \in DOMAIN files[s].bars : ~files[s].bars[i].final =>
      files[s].by = "ccxt" /\ i = Len(files[s].bars)

\* ccxt_broker.py:366-368: nor is the newest, where the adapter judges by the time.  Refuted:
\* it asks the clock after the await, when the bar may be over that was not when it was sent.
JudgedBarsAreFinished ==
  \A s \in Symbols : files[s] # NoFile /\ files[s].by = "ccxt" =>
    \A b \in Range(files[s].bars) : b.final

\* Bar number i is of the same time for every symbol (align.py:37).
SameTimes(series) ==
  series # NoSeries =>
    \A r, s \in Symbols : Len(series[r]) = Len(series[s])
      /\ \A i \in DOMAIN series[r] : series[r][i].time = series[s][i].time

AllTimes(series) == UNION {TimesIn(series[s]) : s \in Symbols}

\* What a backtest reads moves on one time axis, and the windows of optimize do not share
\* a moment although each symbol is split on its own: no test bar before a training bar.
OneTimeAxis ==
  Loaded =>
    LET train == Align(Train(Series))
        test  == Align(Test(Series))
    IN  /\ SameTimes(Align(Series)) /\ SameTimes(train) /\ SameTimes(test)
        /\ train # NoSeries /\ test # NoSeries =>
             \A t \in AllTimes(train), u \in AllTimes(test) : t < u

\* A fetch ends, also when the server ignores the end it is asked to page back from.
FetchEnds == fetch # NoFetch ~> fetch = NoFetch
=============================================================================
