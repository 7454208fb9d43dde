------------------------------ MODULE Readers ------------------------------
(***************************************************************************)
(* The read-through side of the cache: GetAccount, OrderBook and Trades    *)
(* (exchange.go:273-323), each a goroutine of its own, beside the requests *)
(* of Exchange that write the same keys, and beside Redis, which forgets   *)
(* an entry when its time to live is over (cache/redis.go:38-92).          *)
(***************************************************************************)
EXTENDS ExchangeProperties

CONSTANTS
  Readers,  \* the goroutines that serve GET requests, one after the other
  Watched   \* bound: the keys they ask for, and whose entries can expire

Keys == ({"account"} \X Accounts) \cup ({"book", "trades"} \X Symbols)

ASSUME ReadersAssumption == Watched \subseteq Keys

VARIABLES
  reads,  \* what each of them is doing, and the entry it holds
  past    \* history: the books each symbol has had while nobody was matching

readVars == <<reads, past>>

everything == <<vars, readVars>>

NoRead == [pc |-> "idle", key |-> None, entry |-> None]

Cached(key) ==
  IF key[1] = "account" THEN cache.accounts[key[2]]
  ELSE IF key[1] = "book" THEN cache.books[key[2]] ELSE cache.trades[key[2]]

(* The whole cache with one entry replaced. *)
WithEntry(key, entry) ==
  IF key[1] = "account" THEN [cache EXCEPT !.accounts[key[2]] = entry]
  ELSE IF key[1] = "book" THEN [cache EXCEPT !.books[key[2]] = entry]
  ELSE [cache EXCEPT !.trades[key[2]] = entry]

(* What a client sees of a book: who rests where, and with how much. *)
Face(view) == [side \in Sides |-> [i \in DOMAIN view[side] |->
  [account |-> view[side][i].account, price |-> view[side][i].price,
   sequence |-> view[side][i].sequence, remaining |-> view[side][i].remaining]]]

-----------------------------------------------------------------------------
(* GET of a key: an entry of the cache is the answer. *)
Lookup(d) ==
  /\ reads[d].pc \in {"idle", "answered", "failed"}
  /\ \E key \in Watched :
       \/ reads' = [reads EXCEPT ![d] = IF Cached(key) # None
            THEN [pc |-> "answered", key |-> key, entry |-> Cached(key)]
            ELSE [pc |-> "load", key |-> key, entry |-> None]]
       \/ "read" \in Faults /\ reads' = [reads EXCEPT ![d] = [NoRead EXCEPT !.pc = "failed"]]
  /\ UNCHANGED <<vars, past>>

(* Mutant of Load: Snapshot does not take the book's mutex. *)
LoadUnlocked(d) ==
  LET key == reads[d].key IN
  /\ reads[d].pc = "load"
  /\ key[1] = "account" => WalletFree
  /\ reads' = [reads EXCEPT ![d].pc = "fill", ![d].entry =
       IF key[1] = "account" THEN wallet[key[2]]
       ELSE IF key[1] = "book" THEN Snapshot(orders, queue[key[2]]) ELSE market[key[2]]]
  /\ UNCHANGED <<vars, past>>

(* A miss: a copy of what memory holds, each under its own mutex ... *)
Load(d) ==
  LET key == reads[d].key IN
  /\ reads[d].pc = "load"
  /\ key[1] = "account" => WalletFree
  /\ key[1] = "book" => holder[key[2]] = None
  /\ reads' = [reads EXCEPT ![d].pc = "fill", ![d].entry =
       IF key[1] = "account" THEN wallet[key[2]]
       ELSE IF key[1] = "book" THEN Snapshot(orders, queue[key[2]]) ELSE market[key[2]]]
  /\ UNCHANGED <<vars, past>>

(* ... which is put into the cache before it is returned. *)
Store(d) ==
  /\ reads[d].pc = "fill"
  /\ \/ /\ Keep(WithEntry(reads[d].key, reads[d].entry))
        /\ reads' = [reads EXCEPT ![d].pc = "answered"]
     \/ /\ "read" \in Faults
        /\ reads' = [reads EXCEPT ![d] = [NoRead EXCEPT !.pc = "failed"]]
        /\ UNCHANGED cache
  /\ UNCHANGED <<memory, book, db, bus, job, past>>

Read(d) == Load(d) \/ Store(d)

(* Mutant of Expire: accounts are written without a time to live. *)
ExpireViews(key) ==
  /\ key[1] # "account"
  /\ Cached(key) # None
  /\ cache' = WithEntry(key, None)
  /\ UNCHANGED <<memory, book, db, bus, job, readVars>>

(* Redis drops an entry whose time is over. *)
Expire(key) ==
  /\ Cached(key) # None
  /\ cache' = WithEntry(key, None)
  /\ UNCHANGED <<memory, book, db, bus, job, readVars>>

ReadersInit ==
  /\ Init
  /\ reads = [d \in Readers |-> NoRead]
  /\ past = [s \in Symbols |-> {Face(Snapshot(orders, queue[s]))}]

(* What a step of a request does to the readers' history. *)
Observed ==
  /\ past' = [s \in Symbols |-> past[s] \cup
       IF holder'[s] = None THEN {Face(Snapshot(orders', queue'[s]))} ELSE {}]
  /\ UNCHANGED reads

Write == Next /\ Observed

ReadersNext ==
  \/ Write
  \/ \E d \in Readers : Lookup(d) \/ Read(d)
  \/ \E key \in Watched : Expire(key)

ReadersSpec == ReadersInit /\ [][ReadersNext]_everything

(* Goroutines run, calls return, and no entry outlives its time to live    *)
(* unless it is written again.                                             *)
FairReadersSpec ==
  /\ ReadersSpec
  /\ \A r \in Requests : WF_everything(Serve(r) /\ Observed)
  /\ \A d \in Readers : WF_everything(Read(d))
  /\ \A key \in Watched : WF_everything(Expire(key))

-----------------------------------------------------------------------------
(* What is in a client's hands or where the next client looks. *)
Visible(kind, s) ==
  ({reads[d].entry : d \in {e \in Readers : reads[e].key = <<kind, s>>}}
     \cup {IF kind = "book" THEN cache.books[s] ELSE cache.trades[s]}) \ {None}

(* Submit is atomic for readers: a book that is shown, cached or fresh, is *)
(* one the symbol really had between two submissions (however old), never  *)
(* one with an order half matched (book.go:54 and 90).                     *)
BooksShownAreWhole ==
  \A s \in Symbols : \A view \in Visible("book", s) : Face(view) \in past[s]

(* A trade list that is shown is the beginning of the symbol's history,    *)
(* without gaps, and every trade in it is stored (exchange.go:204-208).    *)
TradesShownAreAPrefix ==
  \A s \in Symbols : \A list \in Visible("trades", s) :
    IsPrefix(list, market[s]) /\ Range(list) \subseteq db.trades

(* A stale entry does not stay: once the requests are over, every cached   *)
(* entry is gone or is what memory holds (config.go:29-31).                *)
StaleEntriesExpire ==
  <>[](\A key \in Watched : Cached(key) # None =>
         Cached(key) = IF key[1] = "account" THEN wallet[key[2]]
                       ELSE IF key[1] = "book" THEN Snapshot(orders, queue[key[2]])
                       ELSE market[key[2]])

-----------------------------------------------------------------------------
(* local-stack.md:60, "Redis is used as a read-through / write-through     *)
(* cache": what a read puts into the cache does not undo a write.          *)
ReadsKeepWrites ==
  Quiet /\ (\A d \in Readers : reads[d].pc \notin {"load", "fill"}) =>
    \A a \in Accounts : cache.accounts[a] # None => cache.accounts[a] = db.accounts[a]

=============================================================================
