------------------------------ MODULE RobinHood ------------------------------
(***************************************************************************)
(* The hash table under the voxel map, its buckets and the marker caches:  *)
(* utils/robin_hood.h, class Table with IsFlat.                            *)
(*                                                                         *)
(* One info byte per slot holds the distance of the entry from its home    *)
(* slot in units of inc, and below that some bits of its hash.  Slots do   *)
(* not wrap around; a buffer follows the last one, then a sentinel byte.   *)
(* When a byte would overflow, max is set to 0, so that the next insertion *)
(* first makes room: half the unit, another multiplier, or a larger table. *)
(* A node is its key; the mapped value travels with it.  The sizes of the  *)
(* code (8 slots, unit 32, byte 255, 256 attempts) are constants here.     *)
(***************************************************************************)
EXTENDS Integers, FiniteSetsExt, SequencesExt

CONSTANTS
  Keys,
  None,              \* not a key
  HashFunctions,     \* of (multiplier, key): [Nat -> [Keys -> Nat]] on small domains
  InitialNumElements,
  InitialInfoInc,
  InfoTop,           \* the greatest value of an info byte
  Attempts,          \* of one insertion
  MaxMult,           \* bound: multipliers tried
  ReserveArgs        \* bound: arguments of reserve() and rehash()

PowerOfTwo(n) == \A a, b \in 1..n : a * b = n => a = 1 \/ a % 2 = 0

ASSUME TableAssumption ==
  /\ {InitialNumElements, InitialInfoInc, InfoTop, Attempts, MaxMult} \subseteq Nat \ {0}
  /\ InitialNumElements > 1 /\ InitialInfoInc > 1 /\ PowerOfTwo(InitialInfoInc)
  /\ 2 * InitialInfoInc <= InfoTop + 1
  /\ ReserveArgs \subseteq Nat /\ None \notin Keys
  /\ \A f \in HashFunctions : f \in [0..MaxMult -> [Keys -> Nat]]

VARIABLES
  table,          \* the table
  hash,       \* the hash function, fixed
  op,         \* the insertion under way: key and attempts made
  failed,     \* "no", or where an overflow_error was thrown
  sweep,      \* an iteration that erases: position and keys passed
  contents    \* history variable: the keys a map should hold

tableVars == <<table, hash, op, failed, sweep, contents>>

NoOp    == [key |-> None, tries |-> 0]
NoSweep == [at |-> -1, seen |-> {}]

------------------------------------------------------------------------------
(* Sizes: load factor 80, and room behind the last slot.                   *)
CalcMaxNumElementsAllowed(n) == (n * 80) \div 100
CalcNumElementsWithBuffer(n) ==
  n + (IF CalcMaxNumElementsAllowed(n) < InfoTop THEN CalcMaxNumElementsAllowed(n) ELSE InfoTop)

(* A table nothing was put in; its info pointer is at mMask, which is 0.   *)
(* cut is 2^mInfoHashShift.                                                *)
Unallocated(mult) ==
  [mask |-> 0, num |-> 0, max |-> 0, inc |-> InitialInfoInc, cut |-> 1, mult |-> mult,
   info |-> [i \in 0..2 |-> 0], at |-> <<>>]

(* initData: no entries, the sentinel set, the padding behind it zero.     *)
InitData(tab, n) ==
  LET end == CalcNumElementsWithBuffer(n)
  IN [tab EXCEPT !.mask = n - 1, !.num = 0, !.max = CalcMaxNumElementsAllowed(n),
                 !.inc = InitialInfoInc, !.cut = 1, !.at = <<>>,
                 !.info = [i \in 0..(end + 2) |-> IF i = end THEN 1 ELSE 0]]

End(tab) == IF tab.mask = 0 THEN 0 ELSE CalcNumElementsWithBuffer(tab.mask + 1)

(* keyToIdx                                                                *)
Home(tab, k) == (hash[tab.mult][k] \div InitialInfoInc) % (tab.mask + 1)
Info(tab, k) == tab.inc + ((hash[tab.mult][k] % InitialInfoInc) \div tab.cut)

(* next(): the info byte expected d slots behind the home slot.            *)
Expected(tab, k, d) == Info(tab, k) + d * tab.inc
ByteAt(tab, k, d)   == tab.info[Home(tab, k) + d]
Reach(tab, k)       == 0..(End(tab) + 2 - Home(tab, k))
Match(tab, k, d)    == Expected(tab, k, d) = ByteAt(tab, k, d) /\ tab.at[Home(tab, k) + d] = k

(* findIdx looks at two slots per turn, erase(key) at one.                 *)
FindDistances(tab, k, step) ==
  LET turns == {e \in Reach(tab, k) : e > 0 /\ e % step = 0 /\ Expected(tab, k, e) > ByteAt(tab, k, e)}
  IN {d \in 0..(Min(turns) - 1) : Match(tab, k, d)}

FindIdx(tab, k) ==
  LET found == FindDistances(tab, k, 2)
  IN IF found = {} THEN End(tab) ELSE Home(tab, k) + Min(found)
------------------------------------------------------------------------------
(* nextWhileLess and the run of equal bytes behind it: the distance of the *)
(* key if it is there, else where it belongs.                              *)
FirstNotLess(tab, k) ==
  Min({d \in Reach(tab, k) : Expected(tab, k, d) >= ByteAt(tab, k, d)})

RunEnd(tab, k) ==
  Min({d \in Reach(tab, k) : d >= FirstNotLess(tab, k) /\ Expected(tab, k, d) # ByteAt(tab, k, d)})

KeyFound(tab, k) == \E d \in FirstNotLess(tab, k)..(RunEnd(tab, k) - 1) : Match(tab, k, d)

(* insert_move skips on `<=`, being certain that the key is not there.     *)
FirstGreater(tab, k) == Min({d \in Reach(tab, k) : Expected(tab, k, d) > ByteAt(tab, k, d)})

(* An empty slot is found, shiftUp moves everything from i to it up by one *)
(* and writes the bytes, truncated to eight bits; the entry goes to i.     *)
Placed(tab, k, d) ==
  LET i  == Home(tab, k) + d
      e  == Min({j \in DOMAIN tab.info : j >= i /\ tab.info[j] = 0})
      up == [j \in (i + 1)..e |-> (tab.info[j - 1] + tab.inc) % (InfoTop + 1)]
      v  == Expected(tab, k, d)
      full == v + tab.inc > InfoTop \/ \E j \in DOMAIN up : up[j] + tab.inc > InfoTop
  IN [tab EXCEPT
        !.info = [j \in DOMAIN @ |-> IF j = i THEN v % (InfoTop + 1)
                                     ELSE IF j \in DOMAIN up THEN up[j] ELSE @[j]],
        !.at = [j \in DOMAIN @ \cup {e} |-> IF j = i THEN k ELSE IF j \in DOMAIN up THEN @[j - 1] ELSE @[j]],
        !.num = @ + 1,
        !.max = IF full THEN 0 ELSE @]

(* Deviation: entries in their home slot are shifted as well.              *)
ShiftDownPastHome(tab, i) ==
  LET e == Min({j \in i..End(tab) : tab.info[j + 1] < tab.inc})
  IN [tab EXCEPT
        !.info = [j \in DOMAIN @ |-> IF j = e THEN 0 ELSE IF j \in i..e THEN @[j + 1] - tab.inc ELSE @[j]],
        !.at = [j \in DOMAIN @ \ {e} |-> IF j \in i..e THEN @[j + 1] ELSE @[j]],
        !.num = @ - 1]

(* shiftDown: entries behind the erased one move back until one is empty   *)
(* or in its home slot.                                                    *)
ShiftDown(tab, i) ==
  LET e == Min({j \in i..End(tab) : tab.info[j + 1] < 2 * tab.inc})
  IN [tab EXCEPT
        !.info = [j \in DOMAIN @ |-> IF j = e THEN 0 ELSE IF j \in i..e THEN @[j + 1] - tab.inc ELSE @[j]],
        !.at = [j \in DOMAIN @ \ {e} |-> IF j \in i..e THEN @[j + 1] ELSE @[j]],
        !.num = @ - 1]

(* try_increase_info: half the unit, one hash bit less, in every byte.     *)
CanIncreaseInfo(tab) == tab.inc > 2
IncreasedInfo(tab) ==
  [tab EXCEPT !.inc = @ \div 2, !.cut = 2 * @, !.max = CalcMaxNumElementsAllowed(tab.mask + 1),
              !.info = [i \in DOMAIN @ |-> IF i = End(tab) THEN 1 ELSE @[i] \div 2]]

(* insert_move; a table that cannot take the entry throws.                 *)
Overflows(tab) == tab.max = 0 /\ ~CanIncreaseInfo(tab)
InsertMove(tab, k) ==
  LET room == IF tab.max = 0 THEN IncreasedInfo(tab) ELSE tab
  IN Placed(room, k, FirstGreater(room, k))

(* rehashPowerOfTwo: the old entries in the order of their slots.          *)
MovedOne(moved, tab, i) ==
  IF i \notin DOMAIN tab.at \/ moved.threw THEN moved
  ELSE IF Overflows(moved.tab) THEN [moved EXCEPT !.threw = TRUE]
  ELSE [moved EXCEPT !.tab = InsertMove(@, tab.at[i])]

Rehashed(tab, n) ==
  LET moved[i \in 0..End(tab)] ==
        IF i = 0 THEN [tab |-> InitData(tab, n), threw |-> FALSE]
                 ELSE MovedOne(moved[i - 1], tab, i - 1)
  IN moved[End(tab)]

Rehash(tab, n) ==
  \E r \in {Rehashed(tab, n)} :
    /\ table' = r.tab
    /\ failed' = IF r.threw THEN "rehash" ELSE failed

(* increase_size, with its four ways to make room.                         *)
IncreaseSize ==
  LET allowed == CalcMaxNumElementsAllowed(table.mask + 1)
  IN \/ table.mask = 0 /\ table' = InitData(table, InitialNumElements) /\ UNCHANGED failed
     \/ /\ table.mask # 0 /\ table.num < allowed /\ CanIncreaseInfo(table)
        /\ table' = IncreasedInfo(table) /\ UNCHANGED failed
     \/ /\ table.mask # 0 /\ ~(table.num < allowed /\ CanIncreaseInfo(table))
        /\ IF table.num * 2 < allowed
           THEN table.mult < MaxMult /\ Rehash([table EXCEPT !.mult = @ + 1], table.mask + 1)
           ELSE Rehash(table, (table.mask + 1) * 2)
------------------------------------------------------------------------------
TableInit ==
  /\ table = Unallocated(0) /\ hash \in HashFunctions
  /\ op = NoOp /\ failed = "no" /\ sweep = NoSweep /\ contents = {}

Idle == op = NoOp /\ failed = "no" /\ sweep = NoSweep

(* operator[], emplace, insert, try_emplace, insert_or_assign              *)
Insert(k) ==
  /\ Idle
  /\ op' = [key |-> k, tries |-> 0]
  /\ UNCHANGED <<table, hash, failed, sweep, contents>>

(* One turn of the loop in insertKeyPrepareEmptySpot.                      *)
Attempt ==
  /\ op.key # None /\ failed = "no"
  /\ \/ /\ op.tries = Attempts
        /\ failed' = "insert" /\ op' = NoOp /\ UNCHANGED <<table, contents>>
     \/ /\ op.tries < Attempts /\ KeyFound(table, op.key)
        /\ op' = NoOp /\ UNCHANGED <<table, failed, contents>>
     \/ /\ op.tries < Attempts /\ ~KeyFound(table, op.key) /\ table.num >= table.max
        /\ IncreaseSize
        /\ op' = [op EXCEPT !.tries = @ + 1] /\ UNCHANGED contents
     \/ /\ op.tries < Attempts /\ ~KeyFound(table, op.key) /\ table.num < table.max
        /\ table' = Placed(table, op.key, RunEnd(table, op.key))
        /\ contents' = contents \cup {op.key}
        /\ op' = NoOp /\ UNCHANGED failed
  /\ UNCHANGED <<hash, sweep>>

(* erase(key)                                                              *)
Erase(k) ==
  LET found == FindDistances(table, k, 1)
  IN /\ Idle
     /\ table' = IF found = {} THEN table ELSE ShiftDown(table, Home(table, k) + Min(found))
     /\ contents' = contents \ {k}
     /\ UNCHANGED <<hash, op, failed, sweep>>

(* clear(): the memory stays, and so does max.                             *)
Clear ==
  /\ Idle /\ table.num > 0
  /\ table' = [table EXCEPT !.num = 0, !.at = <<>>, !.inc = InitialInfoInc, !.cut = 1,
                    !.info = [i \in DOMAIN @ |-> IF i = End(table) THEN 1 ELSE 0]]
  /\ contents' = {}
  /\ UNCHANGED <<hash, op, failed, sweep>>

(* Moved from, or assigned an empty table: destroy() and init().           *)
MoveOut ==
  /\ Idle /\ table.mask # 0
  /\ table' = Unallocated(table.mult)
  /\ contents' = {}
  /\ UNCHANGED <<hash, op, failed, sweep>>

(* The initial size, doubled until it allows c entries.                    *)
NewSize(c) ==
  LET doubled[j \in 0..c] == IF j = 0 THEN InitialNumElements ELSE 2 * doubled[j - 1]
  IN doubled[Min({j \in 0..c : CalcMaxNumElementsAllowed(doubled[j]) >= c})]

(* reserve(c), rehash(c) and compact()                                     *)
Reserve(c, force) ==
  LET n == NewSize(IF c > table.num THEN c ELSE table.num)
  IN /\ Idle /\ (force \/ n > table.mask + 1)
     /\ Rehash(table, n)
     /\ UNCHANGED <<hash, op, sweep, contents>>

Compact ==
  /\ Idle /\ NewSize(table.num) < table.mask + 1
  /\ Rehash(table, NewSize(table.num))
  /\ UNCHANGED <<hash, op, sweep, contents>>
------------------------------------------------------------------------------
(* Iter::fastForward: the next slot with a byte that is not 0; the         *)
(* sentinel is one.                                                        *)
FastForward(tab, i) == Min({j \in DOMAIN tab.info : j >= i /\ tab.info[j] # 0})

Begin(tab) == IF tab.num = 0 THEN End(tab) ELSE FastForward(tab, 0)

StartSweep ==
  /\ Idle
  /\ sweep' = [at |-> Begin(table), seen |-> {}]
  /\ UNCHANGED <<table, hash, op, failed, contents>>

Passing == sweep # NoSweep /\ sweep.at # End(table)

Advance ==
  /\ Passing
  /\ sweep' = [at |-> FastForward(table, sweep.at + 1), seen |-> sweep.seen \cup {table.at[sweep.at]}]
  /\ UNCHANGED <<table, hash, op, failed, contents>>

(* Deviation: the iteration goes on behind the erased slot.                *)
AfterEraseNext(tab, i) == FastForward(tab, i + 1)

(* erase(iterator): the same slot again if an entry was shifted into it.   *)
AfterErase(tab, i) == IF tab.info[i] # 0 THEN i ELSE FastForward(tab, i + 1)

EraseHere ==
  /\ Passing
  /\ table' = ShiftDown(table, sweep.at)
  /\ sweep' = [sweep EXCEPT !.at = AfterErase(table', sweep.at)]
  /\ contents' = contents \ {table.at[sweep.at]}
  /\ UNCHANGED <<hash, op, failed>>

EndSweep ==
  /\ sweep # NoSweep /\ sweep.at = End(table)
  /\ sweep' = NoSweep
  /\ UNCHANGED <<table, hash, op, failed, contents>>

TableNext ==
  \/ \E k \in Keys : Insert(k) \/ Erase(k)
  \/ Attempt \/ Clear \/ MoveOut \/ Compact
  \/ \E c \in ReserveArgs, force \in BOOLEAN : Reserve(c, force)
  \/ StartSweep \/ Advance \/ EraseHere \/ EndSweep

TableSpec == TableInit /\ [][TableNext]_tableVars
------------------------------------------------------------------------------
(* Every info byte tells the truth: it is the home byte of its key plus    *)
(* the distance, never truncated, also while the unit is halved or the     *)
(* table rehashed; entries stay in front of the sentinel, each key is in   *)
(* one slot and num counts them.                                           *)
LayoutOK ==
  /\ \A i \in DOMAIN table.at :
       LET k == table.at[i] IN
       /\ i < End(table) /\ i >= Home(table, k)
       /\ table.info[i] = Expected(table, k, i - Home(table, k))
       /\ table.info[i] <= InfoTop
       /\ \A j \in DOMAIN table.at : table.at[j] = k => j = i
  /\ \A i \in DOMAIN table.info : table.info[i] # 0 <=> (i \in DOMAIN table.at \/ (table.mask # 0 /\ i = End(table)))
  /\ table.num = Cardinality(DOMAIN table.at)

(* A lookup finds exactly what a map would hold, at any time: after every  *)
(* shift, halved unit, changed multiplier and rehash, in the middle of an  *)
(* insertion that still makes room, and after one that gave up.  The two   *)
(* search loops, two slots per turn and one, agree.  Only a rehash that    *)
(* throws half-way loses entries, as its comment says.                     *)
FindsExactly ==
  failed # "rehash" =>
    \A k \in Keys :
      /\ FindIdx(table, k) # End(table) <=> k \in contents
      /\ FindDistances(table, k, 1) # {} <=> k \in contents

(* An iteration that erases as it goes passes every entry exactly once,    *)
(* although erasing moves entries back under the iterator.                 *)
SweepVisitsOnce ==
  sweep # NoSweep =>
    /\ \A j \in DOMAIN table.at : table.at[j] \in sweep.seen <=> j < sweep.at
    /\ sweep.at # End(table) => sweep.at \in DOMAIN table.at

(* The layout is sound, and lookups on it find what they should.           *)
TableCorrect == LayoutOK /\ FindsExactly
==============================================================================
