# c_colors: models and proofs

TLA+ models of the parts of `c_colors` whose behaviour depends on order, on
failures or on the edges of integers, TLC runs over small instances of them, and
TLAPS proofs for every value of the constants. Paths and line numbers are those
of the repository. The repository has no documentation of its own; what a
component promises is read from its code, its tests and the constraints its SQL
tables declare.

## 1. The system

`parse-colors` turns a CSV of colour names into JSON lines and loads such lines
into an sqlite database; a small library (`colors/`) reads the database into
hashes; `dbmem/` is an sqlite VFS that keeps a database in a memory buffer.

| component | state | operations | interacts with |
|---|---|---|---|
| colour database, `db/db-mgr.c`, `db/db.c` | tables `blobs(id, type, data)`, `hexcodes(blobid, hex)`, `colornames(blobid, colorname)` | `colordb_one/add/add_typeid_hex/add_typeid_name/delete/get/count_*`, `add_colors_db_if_not_exist` | the database file is shared by every process that has it open |
| JSON sync, `colors-json-parser/` | the line index | `parse_colors_json` | scans the types, then one `add_colors_db_if_not_exist` per line |
| `colordb_hash`, `db/db.c` | the running hash | one pure function | gives a colour the type it is stored and looked up under |
| packed lists, `db/db-mgr.c` | one buffer with the rows of a query as text | `colordb_get_distinct_typeids`, `colordb_get_typeid_ids` | walked by loops in `db/db.c` and `colors/colors.c` |
| connections, `db/db-mgr.c`, `db/db.c` | per connection 11 statements, a busy handler, a lock; the global `DB->db` | `colordb_open/close`, `init_colors_db` | every mode of `parse-colors` that uses the database |
| memory VFS, `dbmem/dbmem.c` | `g_dbmem_env` with a list of (path, buffer); per file a buffer `data, used, total` | `dbmem_env_init/fini`, `dbmem_open_db/close_db`; the sqlite file methods | `sqlite3_open_v2` calls back `dbmemOpen` and `load_cb` |
| colour loader, `colors/colors.c` | three hashes, two string lists, a global `DB` | `load_colors`, lookups by name and hex | reads the database |
| CSV conversion, `colors-csv-parser/` | the line index, the current slug, the rows | `parse_colors_csv` | calls the PNG and ANSI helpers per line |
| PNG helper, `hex-png-pixel-utils/` | one temporary file of a fixed name | `hex_to_png_encoded_bytes` | the file is shared by all processes, `hex-png-pixel-creator` included |
| ANSI conversion, `rgb-ansi-utils/` | a constant table | pure functions | |
| `parse-colors` | arguments | one mode per run | everything above |

Vendored or trivial: `stb_image_write.h` but for its file access, the drivers
`colors-test` and `dbmem-test` beyond the checks they make.

What is hard here: several processes filling one database, each SQL statement a
transaction of its own; a process that dies, or a statement that fails, between
the statements that store one colour; inputs processed again after that; hashes
that collide; error paths of `colordb_open` that differ from each other, and a
busy handler that waits without end; the hand-over of a buffer through a list that
is unlocked between the steps, in an environment that is created without a lock;
one temporary file for all processes; a load that reads the database in many
statements while others write; agreement of a packed buffer's writer with its
readers; sizes kept in an `int`. `PROJECT.json` lists each hazard at its line.

What makes each component correct:

* database: a reader's answer for a type never changes; hex and name rows belong
  to the blob they were written for; nothing is half written except by a fault;
  the sync's loop forgets no line (a collision of types may lose its colour); a
  sync ends.
* hash: the type of a name is the same on every build, fits the `int` the lookups
  bind, and keeps similar names apart.
* packed lists: writer and readers stay inside the buffer, every row is seen once,
  the walk ends.
* connections: a handle that is used is complete and nothing is closed twice, but
  for opens that went on without a busy handler; a leaked connection blocks nobody;
  an exit status is honest; every process ends that does not spin.
* memory VFS: a connection works on the buffer it was given; a buffer is freed
  once and not while in use; none leaks; the growing buffer is a file.
* loader: hashes and lists are about the same colours, everything stored is
  loaded but for what a failed read did not return, the asserts hold, the load
  ends.
* CSV and PNG: each accepted line becomes one row with its own slug and, when no
  other process is in the way and the file works, its own picture; the temporary
  file is removed.
* ANSI: the code is that of a nearest entry.

## 2. Modules

| module | models | how |
|---|---|---|
| `ColorCatalog` | what `colordb_one` promises a reader | a write-once dictionary from types to colours |
| `ColorStore` | the tables and the processes of `parse-colors -m json` | one action per SQL statement or branch of `add_colors_db_if_not_exist` and of the loop around it; `pc[w]` is the point a process has reached, `pos[w]` its line, `newid[w]` the variable `new_id` |
| `ColorHash` | one call of `colordb_hash` | `Step` is a turn of the loop, `Return` the reduction; `exact` is the sum without the wrap |
| `HashTwins` | two calls of it | extends `ColorHash` and has a second instance of it that shares the loop index |
| `TypeidScan` | the packed lists | packing and walking are one machine; `style` selects the loop |
| `ColorDbConn` | connections and the modes of `main` | `OpenSteps` are the calls of `colordb_open` in their order, one action per call that succeeds (`Opening`) or fails (`OpenFails`, `BusyHandlerFails`); a mode is a script of opens, statements and closes |
| `DbMemEnv` | the environment and the life of a buffer | one action per critical section of `dbmem_open_db`, `load_cb`, per step of `dbmem_env_init`, and per way `sqlite3_open_v2` can fail |
| `VfsFile` | a file as sqlite uses one | bytes by position; what lies in a gap is unspecified |
| `SpMemFile` | `spmemfileRead/Write/Truncate` | the buffer as a function, the `int` as wrapping arithmetic |
| `ColorsLoad` | `load_colors`, the lookups, the checks of `colors-test` | one action per statement or turn of a loop; a scan may end early and a read may fail; `Add` and `Delete` are another process |
| `PngTempFile` | `hex_to_png_encoded_bytes` | open, write, measure, read, unlink as steps on one shared file, each of the first four with its failure |
| `CsvParser` | `parse_colors_csv` and `hex-png-pixel-creator` | extends `PngTempFile`: parsers and creators are its users |
| `NearestAnsi` | `hex_to_closest_ansi_code` | `Turn` is a turn of the loop; a colour is the sequence of its distances |
| `*_proofs` | | theorems, section 5; `Loops_proofs` has those about `ColorHash`, `HashTwins` and `NearestAnsi` |
| `MC*` | | instances for TLC |

Operators whose comment says "Mutant of" are faulty variants of the operator
after them. No specification uses them; each is there to show that a property
notices the fault. A type invariant is stated as a property of a run only where
the proofs use it.

**ColorStore.** sqlite makes a statement atomic and durable and the code never
issues `BEGIN`, so a statement is a step. `try_again` always asks sqlite to retry,
so a busy file delays a statement but does not fail it (`ColorDbConn` has the
locks). A statement may fail for other reasons (disk full, I/O): `ScanFails`,
`LookupFails`, `AddBlobFails`, `AddHexFails`, `AddNameFails`, each followed by what
the code does then, which is mostly nothing. `Crash` ends a process between two
statements. A process may be started again over the same input. A line is a
colour, `Malformed` (no JSON object), or `Nameless`: the program dies on a line
without a name before it stores anything (`DieOnName`), and on a colour of
`Hexless` after it has stored the blob (`DieOnHex`), because both are passed to
`strlen`. Rowids are one more than the largest one in use, as in an `INTEGER
PRIMARY KEY` without `AUTOINCREMENT`, so a deleted last id is reused. `ONE_QUERY`
has no `ORDER BY`; its scan of the table returns the least rowid. `by`, `torn`,
`dropped` and `blind` are history: who inserted a blob, which blobs lost a row,
which colours could not be inserted, which lookups failed. `AccountedFor(c)` is
what the loop owes a colour: it is stored itself, its insert failed, or another
stored colour has its type, in which case the early return of
`add_colors_db_if_not_exist` loses it without a word.

As committed, the braces in `parse_colors_json` close the `for` loop at line 138,
after which the file uses `i` out of scope and does not compile. The model takes
lines 139 to 193 as the rest of the body, where their use of `i`, `c` and
`FREE_ITEM` puts them. Only `DB_NAME_MODE_ENABLED` is on, so a line is stored under
the hash of its name. `Delete` (`colordb_delete`) is public and called by nothing;
it is part of `ApiSpec` only.

**TypeidScan.** A cell of the buffer holds the number of its row, a NUL or junk.
The styles are the four ways in which the loops differ: where they count a row
(at its digits or at its NUL) and what they test (the pointer, the sign). A failed
`malloc` of the first byte or a failed `realloc` returns NULL with the rows counted
so far, which is what the code returns.

**ColorDbConn.** `conns[p]` are the sqlite connections a process has opened, in
order; `db[p]` is the one `DB->db` names. A statement holds the file lock from its
first step to `reset`; while it is open, other connections wait. `colordb_close`
and the error paths finalize what they finalize in the code: two insert statements
are never among it, so `sqlite3_close` refuses and the connection stays
(`Finalized`). The paths that finalize `db->select` before anything has set it may
crash the process or behave as if the pointer were NULL.

When `sqlite3_busy_handler` fails, `colordb_open` closes the connection, frees `db`
and has no `return`: it goes on with freed memory (`BusyHandlerFails`). From then on
(`Gone`) each step may crash, fail or seem to succeed; if one fails, its error path
closes the connection again, and if all seem to succeed `DB->db` points to freed
memory, whose uses (`UseFreed`) may crash or come back with nothing done. What a
write through it does to other memory of the process is left out. `freed` has the
connections freed in this way, `misused` those `sqlite3_close` got when they were
closed already.

In mode `json` the database is opened twice, and there may be no line to look up
after that (`--count 0`, or no line that parses): such a process ends with status 0
even without a handle. A stored type below 1 (`lowtype`) makes the walks of
`json`, `typeids` and `typeids_hash` spin. No process of the repository calls
`colordb_close`; mode `client` is a program that uses the interface of `db-mgr.h`,
mode `colors_test` stands for the test driver.

**DbMemEnv.** The link is pushed under the mutex, sqlite calls `load_cb`, which
removes *a* link of that path under the mutex, and `dbmem_open_db` sets `db->mem`
to its own argument. The list `load_cb` searches is that of `cbArg`, the
environment `g_dbmem` was registered with; the list a link is pushed on is that of
`env`. `dbmem_env_init` is three steps (`TestEnv`, `AssignEnv`, `RegisterVfs`) that
threads may interleave, so there can be two environments. The allocation of the
mutex is taken as one step with that of its environment; a thread that pushes with
the mutex still NULL is not modelled. `heap` is what is allocated, and a freed
address is used again. A rollback journal has a buffer of its own. `lost` records
the buffers of opens that fail after `load_cb`; `overlap` that two opens of one
path were under way together; `raced` that one environment replaced another.
`Calm` is neither. `dbmem_env_fini` is not called while a thread is inside
`dbmem_open_db` or `dbmem_env_init`, because it frees the mutex, and databases are
closed with their statements finalized, as `dbmem-test` does.

**SpMemFile.** A write that does not fit reallocates to `2 * (last + total)`,
computed with 64 bits and assigned to an `int`. `FileAssumption` bounds files to a
quarter of `INT_MAX`.

**ColorsLoad.** A row of `blobs` is a name with a hex or with `NoHex`, as a process
that died before it added the hex leaves it; or data that is no JSON object
(`NoName`) or empty (`NoText`). A colour goes into three hashes by three keys; a name
that is taken keeps its row. `_processed_items` has the ids already loaded. Both
scans end at the first result that is not a row, so a failed read looks like the
end: `ReadTypeids` returns any of the types and `ReadIds` any first part of the ids,
and `missed` has the names of which no row was returned. `ReadFails` is a read that
ends the program: a buffer that could not be allocated, or a blob `colordb_get`
returned NULL for although it is there (`unread`). A blob that has been deleted in
the meantime is NULL too, and a NULL name or hex is hashed (`LoadBadRow`); with no
row at all `ColorLine` is freed uninitialised: both crash. `item` is where the
iterator of `load_color_names` stands; it goes on only over a row with text
(`HasText`). The asserts of `load_colors` are the action `CheckLoad`, which ends in
`aborted` when one fails; the checks of `colors-test` are `TestColors`.

**PngTempFile and CsvParser.** A picture stands for the contents of the file one
colour makes and for its length. `pixel[u]` is the colour `strtol` made of the hex:
`str_substring` does not end its two characters with a NUL, so if the heap has a
digit behind them it is another colour (`BeginEncoding`). The results of `fwrite` and
`fclose` are not looked at, so the file may be empty or `Cut` (`WriteTmpShort`); a
failed `fsio_file_size` gives -1, a failed `fsio_read_binary_file` gives NULL, whose
`strlen` is taken. A process that has the file open keeps writing to it after another
one has unlinked it. `tainted[u]` records that another process used the file since
`u` opened it, or that `u` could not open, write, measure or read it.

Of a line the model has the name and the hex as `strings[1]` gives it. In a line
without a comma that is read past the end of the array; what is found there is either
no hex, and the line is skipped, or no string at all (`Wild`), and the process
crashes (`LineCrashes`), unless the name was too short to get that far. `SlugOf` is
the name in lower case with blanks and quotes replaced, so names may share a slug. Of
a row the model keeps the line, the slug, the pixel and the picture; the other fields
are functions of the hex, except `ansicode`, for which `hex_to_256_color_ansicode`
casts the address of the hex string to a colour.

**NearestAnsi.** The distances come from floating-point Lab values; only their
order matters to the search, so they are natural numbers and any sequence of them
is a table.

## 3. Runs

| run | asks | bounds |
|---|---|---|
| `store` | tables stay linked (`ReferencesBlobs`, `OneRowPerBlob`), duplicates come only from racing processes (`OneBlobPerAdder`), half-written blobs come only from faults and lines without a hex, and stay so (`CompleteOrTorn`, `NeverRepaired`), a line that was passed is stored, failed, or collided (`PassedLinesStored`), readers see a write-once dictionary (`CatalogSpec`) | 2 processes, 2 starts each, inputs of 3 lines, two pairs of colours of one type, a malformed line, one without a name and one without a hex, 2 faults, 6 rowids |
| `store_live` | `SyncCompletes` | no faults, `--count 2`, inputs of 3 and 2 lines, one colour of type 0, one without a hex |
| `store_dangling` | **violated**: `ReferencesBlobs` with `colordb_delete` | 4 rowids |
| `loops` | `WrapInvisible`, `LookupFindsInserted`, `NeighboursDiffer` of the hash; `CodeIsNearest` of the table search | words of 1024 values, 64 * 4 types, names of up to 3 of 4 characters, one of them negative; tables of up to 3 entries, distances 0 to 2 with 2 as the initial one |
| `hash_buckets` | **violated**: `UsesAllBuckets` | the same hash |
| `typeid_scan` | `MemorySafe`, `EachRowOnce`, `WalkEnds` | 3 rows of 1 or 2 digits, 4 loops |
| `conn` | `HandleIsComplete`, `LeakedHoldNoLock`, `NeverClosedTwice`, `StatusIsHonest`, `EveryProcessEnds` | a process in each of 8 modes next to one in mode `json`, a stored type below 1 or none, 1 failing call or kill |
| `dbmem` | `OwnBuffer`, `NoUseAfterFree`, `NoSharing`, `NoOtherLeak` | 3 threads, 2 paths, 3 buffer addresses, 2 environments, 2 failures |
| `dbmem_swap` | **violated**: `AlwaysOwnBuffer` | the same |
| `memfile` | `InBounds`, `FileSpec` | 2 byte values, blocks of 1 and 2 bytes, files of up to 4 bytes |
| `csv` | `RowsAreAcceptedLines`, `SlugIsNearestAsciiAbove`, `PicturesAreOwn`, `TempFileIsRemoved`, `CrashHasCause` | 2 parsers with files of 5 and 2 lines (a header, a short and a non-ASCII name, two names of one slug, lines without a comma), `--count 2`, 2 creators, one of them refused, 1 fault |
| `colors` | `StoredIsLoaded`, `HashesAgree`, `ListsAreParallel`, `AssertsHold`, `CrashHasCause`, `LoadEnds` | every database of up to 2 rows of 4 names with one of 2 hexes or none, without a name, or empty; any scan ending early and any read failing; one row added and one deleted during the load; `MAX_COLORS` 2, at least 2 colours wanted |

`store`, `conn` and `memfile` check their `TypeOK` as well.

Why the bounds suffice. In `store` two processes are enough for every race of a
lookup with an insert; the inputs make both processes add one type with
different data and skip or die on a line; two starts give a rerun after a crash;
two faults give a lost row and a crash, or both rows lost. Six rowids are more
than the blobs these inputs can produce, so no insert is blocked by the bound.
In `loops` the factors keep the shape of the real ones (a word is a multiple of
the first factor, 33 is invertible modulo it), which is all the proofs need;
tables of three entries have every order of a nearer, an equal and a farther
one. In `typeid_scan` the third row is the first one whose place depends on two
earlier NULs. In `conn` the lock has two sides, a holder and one who waits; mode
`json` holds both kinds of lock and every mode meets it. One failing call
reaches each error path, and after a busy handler that could not be set each
later step may fail at no further cost. In `dbmem` three threads allow an
overlapping pair and a bystander; three addresses are fewer than the opens of a
behaviour, so they are used again. In `memfile` four bytes allow a growth after
a growth and a gap that is later filled. In `csv` two of the four users meet in
every pair of steps, and a third can come between; one fault is enough to fail
each call, and the sharing of the file costs none. In `colors` the two rows and
the one added allow two of one type and one of another, `MAX_COLORS` of 2 cuts
the outer loop, and the assert's limit of 10 is scaled down with it.
`CHECK_DEADLOCK FALSE` is set because all these systems stop: inputs end, runs,
faults and buffers are bounded, a walk is done; the memory file has no bound
that stops it, but its writes may be refused for ever.

Symmetry: threads, paths, buffers and environments of `DbMemEnv` are
interchangeable; no action orders or names them, and the run has no liveness
property. Elsewhere no symmetry is used.

Fairness. `SyncCompletes` assumes weak fairness of each process's own steps: the
operating system keeps running it, and the busy handler lets a waiting statement
through eventually because other statements are short. Starting a process is not
fair, crashing and failing are not either. `EveryProcessEnds` assumes weak
fairness of each process's `Proceed`: here the lock is in the model, and what is
shown is that it becomes free; since each script is finite, waiting for one of
the others to finish is enough and no stronger fairness is assumed; a process
that spins holds no lock and is the only one that need not end. `LoadEnds`
assumes that the loading process keeps running and nothing of the other one, and
no read has to fail; `WalkEnds` that the one thread does.

## 4. What the violated runs show

* `store_dangling`. `blobid INTEGER REFERENCES blobs` (`db/db-mgr.c:36`, `:44`) is
  not enforced, because foreign keys are off unless a connection enables them.
  After `colordb_delete` the hex and name rows dangle, and the next blob can get the
  freed rowid and with it the rows of the deleted colour.
* `hash_buckets`. `COLORDB_MAX_HASH_BUCKETS` (`db/db.h:4`) is `65536 * 1024` without
  parentheses, so `hash % COLORDB_MAX_HASH_BUCKETS` (`db/db.c:225`) is
  `(hash % 65536) * 1024`. There are 65536 types instead of 67108864, and a colour
  whose type is taken is silently not stored. Evaluated over the shipped files: the
  4149 names of `etc/colornames.bestof.csv` have 3989 types and the 29778 of
  `etc/colornames.csv` have 23882; the modulus as named gives 4149 and 29767.
* `dbmem_swap`. Two overlapping `dbmem_open_db` calls of one path can each be given
  the other's buffer (`dbmem/dbmem.c:377`): `db->mem` is then not what the
  connection reads and writes, and closing one frees the buffer of the other.

Behaviours that hold in the models as the code has them and are worth knowing:

* a blob whose hex or name row was lost is never completed (`NeverRepaired`);
* one stored colour of type 0 keeps every later sync from ending, and a line
  without a name ends every run at that line (the exceptions in `SyncCompletes`; no
  shipped name has type 0);
* a colour whose type another colour has is passed without an error and is not in
  the database (the exception in `PassedLinesStored`);
* `sqlite3_close` in `colordb_open` and `colordb_close` never closes a connection
  whose insert statements were prepared; that is also why the error path that calls
  it twice does no harm. Only an open that went on without a busy handler closes a
  closed connection, or leaves a handle to freed memory (the exceptions in
  `NeverClosedTwice` and `HandleIsComplete`);
* `parse-colors -m json` ends with status 0 without a database if no line is looked
  up (the exception in `StatusIsHonest`);
* a read that fails in the middle of a scan silently shortens a load (the exception
  in `StoredIsLoaded`), and a blob without a hex crashes every load that comes to it
  (`CrashHasCause`);
* a picture may be another colour's, or cut or empty, when two processes encode at
  the same time or the disk is full (the exceptions in `PicturesAreOwn`), and even
  when neither happens its pixel is that of the hex only if the heap allows it.

## 5. Proofs

| theorem | statement | argument |
|---|---|---|
| `ColorStore_proofs!TypeCorrect` | `Spec => []TypeOK` | strengthened by `InFlightIds`: a process between its inserts holds a real rowid, which the inserts of `blobid` need |
| `RowsReferToBlobs`, `AtMostOneRow` | `[]ReferencesBlobs`, `[]OneRowPerBlob` | invariant `Links`: ids are unique; the blob a process is writing rows for is its own colour and no other process writes for it; its missing rows are indeed missing; all rows refer to blobs of their colour; no blob has two. Steps that do not insert are handled once, as `Quiet` |
| `NoDuplicateByOneAdder` | `[]OneBlobPerAdder` | with `Adding`: a process about to insert has no blob of that type unless a lookup failed |
| `ImplementsCatalog` | `Spec => CatalogSpec` | a new id exceeds all others, so an insert changes the oldest row of a type only if there was none |
| `NoLineForgotten`, `OnlyFaultsTear`, `TornForEver` | `[]PassedLinesStored`, `[]CompleteOrTorn`, `[]NeverRepaired` | on top of `Links`: a blob with a missing row is the one its process is about to complete, or is in `torn`; and nobody is ever about to write for a torn blob. For the lines, that each one a process has passed is accounted for is kept by every step, because blobs are never removed; `AlreadyStored` finds either the colour itself or another one of its type |
| `Loops_proofs!HashTypeCorrect`, `WrapNeverShows`, `TypesFitInt` | `[]TypeOK`, `[]WrapInvisible`, `[]LookupFindsInserted` | `hash` and `exact` agree modulo `Residues`, because the word size is a multiple of it |
| `Loops_proofs!NeighboursNeverCollide` | `TwinSpec => []NeighboursDiffer` | up to the differing character the hashes are equal, after it they differ modulo `Residues`: characters are closer than that, and 33 is invertible |
| `ColorDbConn_proofs!ConnTypeCorrect`, `HandlesAreComplete`, `LeaksBlockNobody`, `NothingIsClosedTwice`, `ExitStatusIsHonest` | `[]` of `TypeOK`, `HandleIsComplete`, `LeakedHoldNoLock`, `NeverClosedTwice`, `StatusIsHonest` | invariant `Inv`, a conjunction over the processes, since the lock decides when a step may be taken and never what it does. While step `n` of `colordb_open` is next, the newest connection is later than the handle and, unless it is in `freed`, has exactly the statements of the steps before `n` (`Fresh`, `Prepared`); a connection in `freed` is closed, and nothing else is when an error path or `colordb_close` gets it; the busy handler is set before the first step that needs the lock, so a lock never fails a step; a script opens first and after a close |
| `DbMemEnv_proofs!CallersGetTheirBuffer`, `FreedBuffersAreGone`, `OneOwnerPerBuffer`, `OnlyLateFailuresLeak` | `[]` of `OwnBuffer`, `NoUseAfterFree`, `NoSharing`, `NoOtherLeak` | invariant `Inv`: without a race there is one environment and each link is claimed by a waiting thread of its path, one to one; in calm times that thread is the one that pushed it, and each allocated buffer has exactly one owner: a link, a file, a journal, or `lost` |
| `Loops_proofs!SearchTypeCorrect`, `SearchIsNearest` | `[]AnsiTypeOK`, `[]CodeIsNearest` | the entry at `t` is the first of the nearest among those passed |
| `SpMemFile_proofs!FileTypeCorrect`, `WritesStayInside` | `[]TypeOK`, `[]InBounds` | growth happens only if `total < last`, so the new total is below `4 * Limit` and does not wrap |
| `SpMemFile_proofs!ImplementsFile` | `Spec => FileSpec` | in place or growing, a write changes exactly the bytes of its block below `used` |
| `TypeidScan_proofs!StaysInBuffer`, `RowsConvertedOnce` | `[]MemorySafe`, `[]EachRowOnce` | without a failed allocation there are offsets `off` with `Laid(off)`: the rows lie one behind the other, digits and NUL, with nothing after the last; and with `Walked(off)`: a loop is at the start of the next row or at the NUL of the last one it converted, and has counted accordingly. After a failure there is no buffer and no row is converted |
| `ColorsLoad_proofs!HashesStayPaired`, `ListsStayParallel` | `[]HashesAgree`, `[]ListsAreParallel` | each turn changes all three hashes, adding a new name with its row and its hex, which from then on leads to that name, or it changes none; the lists take one name and its hex per turn, and the names left in `todo` are those not yet listed |
| `NoStoredColourMissed`, `LoadCrashIsExplained`, `NoAssertFires` | `[]` of `StoredIsLoaded`, `CrashHasCause`, `AssertsHold` | without a cut or a deletion each name stored at the start is loaded or missed, or its id or its type is still to be read; every hashed row has a name and a hex, as `Loadable` asks, and the first row that is read is hashed, so that `qty` is 0 only if none was; the iterator stands at a name that is still to be listed, or none is left; the lookups of `colors-test` follow from `HashesAgree` |
| `CsvParser_proofs!OwnPicturesOnly`, `OnlyKillsLeaveTheFile`, `CsvCrashIsExplained` | `[]` of `PicturesAreOwn`, `TempFileIsRemoved`, `CrashHasCause` | `Alone`: a user that is not tainted is the only one, and the file, the size and the bytes it has are those of its pixel as far as it has got; a failing call taints; whoever takes a step with the file is using it afterwards or has just unlinked it, so only a kill ends the last use with the file still there |
| `RowPerAcceptedLine`, `SlugFromAbove` | `[]RowsAreAcceptedLines`, `[]SlugIsNearestAsciiAbove` | before line `i` there is one row for each accepted line so far, at the position of its rank, fewer than the count as long as the loop goes on; `sl` is the slug of the last row. The rank of a line is a cardinality, so its facts come from the theorems about finite sets and no induction is needed |

Each names the property of a run, except `HashTypeCorrect` and `SearchTypeCorrect`,
which state type invariants the other theorems rest on. The invariants `Inv` of
`ColorDbConn_proofs` and `DbMemEnv_proofs`, and `IInv` of `SpMemFile_proofs`,
`TypeidScan_proofs`, `ColorsLoad_proofs` and `CsvParser_proofs`, are inductive
strengthenings of the properties they are used for; they hold in the runs' instances
too (with `off` computed from the widths of the rows).

Assumptions. `StoreAssumption`: the shapes of the constants; types are natural
numbers, which `colordb_hash` gives. `HashAssumption`: the word size is a
multiple of `Residues` and all types fit an `int`; true of 65536, 1024 and 32-
or 64-bit words. `TwinAssumption`: no multiple of 33 below `33 * Residues` other
than 0 is divisible by `Residues`, and characters are less than `Residues`
apart; true of 65536 and `char`. `ConnAssumption`, `EnvAssumption`: the bounds
are numbers and the null values are no buffers, paths or environments.
`AnsiAssumption`: distances are numbers. `FileAssumption`: files of up to a
quarter of `INT_MAX`. `ScanAssumption`: the bounds are numbers and the styles
are the four loops. `LoadAssumption`: every name has a type, `NoName` and
`NoText` are no names and `NoHex` is no hex, the bounds are numbers and
`MAX_COLORS` is at least 1. `CsvAssumption`: parsers and creators are different
processes; a file is a sequence of lines, each with a name and with a hex,
something that is none, or `Wild`; the configuration of a creator is a hex or
none; a missing file, an empty one, a cut one and a bad hex are not pictures.
TLC evaluates each of them in the run of its module. `Loops_proofs` begins with
the arithmetic of remainders the solvers do not find by themselves.

Every safety property, action property and refinement of the passing runs is stated
by a theorem. Checked by TLC only is liveness under fairness, which is out of the
prover's reach: `SyncCompletes`, `EveryProcessEnds`, `LoadEnds`, `WalkEnds`.

## 6. Not modelled

* `stb_image_write.h`: a vendored encoder, but for how it opens and writes its file.
* Formatting and contents: JSON fields, palettes, progress bars, help texts, the
  parsing of arguments, the Lab and delta-E formulas (floating point), the value of
  `ansicode` (an address).
* sqlite itself beyond what section 2 says of it; the file methods of the VFS that
  do nothing; what the memory allocator does after misuse; what a write through a
  freed `colordb` does to the process's other memory.
* `sqlite3_close` returning SQLITE_BUSY to `dbmem_close_db`, which frees the buffer
  all the same: it takes a caller that leaves a statement open, in no particular
  order, and no caller of the repository does.
* A thread that locks the mutex of an environment before it is allocated.
* The printing parts of the drivers `colors-test` and `dbmem-test`; the checks and
  initial states they contribute are in `ColorsLoad` and `SpMemFile`.
