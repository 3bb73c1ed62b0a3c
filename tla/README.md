# Formal models of uf-ece-masters

The repository is the software of an integrated navigation system (GPS, inertial sensors, Kalman filters) written for
a master's thesis: a C++ matrix library, Kalman filters in C++ and in C, a message protocol for serial ports, small
libraries around the operating system, and the program `nav` that puts the C++ parts together. This directory holds
TLA+ models of its logic, TLC configurations that check them on small instances, and TLAPS proofs for instances of
every size. `PROJECT.json` is the index: components, runs, the source lines of every definition, hazards, findings and
theorems.

To check a run: `tlc -config Libraries.cfg MCLibraries.tla`. To check proofs: `tlapm TempCacheProofs.tla`.

## 1. The system

`CMakeLists.txt` builds four things, which depend on each other in this order: `clib` (only `fileio.c`), `mathlib`,
`filterlib`, and the program `nav`. The C library `cmathlib` and the rest of `clib` are not built by it and used by
nothing in the repository; they are earlier parts of the same system (vehicles that talk over serial ports). There are
no tests. Nothing is multi-threaded; concurrency is between processes at the two ends of a serial line, or at a file,
and nothing is persisted but path files and the file of results. So the hard behaviour is of five kinds: ownership of
objects behind overloaded operators, scratch memory shared by the steps of a long calculation, faults of a line and
files cut short, off-by-one conditions in loops that run once, and formulas for rotations that are wrong by a sign.

| Component | Sources | State | Operations | Used by | What is hard | What makes it correct |
|---|---|---|---|---|---|---|
| Temporary-object cache | `mathlib/cBaseMath.cpp`, `cArray.cpp` | a global vector of objects, each with a key and a flag `available` | `getTmp`, `getTmpArray`, `releaseTmp` | every operator of mathlib | who releases what, on every path, exceptions included | no object is handed out while it is in use; the cache stops growing |
| Matrices, vectors, quaternions | `mathlib/cMatrix.cpp`, `cVector.cpp`, `cQuaternion.cpp`, `cMathlib.h` | the contents of user objects | operators, `inv`, `trans`, `conj`, `skew`, `set`, copies, assignment | filterlib, nav | operands that are cache objects, in-place inversion, dimension errors half-way through an expression | an expression has the value its operands give it |
| Gauss-Jordan inversion | `cMatrix.cpp`, `cmathlib/matrix.c` | the matrix, `ipiv`, `indxr`, `indxc` | a turn per column, putting columns back | both filters | bookkeeping of pivots through exchanges | result times matrix is the identity, exactly the singular ones are refused |
| Message link | `clib/sendRecMsgLib.c`, `portOpsLib.c` | port buffer, frame under construction, message of the caller | `sendMAXmsg`, `recMAXmsg`, `waitForData`, `waitForNdata`, `waitForResponse`, `readBuf`, `findStartMsg` | other processes | lost, altered and interleaved bytes, partial writes, timeouts | what is accepted was sent, in order, once; calls return |
| Kalman filter (C) | `cmathlib/kalman.c`, `matrix.c` | `Kalman_Filter`: matrices and vectors, half of them scratch | `createKalmanFilter`, `kalman`, `freeKalmanFilter` | - | the order of more than a hundred calls that share scratch members | an update is the textbook update, the covariance stays symmetric |
| Kalman filters (C++) | `filterlib/*` | F, B, H, Q, R, P, K, x, xmin | `init`, `set...`, `update` of four classes | nav | expressions with side effects, errors half-way | gain and covariance belong together |
| Navigation program | `nav/*`, `clib/fileio.c`, `mathlib/cRk4.cpp` | records, filter, navigation state, static averages, rows of results | read, turn of the loop, save | - | loop bounds, statics, comments and ends of files, by-value parameters | averages of the right records, a state at rest stays, results saved |
| Rotations | `mathlib/cQuaternion.cpp`, `cmathlib/quaternion.c`, `rotation.c`, the top of `nav/navigation.cpp` | attitude of `rk->x`, `R_eb` | conversions between Euler angles, quaternions and matrices; products, errors; the attitude part of a turn | nav | signs, orders of axes, ranges of angles, a pitch of 90 degrees | all conversions agree; the yaw of the quaternion survives being taken apart and put together |
| Byte order | `clib/convertDataTypeLib.c` | - | conversions, `packData`, `unpackData` | - | sizes and orders in all combinations | a number sent is the number received |
| Path files | `clib/textFileLib.c` | a file position, a path string | `readLine`, `readComments`, `pathFileRead`, `pathFileWrite` | - | the end of a file, a writer that is not ready or died | what is written is what is read, and a torn file gives nothing else |
| Operating-system wrappers | `clib/signalLib.c`, `serial.c`, `socket.c`, `keyboardLib.c`, `portOpsLib.c` (`initPort`) | descriptors, signal masks | open, read, write, wait | - | partial reads | - |
| The rest | `smLib.c`, `sm.h`, `compression.c` (disabled), `cRand`, `cMLError`, `rk4.c` | - | - | - | - | - |

How they interact: `nav` owns a `cCKF` and a `cRK4`; both call the operators of mathlib, which pass objects of the
cache to each other by reference; `inv` works on the object it is called on. An error anywhere is a `cMLError`
exception that every level catches and throws again, until `main` exits. `readALine` hands lines to `main`, which owns
records and results.

## 2. The modules

| Module | Models | Uses |
|---|---|---|
| `Shapes` | types, dimensions, overloads and dimension checks of mathlib | |
| `ValueEval` | **abstract**: expressions over values, no cache | `Shapes` |
| `TempCache` | the cache and every operator that uses it; implements `ValueEval` | `Shapes`, `ValueEval` |
| `TempCacheProofs` | its invariant, its bound and the refinement, for every instance | `TempCache` |
| `Fractions`, `GaussJordan` | inversion, with exact fractions | |
| `GaussJordanProofs` | its pivots, results and refusals, for every size | `GaussJordan` |
| `LossyLink` | **abstract**: packets may be lost, never reordered or repeated, nor altered unless their data break the frame | |
| `MaxLink` | senders, line and receiver; implements `LossyLink` | `LossyLink` |
| `MaxLinkProofs` | senders, packets and count on any line; receiver, caller and refinement while there is no fault and no STX or ETX in the data | `MaxLink` |
| `FieldMatrices` | 2x2 matrices over the integers modulo a prime, the Jacobian | |
| `KalmanC` | `kalman.c` as lists of library calls on named members | `FieldMatrices` |
| `KalmanCProofs` | all its properties, for every prime, model and time step | `KalmanC`, `FilterProofs` |
| `Filters` | the filter classes of filterlib, method by method | `FieldMatrices` |
| `FilterProofs` | matrices over a prime field, and what the methods do to the members | `Filters` |
| `KalmanCpp` | a program that creates and updates one of them | `Filters` |
| `KalmanProofs` | its invariant and all its properties, for every prime, filter and sequence of calls | `KalmanCpp`, `FilterProofs` |
| `Navigation` | `main` of nav with its filter, its integrator and its files | `FieldMatrices` |
| `NavigationProofs` | all the properties of its runs that hold, for every file and all bounds | `Navigation`, `FilterProofs` |
| `Rotations` | quaternions, Euler angles and rotation matrices of all three libraries, as polynomials over the integers | |
| `Attitude` | the attitude part of every turn of nav, angles modulo a prime | `Rotations` |
| `PathFile` | `textFileLib.c`: a writer that may die, readers, comments added by hand | |
| `ByteOrder` | the conversions of `convertDataTypeLib` | |
| `LibraryProofs` | the algebra of quaternions and matrices, all properties of `Attitude`, what `ByteOrder` preserves, and all properties of `PathFile`, for every circle of angles, every size and every path | `Attitude`, `ByteOrder`, `PathFile` |
| `MCTempCache`, `MCGaussJordan`, `MCKalmanC` | instances for TLC | the module they are named after |
| `MCLibraries` | these three and `PathFile` side by side | `MCTempCache`, `MCGaussJordan`, `MCKalmanC`, `PathFile` |
| `MCFilters` | `Navigation` and `KalmanCpp` side by side | `Navigation`, `KalmanCpp` |
| `MCMaxLink`, `MCAttitude` | instances for TLC | the module they are named after |

Specifications that share an instance have names of their own: `InverseSpec` (GaussJordan), `KalmanSpec` (KalmanC),
`FilterSpec` (KalmanCpp), `PathSpec` (PathFile); the others have `Spec`.

Definitions named `Bad...` are slips one could make in the code (a dropped guard, a missing reset, a swapped order).
The specifications do not use them; each is put in the place of its neighbour to see that a property notices.

### TempCache, ValueEval

A client evaluates one expression at a time. `stack` holds its operands, each a user object (by name) or a slot of
`cache`; each overloaded operator is one action that does what the C++ function does: check dimensions (and throw),
take its result from the cache with `GetTmp`, compute, release the operands that came from the cache. `Copy`,
`Assign`, `Set`, `AddAssign`, `PrintOut` end an expression. C++ leaves the order in which operands are evaluated open,
so the client may apply any operator to the operands on top at any time; an operand stack for which no overload exists
is an expression that does not compile. The contents of an object are one value of `Data`; `Combine` and `Apply` say
what operators compute. `lost` is a history variable: slots nothing refers to that were never released.

What the model shows beside its properties: an exception abandons the temporaries of the expression; `trans()` and
`conj()` and `inv()` of quaternions do not release the object they are called on, so `(A+B).trans()` withholds a slot
for ever (`cMathlib.h:71-72` says that an object no longer needed is made available again); the copy constructor of
matrices copies before it knows the size. All of these are steps of the model, bounded by `MaxLost`.

### GaussJordan

`cMatrix::inv()` and `matrixInv()` are the same algorithm, one action per turn of the main loop (`Reduce`) and of the
last one (`Unscramble`), with the choice among equally large pivots that the code makes. Exact fractions stand for
floating-point numbers: what the bookkeeping does is the same, rounding is not modelled. The unused second matrix `b`
is left out.

### MaxLink, LossyLink

Senders call `SendMAXmsg` and write a packet per `SendPacket`, interleaved with each other; `Arrive` moves a symbol
from the line to the port of the receiver, or loses or alters it; the receiver runs `recMAXmsg` step by step
(`FindStartMsg`, `BeginFrame`, `ReadBuf`, `ReadStale`, `Poll`, `MoreData`, `TimeOut`, `CheckMAXasciiMsg`). Symbols
stand for bytes, a whole header being one symbol; its digits cannot be told from others once one is lost (`Lost`,
`Altered`). Data are any bytes. What `strncat` and `sprintf` do with them is in `Chunk` and `String` (nothing is taken
from behind a NUL, though the header counts it), what the receiver does in `Symbol` (STX and ETX in data are the same
characters as those of the frame). `NothingLostBySender` and `PacketsDelimit` are about senders whose data have no NUL;
`ImplementsLink` and `CallersMessage` promise the data of packets that are `Sound`: as long as their header says, without
STX and ETX. Headers, order and numbers of packets are promised for all of them. A line may lose a character ("lose"),
alter one ("alter"), cut a write short ("cut"), or turn a data byte into ETX ("end", which the run leaves out: the frame
it cuts short is accepted with its trailer as data when the last byte happens to be the checksum). `Plans` bounds a behaviour: which messages each sender sends, how many faults the line has, how often the
receiver just waits (`waitForResponse`, `waitForNdata`, which throw away what a later `recMAXmsg` would have read).
Variables that the C code reads before it sets them (`c`, `chksum`) are nondeterministic choices. The C
member `nChars` is an `int`; below zero it counts 2^31 turns, so -1 stands for all negative values.

A `CASE` whose conditions overlap may take either branch. The proofs showed two that did, in `Got` and in `DataOf`; the
conditions now exclude each other, in the order the code tests them.

### KalmanC

A function is a sequence of calls, `Call(does, a, b, n, out)`, on members named as in the structure; `Exec` carries
one out on the state of all members and stops at a singular matrix (`printError` exits) or at a pointer that was never
set. So the model has the very order, operands and scratch members of the C code, and a read of a scratch member that
is one call too late is an error it can make. Numbers are integers modulo 7: sums, products, transposition and
inverses obey the same laws as real numbers, an identity of low degree that fails over the reals fails for some of
them, and nothing overflows. Divisions by 2, 3, 6 and 2*dt are possible modulo a prime larger than 3. What fresh
memory holds is chosen from `Leftover`: `initMatrixEye` stores only the diagonal, and everything beside it is what
malloc returned.

Two comments say what the code does not do, and have a run each that is expected to fail. `kalman.c:511` gives Pdot as
FP+PF'-PH'inv(R)HP+GQG (`Riccati`); the code multiplies all of FP+PF'-PH' by inv(R) and by PH. `kalman.c:111` adds the
series of Ad to the identity (`ExponentialModel`); the code adds it to `eye`. What holds beside this is stated
separately: `ContinuousFilter` takes the slope of one call of `pmodel` for granted and says that the four calls, which
share their scratch members with each other and with the Runge-Kutta step around them, give the slopes that four separate
ones would; `DiscreteModel` has Ad only where `eye` came from memory that was zero.

### Filters, KalmanCpp

An operator is a method: it takes the record of members and gives the record after the call. The expressions are the
source's. Their one hidden effect is modelled: `R.inv()` replaces R by its inverse, in `pmodel` (four times an update)
and for the gain. After an update with a measurement R is therefore the inverse of what `setR` was given, and after
the next one again R, although `cMatrix.cpp:533` says of `inv` that "this doesn't effect the current data"
(`NoiseUnaffected`, a run that is expected to fail). `GainOfUpdate` says what is left of the textbook: the gain is
P\*H'\*R of the covariance and the R after the update, and this R is the inverse of the noise in every other update; in
the updates between it is the noise itself, and the gain is wrong. In `nav` R is the identity, and nothing comes of it. An update that throws leaves the members as they were assigned so
far, and the program that catches the error may update again: a continuous filter needs an R first (`Again`), since a
singular one is left half eliminated; the discrete filter can be updated at once, and `FailedUpdates` says what it has
lost by then: its covariance is ahead of its state.

### Navigation

`ReadALine` is a turn of the reading loop, `Turn` a turn of the main loop with everything it calls: `reset` at the first
record, the averages of `updateKF`, the update of the filter, `updateNav`, the Runge-Kutta integration and
`navPutData`. One axis stands for three, and a state has four numbers: velocity, position, and two angles for the
attitude. The tilt (roll or pitch) is one that `updateNav` takes from the record and whose difference the filter is told
(`z[6]`, `z[7]`), the heading is one that it keeps and of which the filter is told 0 (`z[8]`). `R_eb` is a sign, and a
block `skew(v)` of F couples an axis to the others by v and -v, so that F has all its columns, R_eb\*skew(a) and
R_eb\*skew(w) among them (`SystemMatrix`, `UpdateKF`). P is the whole covariance, integrated with the slope of
`cCKF::pmodel`; H and R are the identity, as in `initKF`. Quaternions have a module of their own.

`AtRest` is about the whole loop of navigation state, averages, filter and correction. A vehicle at rest in the sense of
its sensors may turn on the spot, but its tilts have to agree with its rates: `updateNav` stores the tilt of the record
and integrates its rate, and when the next record has another tilt, the difference is an innovation that F carries to
the velocity. What the property says is that nothing else moves it. A record nothing was stored in (a comment, a blank line) holds
anything of `Garbage`.

### Rotations, Attitude

Sines and cosines are tables over the integers. All that the code computes with them is a polynomial in sines and
cosines of half angles, of degree four at most, so the instance for TLC takes a finite field with a cyclic group of
points of the circle: modulo 23 there are 24, one for each half step of 30 degrees, and every identity of real sines
and cosines that follows from the addition laws holds among them. `CircleAssumption` states these laws, and TLC checks
them of the tables. `asin` and `atan2` look their angle up, which `AngleIsKnown` says is the only one. A part of what
`LibraryProofs` proves needs no sines: polynomial identities over the integers are identities over the reals.

`Attitude` is the quaternion in `rk->x[6..9]`. A turn (`Update`) is `reset` at the first record, `updateR`, the
reconstruction in `updateNav` (angles of the quaternion, roll and pitch replaced by those of the record) and the
integration, taken as the exact rotation it approximates. At a pitch of 90 degrees `atan2` is given rounding errors and
any angle may come out; the history variable `locked` records that this has happened. The history variable `angles` says
what the angles should be by adding each rate to the angle of its axis. That is the rotation a rate makes about x at any
time, about y without roll, about z without roll and pitch; `RateAssumption` keeps to such records, and
`DeadReckoning` says nothing of others. The attitude errors that `updateKF` gives the filter are in `Navigation`.

### PathFile

The path is a text of a count and six fields for each point. `pathFileWrite` prints it line by line (`Printed`), the
stream hands what was printed to the file in pieces (`Flush`), the process may die (`Crash`), and somebody may add
comment lines to a complete file (`Note`). `Read` is `pathFileRead` or `readComments` at any moment, in one step:
a reader refills its buffer until it is told that there is no more, and since the file only grows while it is written,
what it has got by then is the file as it was when it asked last. A file that is written anew (`fopen` with "w", line 91)
or edited during a read is not modelled; the reader may then get a mixture of two paths. `Skip` is the loop
both have: it reads lines until one is no comment, and after the end of the file all lines are alike, so that the loop
may not end. The specification is `PathSpec`, since `LibraryProofs` has another `Spec`. `Stale` is what a local
variable holds that `fscanf` did not set. "wild" stands for what the C code does outside its variables.

### ByteOrder

Pure functions, whose operators are the C functions; the byte order of the machine is an argument, so that a message
may travel between machines. `Digit` says what number some bytes are.

## 3. The runs

| Run | Instance | States | Shows |
|---|---|---|---|
| `libraries` | the four instances below, side by side | 173 084 | |
| - TempCache | one 1x1 matrix with operands on two levels, or a vector, a quaternion and matrices of 2 to 4 rows with operands that need not conform; one lost slot | | `Safety`, `BoundedCache`: books balance, only losses and depth make the cache grow; `ImplementsValues`: the cache is invisible |
| - GaussJordan | all 3x3 matrices over -1..1 up to signs, 3x3 covariances | | `Inverts`, `RejectsSingular`, `PivotsDistinct`, `NoExchange` |
| - KalmanC | every kind of filter, two or three values of every input, three updates | | every update is the textbook's as far as the code keeps to it, scratch members carry nothing over |
| - PathFile | seven paths of zero to two points, complete or not; every cut of the file, two comment lines anywhere | | what was stored is read, a torn file gives its front or no path |
| `filters_updates` | Navigation: all files of up to five lines after the first, a vehicle that turns on the spot; Start = 1, Last = 3, averages of 3. KalmanCpp: every class, R regular, diagonal or singular, three updates, repeated after errors | 111 977 | which records are used, averaged, when the program ends, that a vehicle at rest stays; gain, covariance and R belong together, and what a failed update leaves |
| `lines` | one sender and one lost or altered symbol or cut write anywhere; two senders and no fault; a receiver that waits twice; NUL, STX and ETX at every place of a message; messages of 0 to 6 bytes in packets of 2 | 651 996 | packets delimit messages, accepted packets were sent, the caller's structure holds one packet, calls return as far as they do |
| `attitude_turns` | angles of 30 degrees; records of two rolls, three pitches, two yaws, rates about each axis | 1 033 | all conversions agree for all angles, and the quaternion keeps the yaw |
| `blind` | one write cut short | violation | see section 6 |
| `binary` | a message with a NUL | violation | see section 6 |
| `inv_exchanges` | 4x4 matrices with one element per row and column | violation | see section 6 |
| `kalman_series`, `kalman_riccati` | the filters of `libraries`, one update | violation | see section 6 |
| `filters_noise`, `nav_rows` | as `filters_updates` | violation | see section 6 |
| `attitude_reb` | as `attitude_turns` | violation | see section 6 |

Modules that share no state are checked side by side in one run: `MCLibraries` and `MCFilters` move one of their
modules in a behaviour and leave the others as they start, so that the states are the sum of those of each, not the
product. An invariant is checked in the states of its own module, and holds elsewhere as in an initial state.

Why the bounds are enough. *TempCache*: `getTmp` looks at one object at a time and operators at two operands; two
levels of operands contain every operator, with one operand kept while another is computed, and one loss shows that a
lost slot is never reused. One bit of contents tells an object from any other. *MaxLink*: with packets of two bytes
the messages give every status (FULL, START, CONT, END) with an empty, short and full last packet; a buffer of 4
symbols fills up within a frame; one fault at every place is followed by whole packets; polls never wait twice
(`Tired = 0`), so that a receiver may give up whenever nothing has arrived yet, which is what any larger number allows
in an unlucky moment. *GaussJordan*: 3x3 is the
smallest size with several exchanges, 4x4 the smallest where the last loop goes wrong. *Kalman filters*: the third
update starts from a state all of whose members two updates have written; the matrices are not symmetric and do not
commute, so that a swapped factor shows. *Navigation*: the rings are filled and wrap around (five turns, length 3);
files end before `Start`, at it, before and after `Last`. *Attitude*: all angles of a group of twelve steps, so every
quadrant and every wrap; a sign or an axis exchanged in any formula shows in some angle. The records keep the angles
after a rotation whole steps, so that the history can say what they should be. *PathFile*: two points are the least
with a line between others; fields are empty or one character, counts have one digit.

`CHECK_DEADLOCK FALSE` stands where the program may stop: in `libraries`, operands no overload combines, an inversion
that returned, a filter after `MaxCalls` updates, freed or crashed; in `lines`, a link on which every packet of the plan
was sent and read. `filters_updates` and the attitude runs check for deadlock. `libraries` explores states of the cache
only while it holds at most `MaxCache` slots, and `MaxMixed` where operands have several shapes (a state constraint); its
properties are safety properties, for which this is sound on what is explored. Arrays reused across sizes hardly occur
within `MaxMixed`; that case rests on `BoundTheorem`.

## 4. Liveness and fairness

Only `MaxLink` has liveness properties, under `WF_vars(Receiver) /\ WF_vars(Arrive)`: a receiver inside `recMAXmsg` is
a running process, whose polls are sleeps with a counter, and bytes once written arrive. Senders get no fairness: a
program may never send. `FaultlessCallsReturn` says that every call of `recMAXmsg`, `waitForResponse` and
`waitForNdata` returns on a line without faults, `CountingCallsReturn` that it does with faults as long as the count of
characters has not gone below zero. The navigation program
needs none: `Ends` says that every step goes on to a later part of `main` or uses up a line or a record, which with
the check for deadlock gives termination.

## 5. What is proved

| Theorem | States | Assumes |
|---|---|---|
| `TempCacheProofs!TypeCorrect` | `Spec => []TypeOK` | `DataAssumption` (Combine and Apply stay in Data), `ClientAssumption` (names have kinds and are neither numbers nor values, bounds are numbers) |
| `TempCacheProofs!CacheSafe` | `Spec => []Safety` | the same |
| `TempCacheProofs!ValuesTheorem` | `Spec => ImplementsValues`: the cache implements the evaluator without one | the same |
| `TempCacheProofs!BoundTheorem` | `Spec => []BoundedCache` | the same |
| `GaussJordanProofs!PivotTypes` | `InverseSpec => []InverseTypeOK` | `SizeAssumption` (at least 2x2) |
| `GaussJordanProofs!PivotsStayDistinct` | `InverseSpec => []PivotsDistinct`; "Singular Matrix-1" is unreachable | the same |
| `GaussJordanProofs!InverseTheorem` | `InverseSpec => [](NoneMissed => Inverts)`: the result is the inverse, unless the comparison with `indxr[1]` omits an exchange | the same |
| `GaussJordanProofs!SmallTheorem` | `InverseSpec => [](N \in {2, 3} => Inverts)` | the same |
| `GaussJordanProofs!SingularTheorem` | what is refused is singular, what is reduced is not | the same |
| `GaussJordanProofs!RejectsTheorem` | `InverseSpec => []((Singular(a0) => Dependent) => RejectsSingular)`: what is inverted takes no vector to zero; what is refused takes one, of -2..2 unless it has only longer ones | the same |
| `GaussJordanProofs!NoExchangeTheorem` | `InverseSpec => []NoExchange` | the same |
| `GaussJordanProofs!CovarianceTheorem` | positive definite matrices are inverted, in place and rightly | the same |
| `MaxLinkProofs!SenderTheorem`, `CountTheorem` | `Spec => []NothingLostBySender` (of senders whose data have no NUL), `Spec => []CountIsTrue` | `LinkAssumption` (plans are plans, sizes are numbers, the modulus is above 3) |
| `MaxLinkProofs!PacketsTheorem` | `Spec => []PacketsDelimit` (likewise) | the same |
| `MaxLinkProofs!CallerTheorem` | `Spec => [](faults = 0 /\ Plain => CallersMessage)`; `Plain`: nobody was asked to send STX or ETX | the same |
| `MaxLinkProofs!DataTheorem` | the half of `CallersMessage` about data, on any line | the same |
| `MaxLinkProofs!FaultlessTheorem`, `LinkTheorem` | `Spec /\ [](faults = 0 /\ Plain) => ImplementsLink`, `Spec /\ plan.faults = 0 /\ PlainPlan => ImplementsLink` | the same |
| `KalmanCProofs!Invariant`, `SymmetryTheorem`, `ScratchTheorem` | `KalmanSpec => []IInv`, `[]SymmetricP`, `[]ScratchDead` | `PrimeAssumption`, `StepAssumption` (see below), `CallerAssumption` (models, matrices and measurements have their types, Q and R are symmetric, an unset pointer is none of them) |
| `KalmanCProofs!PointerTheorem`, `LinearizedTheorem` | `KalmanSpec => WildPointers`, `Linearized` | the same |
| `KalmanCProofs!DiscreteTheorem`, `ModelTheorem`, `ContinuousTheorem` | `KalmanSpec => DiscreteFilter`, `DiscreteModel` (Ad where `eye` is the identity), `ContinuousFilter` (of the slopes `pmodel` gives) | the same |
| `KalmanProofs!SymmetryTheorem`, `FailureTheorem` | `FilterSpec => []SymmetricP`, `[]FailedUpdates` | `PrimeAssumption` (a prime above 3), `StepAssumption` (dt is not 0), `FilterAssumption` (matrices have their sizes, covariances are given symmetric) |
| `KalmanProofs!GainTheorem`, `JosephTheorem`, `LinearizedTheorem` | `FilterSpec => GainOfUpdate`, `JosephForm`, `Linearized` | the same |
| `NavigationProofs!TurnsOfRun`, `RunEnds` | `Spec => []Turns`, `Spec => Ends` | `LoopAssumption` (bounds of the loop are positive, Start <= Last), `FileAssumption` (files are sequences of lines, of which only the last may lack its newline) |
| `NavigationProofs!RecordsTheorem` | `Spec => []RecordPerLine` | the same |
| `NavigationProofs!MeansTheorem` | `Spec => []MeansOfLast` | the same, `PrimeAssumption`, `NumberAssumption` (numbers are integers, positions members of the field) |
| `NavigationProofs!RestTheorem` | `Spec => []AtRest` | the same, `StepAssumption` |
| `LibraryProofs!ProductsAssociate`, `NormOfProduct` | products of quaternions associate, and their lengths multiply | quaternions of integers |
| `LibraryProofs!ErrorLeadsBack`, `SkewIsProduct` | `error` and the skew matrix of the integration are products | the same |
| `LibraryProofs!MatrixOfProduct`, `MatrixRotates` | the matrix of a product is the product of the matrices; it is orthogonal | the same |
| `LibraryProofs!ThreeAxes`, `YawPitchRoll` | cases 7 to 12 of `cQuaternion::e2q` are three turns; `e2q` of nav is case 12 | `AngleAssumption` (tables of integers) |
| `LibraryProofs!ElementaryTheorem`, `RotationTheorem` | `Spec => []ElementaryTurns`, `[]SameRotation` | `AngleAssumption`, `RecordAssumption`, `CircleAssumption` (sines and cosines obey the addition laws) |
| `LibraryProofs!AnglesTheorem` | `Spec => []AnglesComeBack` | the same, `AngleIsKnown` (sine and cosine determine the angle, the sine alone up to 90 degrees, and cosines short of that have reciprocals) |
| `LibraryProofs!ReckoningTheorem` | `Spec => []DeadReckoning`, of records with rates about one axis | the same, `RateAssumption` |
| `LibraryProofs!ByteRoundTrip` | a number that fits survives the way between machines | sizes are naturals |
| `LibraryProofs!Unpacked`, `PackingKeepsTheRest` | what was packed is unpacked, and other bytes stay | indices lie inside the message |
| `LibraryProofs!NetworkOrder`, `NotFromNetworkOrder` | `htonf` converts, `ntohf` does not | |
| `LibraryProofs!RoundTripTheorem`, `TornTheorem`, `FirstLineTheorem` | `PathSpec => []RoundTrip`, `[]TornFile`, `[]FirstLine` | `PathAssumption` (a path is a text that begins with a digit, without `#`, newline and `\0`; a variable holds a character) |

What the assumptions on constants exclude is nothing the program can meet: a name that is a value would let an operand
be read in two ways; a line of a file ends where its newline is, so only the last can lack one; modulo a number that is
not prime, or 2 or 3, matrices would not obey the laws the model stands for, and the steps of the Runge-Kutta method
could not divide. Real sines and cosines obey `CircleAssumption` and `AngleIsKnown`. The exception is `RateAssumption`:
a vehicle may turn about several axes, or about y while it rolls, and of such records `ReckoningTheorem` says nothing, since the model has no
angles to compare with; the rotation of the quaternion itself is in `ElementaryTheorem` for all of them.

*TempCache.* The invariant is `CacheInv == TypeOK /\ Safety`. `Safety` has three parts that need each other:
`Balanced` (a slot is withheld exactly when an expression holds it or it was lost) makes a slot found by `getTmp`
fresh, freshness keeps `NoAliasing` (no slot twice in an expression), and with it a release withholds nothing that is
still used; `LostIsDead` keeps lost slots out. Lemmas about `GetTmp`, `Release`, scratch arrays and the operand stack
reduce every action to one of three moves: yield a result, throw, release.

`ValuesTheorem` maps the operands to `View`, their kinds and contents. A slot that an operator takes is fresh and a
slot it releases is referred to by no other operand, so that writing the one and reusing the other changes `View` at no
other place: this is where `Safety` is needed. With that each of the operators, the errors thrown half-way included,
is a step of `ValueEval` (`StepValue`). `BoundTheorem` counts. A new slot of a kind is made only when every one of
that kind is withheld or lost, so that the number after it is at most the number of operands of that kind, the result
and what the operator still needs; `Narrow` bounds the operands, and is shown of `ValueEval` and carried over by the
refinement. `inv()` takes three arrays of one length and gives all three back, unless it throws.

*GaussJordan.* `PivotsDistinct` is not inductive, since the search decides by `ipiv`: `PivotInv` adds that `ipiv` is 1
at every pivot column and at most 1 everywhere. One lemma does the turn; the other actions leave the bookkeeping
alone.

What the result is needs `ElimInv`, since `Inverts` says nothing before the end. The fractions are first proved to be
fractions (`IsFrac`, with Euclid's algorithm), and the matrix to consist of integers B over one number D, on which a
turn is multiplication and subtraction only (`Turned`). The matrix that `inv` works on holds two things at a time, by
columns: the row operations so far where a column is reduced, what they have made of the matrix given where none is.
`Operated` says so, in sums over a row: `Made` times the matrix given is `Left`. An exchange of rows exchanges the rows
of that matrix too; the list `H` keeps what the exchanges made of it, the last loop goes back through it, and an
exchange of columns of the inverse undoes one of rows of the matrix (`OperatedUnswap`). The list can be gone through to
its beginning exactly if the comparison with `indxr[1]` omits no exchange that changes something, which `NoneMissed`
says of the pivots, and which `SmallMissesNone` shows for two and three columns.

A turn keeps the vectors which the matrix takes to zero (`SameKernel`). Where the search finds nothing but 0, a vector
other than zero is taken to zero; where all columns are reduced, none is: `SingularTheorem`. It is `RejectsSingular`
with integer vectors of any size in place of the small coefficients that TLC can enumerate. `RejectsTheorem` is about
`RejectsSingular` as it stands: its recursive sums are those of `Singular` (`DependentIs`), and its condition is met by
every matrix of the run.

`Favours` is what keeps pivots on the diagonal: either the diagonal dominates, or the form of what is left is positive,
and a turn on the diagonal leaves a matrix of the same sort (`DominatesTurn`, `PositiveTurn`: the pivot is
positive, and the form of what is left is that of the matrix before, of a vector completed so that the pivot row gives
zero). The largest element of a matrix of either sort is on the diagonal, and no element off it is as large
(`CovarianceTheorem`, `NoExchangeTheorem`).

*MaxLink.* The invariant has five parts, each inductive with those before it.
`SenderInv`: the packets written by a sender, joined, and what it has left are what it was asked to send, whatever the
others write in between, if it was asked for no NUL. The joining is a fold, and `FlattenSeq` of one packet more is a lemma.
`PacketsInv`: the packets of a sender delimit its messages (`Delimited`), and the loop of `sendMAXmsg` knows where it is:
while it cuts a message up, one START is open, which announced the length of the message, and the packets since then
carry as much of it as the index says (`PartlySent`); otherwise none is open (`NothingBegun`). `SizeOf` is a sum over
the packets of one sender among those of all, so that what others write in between adds nothing to it.
`LineInv`: the count is not above what is in the port's buffer. It holds on any line, since losses and alterations
happen before a symbol arrives.
`CleanInv`, as long as no fault has happened and nobody was asked for STX or ETX (`Plain`): what has arrived and what is on the line, in this order, is a sequence of
whole frames, but for the beginning of the first one if the receiver has taken it (`Reading`). Frames may be missing,
since `waitForResponse` throws symbols away, and what is left of a frame after that is skipped up to the next STX. A
`Stream` is therefore not a concatenation, which nothing could be proved about, but a sequence of symbols with two
marks on each, the number of its frame and its place in it (`Marks`): marks next to each other are consecutive, unless
a frame begins anew with a higher number. Taking off the first symbol and adding a frame at the end keep such
sequences, and the frame between STX and ETX is a frame that was sent, with a number above the last one accepted.
`CallerInv`: the structure of the caller holds the data of the packet accepted last and, after OK, its header.

`Plain` is needed because a receiver cannot tell an STX or ETX of the data from one of the frame; with them no stream of
frames is left to speak of. A NUL is no obstacle: the frame is whole, only shorter than its header says, and the theorems
promise its header but not its data. The condition `faults = 0` cannot be dropped from `CallerTheorem` and `LinkTheorem` with these constants: a checksum
modulo any number has collisions, and a line that alters two symbols can make a frame out of another one. Whether it
finds the faults there are depends on the constants; the runs show that it finds every single lost or altered symbol
and every cut write of the instance.

*KalmanC.* An update is a list of more than a hundred calls. The proofs cut each list into pieces that end where the
program may end, at an inversion. Of each piece a lemma says which members it reads before it writes them, what each
member holds afterwards as a formula of those before, and that it keeps all others (`Leads` is a sequence of states, one
per call, and `LeadsOn` joins two). What a whole update leaves is then `NewMember`, a formula of `Uses`, the members
that are not scratch; that there is such a formula is `ScratchDead`. The invariant `IInv` says that the members in
`Uses` have their types between calls, that Q, R and, in a discrete filter, P are symmetric, and which pointers are not
set: which of them are followed is `WildPointers`. The rest are equations between matrices: the Joseph form is
symmetric, and it is (I-KH)P for the gain that was computed; the four slopes are those of Runge-Kutta; what `C2D` adds
up is the series. No theorem depends on the two comments of section 6 that the code does not follow.

*Filters.* All five properties that hold are proved from one invariant, `IInv`. `NoiseKept` says that R is what `setR` was given or
its inverse, as the number of gains says; it needs that R has an inverse once there has been a gain, which is what an
update that does not throw shows. `ModelKept` says that the discrete filter uses the same F and Q again after a failure.
The rest is algebra, in `FilterProofs`: the integers modulo a prime have reciprocals (`Bezout`, from the least positive
combination of a number and the prime), products of matrices associate and distribute, a matrix with a determinant has
an inverse on both sides, the inverse of the inverse is the matrix, the inverse of a symmetric one is symmetric.
`JosephForm` holds because K times the innovation is PH', and only for this K. Matrices are 2x2, and the entries have
names, so that the laws are polynomial identities for the solver; then the entries are hidden and the filters are proved
with the laws alone.

*Navigation.* `Turns` speaks of the end of the loop only. `IInv` adds `LoopInv`: inside the loop `n` is
`index - Start`, and `index` is still `Start` or not past the last record; with `CountInv` (`index` at most `Last + 1`)
the two ways out of the loop give the two cases of the minimum. `RunEnds` follows from the same invariant and the
lemmas for one line read and one record used.

`RecordPerLine` counts lines. `ReadInv` says that the records are those of the first lines, each of which had its
newline, that the lines not read are the others, and that reading ends at the end of the file or before a last line
without newline; the number of complete lines is then the number of records.
`MeansOfLast` says what the rings hold: element `(n + t) mod SUM_LEN` is that of the t-th of the last `SUM_LEN`
records (`RingInv`), for both rings, although one index serves both. The sum of a ring does not depend on where it
begins (`TotalTurned`); it is proved of the loop of `findAve`, for every length.
`AtRest` needs all of it: the averages of equal positions are the position, since `SUM_LEN` has a reciprocal; the
averages of the velocities are 0; the tilt that the rates led to is the one the next record has, so that no innovation differs from 0; the filter that is
handed no difference keeps its estimate of 0 whatever its covariance and the columns of F are (`UpdateIs`, with the types
of `FilterInv`); and the equations of motion leave velocity and position of a balanced state where they are through all
four steps of the integration, while the angles turn by `dt*w` (`NavigatedIs`, `AtRestTurn`).

*Rotations and Attitude.* The algebra has no states. The elements are named, and each theorem is then some equations
between polynomials. The matrices of the code have a 1 where their general form has the squared length; `Stretched` is
that form, so that the theorems are not about unit quaternions of integers, of which there are few, and `Unstretched`
leads back. What needs the circle is an equation modulo the prime: each is written as an integer identity whose right
side is a combination of the laws of `CircleAssumption`, one for each angle that occurs. So cases 1 to 6 of `e2q`
follow, which add and subtract half angles. That angles come back (`AnglesTheorem`) needs no signs of real numbers: sine
of pitch is an element of the matrix, the others are two elements divided by its cosine, and the table is searched for
an angle of which there is one only. A turn of the loop keeps `Reckoned`: while no pitch was 90 degrees, the quaternion
is that of some roll, pitch and yaw which differ from `angles` by whole turns. A whole turn of one angle changes the
sign of the quaternion at most, and `q2e` is even.

*ByteOrder.* There are no states. `FromKeepsNumber` and `ToKeepsDigits` are proved digit by digit, for padding or
reducing and for swapping in turn; the others follow.

*PathFile.* The writer and the readers are recursions, over the points of a path and over the lines of a file; what
joins them is a statement about a text alone. `Shape(f, p)` says that every line of f that is no comment, at any cut, is
the front of a line of p, and that line k is preceded by k others (`Before`); `Whole(f, p, k)`, that f ends with line
k - 1 and its newline. `PathIInv` says `Shape` of the file and what is pending together, and `Whole` until the writer
dies. A step keeps it because `Shape` holds of every front of a text (`ShapePrefix`), because a comment between two lines
is no line (`ShapeComment`), and because what `pathFileWrite` prints is whole (`ShapePrinted`). A reader needs nothing
else: `LineIs` says what `readLine` makes of a line or of what there is of it, `ReadNext` that one turn of the loop
appends the next line or, at the end of the file, nothing, and `ReadResult` and `CommentsResult` what the two functions
return. That the file tells how many lines to read takes care: the first line may be cut within its number, and then
the count is another (`NumberWhole` is about a line that is not cut); the file then ends there, and whatever the count
is, no line follows (`AllAtEnd`). A count of 0 that is cut is still 0 (`NumberZero`), so that the reader does not look for
a line that is not missing. `CountedIs` and `WholeIsTame` relate what the properties say in commas to the lines.

Where a proof goes by induction over the naturals, it takes the smallest counterexample: the library's induction rules
take an operator as a parameter, which no prover here can instantiate, and `LeastNumber` is the same fact about a set.

Only model-checked: liveness, for which TLAPS has no proof rules here (fairness and ENABLED); `CallersMessage` and
`ImplementsLink` after a fault, or with STX or ETX in the data; and that an omitted exchange does make a result wrong (`inv_exchanges`).

## 6. Where the code does not do what it says

Each of these is a run that is expected to fail.

1. `inv_exchanges`: the last loop of `inv()` compares with `indxr[1]` instead of `indxr[l]` (`cMatrix.cpp:607`,
`matrix.c:474`), so that some results have two columns in the wrong order. `CovarianceTheorem` shows that positive definite
matrices, as the covariances are that the filters invert, are not affected, and `SmallTheorem` that none below 4x4 is.
2. `blind`: a sender that stops after STX leaves `recASCIImsg` in its loop (`sendRecMsgLib.c:385`).
3. `binary`: of data with a NUL nothing behind it is sent (`strncat`, `sendRecMsgLib.c:715`), while `dataSize` counts it;
`sendRecMsgLib.c:182-184` says that the data field could contain a 0x00.
4. `kalman_series`: Ad is not I+A\*dt+... (`kalman.c:111`, 128) where malloc returned memory that is not zero, since
`initMatrixEye` stores the diagonal only; `matrix.c:55` calls its result an identity matrix.
5. `kalman_riccati`: Pdot is not that of `kalman.c:511` and 381; the difference `PH'` is taken before the products.
6. `filters_noise`: `inv()` changes the matrix it is called on, against `cMatrix.cpp:533` (a todo, which the formula
`a = inv(a)` of line 529 contradicts). So R is the inverse of the noise after an update with a measurement, and every
other gain of a continuous filter is computed with R that is not inverted.
7. `nav_rows`: `navPutData` takes the rows by value (`navigation.cpp:528`); none is left to save, and `saveData` reads
beyond an empty vector.
8. `attitude_reb`: `Rnb` and `Rne` of `navigation.cpp` have one wrong function each (lines 56 and 72), so that `R_eb` is
not a rotation; `rotation.c` has both matrices right.

Noted without a run: every linear C filter crashes in `freeKalmanFilter`, which frees members that only nonlinear filters
or filters of one kind of model have (`kalman.c:347-364`, against line 341), and a linear continuous one crashes in its
first update, where `xmodel` calls the model function that a linear filter does not have (`kalman.c:500`, against
`kalman.c:376-377`; `WildPointers` says that no other filter crashes); slots lost by `trans()` and `conj()`
(`cMathlib.h:71-72`) and by errors; `checkMAXasciiMsg` never compares the size in the header with the length of the data
(`sendRecMsgLib.c:108`), which takes an altered symbol to show; STX and ETX in data break the frame they are in; `ntohf`
and `ntohd` change nothing (`NotFromNetworkOrder`); `cRand.cpp:42` reads one seed too many; `textFileLib.c:54` allots 70
bytes for a line of up to 78; in `quaternion.c`, `q2e3` compares a pointer with 0, so that its branch for a pitch of 90
degrees is dead, and `initQuat` divides by the sum of the components, cut to an integer; `cQuaternion::q2R` lacks every
`break` and throws in all cases; `slerp` of equal quaternions divides by zero; `rotation.h` declares `setR_ne(lng, lat)`
and `rotation.c` defines it with `lat` first.

## 7. What is not modelled

Floating-point values and rounding; the quaternion in the equations the filter corrects (`Navigation` has angles,
`Attitude` the quaternion); printing and scanning of numbers; lengths of text buffers; allocation that fails; `BINARY_MSG` variants, `smLib.c`, `compression.c` and
`getFilterProperties` (not compiled); wrappers of system calls; the seeds of `cRand`. Filters are square and of two
states. The matrix multiplication itself is taken for what it is called in `FieldMatrices`; its loops are not
modelled.

What is in the models but outside the properties: data with a NUL (beyond what is sent of them), with STX or ETX, and an
alteration of a data byte to ETX, after which frames can be accepted whose data were never sent; records with rates about
several axes or with a yaw rate while the vehicle is tilted (`RateAssumption`). Outside the models: a path file that is
written anew or edited while somebody reads it.

## 8. Plan

Modelled so far, in this order: TempCache with ValueEval, MaxLink with LossyLink, GaussJordan, KalmanC, Filters with
KalmanCpp, Navigation, ByteOrder, Rotations with Attitude, PathFile. What is left, mostly to prove:

1. `CallersMessage` and `ImplementsLink` on a line with one fault of a kind the checksum finds.
2. `ImplementsLink` for data with STX and ETX as far as it holds (headers and order).
3. To model: `recvSocket` with partial reads; a path file rewritten during a read; `Attitude` and `Navigation` as one
module.
