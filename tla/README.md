# Verification of the operating system simulator

The repository simulates an operating system with seven kinds of process that talk over
TCP: `kernel_scheduler`, `kernel_memory`, `cpu`, `io`, `swap`, `memory_stick`, and the shared
`utils`. This directory models the parts of it where threads and messages meet, checks them
with TLC on small instances and proves with TLAPS, for instances of any size, their
invariants and that each implements its abstract specification (section 5 says under which
hypotheses).
Names in the modules are those of the code (Spanish), or say in Spanish what a line does.

## 1. The system

| Component | State it keeps | Operations | Talks to |
|---|---|---|---|
| `kernel_scheduler`, `conexiones.c` | `cola_block`, `cola_susp_block`, `cola_susp_ready`, `cola_esperando_memoria`, `cola_exit`, `dic_interfaces`, `block_epoch`, `pending_wakeup` | one `atender_cliente` thread per CPU and per interface; `timer_suspension`; `intentar_desuspender`; `reintentar_esperando_memoria` | CPUs, interfaces, memory (one socket, `m_fd_memoria`) |
| `kernel_scheduler`, `planificador.c` | `colas_ready`, `sem_procesos_ready`, `sem_cpu_libre`, `lista_cpus_sched`, `pcb_en_ejecucion` | `planificador_corto_plazo`, `encolar_en_ready`, `temporizador_quantum` | CPUs |
| `kernel_scheduler`, mutexes | `dic_mutex` (owner, waiters) | MUTEX_CREATE, LOCK, UNLOCK, inherited priority | |
| `kernel_memory`, segments | `tabla_segmentos_global`, `memoria_total`, `segmentos_en_swap` | MEM_ALLOC (compaction), MEM_FREE, EXIT, SWAP_ESCRITURA, SWAP_LECTURA, a stick connects | scheduler, sticks, swap |
| `kernel_memory`, the rest | scripts of the processes, `proximo_bloque_swap`, lists of sticks and CPUs | fetch, reads and writes by physical address, NUEVO_STICK | CPUs, sticks, swap |
| `cpu` | one PCB (registers, `tabla_segmentos`) | fetch, decode, execute, `traducir_direccion_mmu`, interrupt check, return of the PCB | scheduler, memory |
| `io` | none | SLEEP, STDIN, STDOUT: one answer per request | scheduler |
| `swap`, `memory_stick` | a file of blocks; an array of bytes | read, write | memory |

What is hard: the scheduler has a thread per connection, one per blocking (suspension) and one
per dispatch (quantum), none of which is ever cancelled. A process moves between lists in the
hands of whichever thread got it first; locks protect a list, never a move from a list to
another. The two halves of the dispatcher meet through counting semaphores whose counts say
nothing by themselves. `kernel_memory` adds a table that is a list in order of insertion, and
a stick that may connect at any time.

What makes each component correct:

- *life of a process*: a PCB is in one place; a wakeup is neither lost nor invented, whoever
  wins between the timer and the end of the I/O; scheduler and memory agree on who is in SWAP;
  every blocked process wakes and every process exits, unless those left wait for each other's
  memory;
- *dispatcher*: the oldest process of the best queue goes to a free CPU; a CPU has one PCB; no
  READY process is left without a token;
- *mutexes*: one program inside a section; first come, first served; a waiter gets the mutex,
  suspended or not; an inherited priority ends with its cause;
- *segments*: the table divides the memory; an allocation is served if the units are free;
  compaction and SWAP keep data and segments;
- *accesses*: an address the MMU translated with a right base is still the program's own when it is
  served; sticks' borders and SWAP change no byte; blocks of SWAP are not shared.

## 2. Modules

    ProcessLifecycle  <--implements--  Suspension   <-- MCSuspension, SuspensionProofs <-- CicloProofs
    Reparto           <--implements--  Dispatcher   <-- MCDispatcher, DispatcherProofs
    Cerrojo           <--implements--  Mutexes      <-- MCMutexes, MutexesProofs
    MemoriaContada    <--implements--  SegmentTable <-- MCSegmentTable, ListaProofs <-- SegmentTableProofs
    MemoriaPrivada    <--implements--  Accesos      <-- MCAccesos, AccesosProofs <-- PrivadaProofs

Each takes from the others, in an abstract form, what it does not detail. `Suspension`: which
READY process a CPU gets (its action `Despacha`; `Dispatcher` is the detail) and how many memory
units are free (`libre`, `mem`, `en_swap`; `SegmentTable` shows that `kernel_memory` counts that
way). `Mutexes`: the suspension of a blocked process in two steps (`Suspende`, `Desuspende`;
`Suspension` is the detail). `Accesos`: which hole a segment gets (`SegmentTable`) and the states
of a process (`Suspension`).

Left, in this order:

1. `Mutexes` on two CPUs: the races of section 6 as runs, and programs that hold two mutexes.
2. A CPU that disconnects, and inheritance in `Dispatcher`.
3. The links of a CPU with `kernel_memory`, where NUEVO_STICK arrives.

## 3. How the modules correspond to the code

**Suspension.** One action per stretch of code between two locks. `cola` holds the scheduler's
lists as sets (their order matters only to the dispatcher; the one order that matters here,
the sort of `cola_susp_ready`, is `Siguiente`). `exec[c]` is the process CPU `c` has. `pc` says
what each thread does next; a thread that holds a PCB that is in no list is at a step of
`ConPcb`. `Timer` has one thread per process and blocking, named by its epoch, so that an old
timer and a new one coexist as they do in the code. An exchange with `kernel_memory` is one step,
because it happens under `m_fd_memoria` and the scheduler is its only client for these requests.
`m_susp` and `m_esperando` are held across a whole loop and are therefore variables; the locks
of the single lists protect one step. FIN_IO and the answer of STDIN differ in `EscribeMemoria`.
`perdidos` is read by no action: it records the requests that no interface will answer.

**ProcessLifecycle.** The states the log names ("Pasa del estado ... al estado ...") and the
passages between them, with the one promise about I/O: its end wakes the process once.

**Dispatcher.** Semaphores are counters; `socket_cpu[c]` is the byte stream from scheduler to CPU,
with a PCB and an interruption as items, since `hay_interrupcion` takes whatever comes first.
Sending, marking and posting are separate steps, as are clearing the mark and posting the CPU.
`Despertador` stands for the threads that call `encolar_en_ready`. A NULL `pcb_en_ejecucion`
read by `BuscaVictima` stops the model (`Vivo`), as it stops the scheduler. The system calls
are three kinds: back to READY, blocked, and one that creates a process; EXIT is the fourth.
With one queue (FIFO, RR) the priority of a PCB chooses no queue (`ColaDe`) and still decides
who is preempted, as in `encolar_en_ready`: `sched_memoria.config` is that, RR with QUEUE_PREEMPTION. The theorems are
of it too; the runs have RR without preemption and preemption with two queues.

**Reparto.** Queues and CPUs: give the head of the best queue, hand back, enqueue.

**Mutexes.** No lock of the scheduler protects a `t_mutex`, so a handler is divided at each read
and write of it: LOCK is `MiraOwner`, then `Toma`, or `Bloquea`, `Encola`, `Hereda`; UNLOCK is
`RestauraPrioridad`, then `Suelta`, or `Pasa` and `mover_a_ready` (`SacaDeBlock`, `Recalcula`,
`EncolaEnReady`). The last two are also those of the thread that reads the answers of the SLEEP
interface, which interleaves with the CPU's. A PCB is a new struct each time a CPU returns it while
`owner` points to the struct that made the LOCK: `prio_owner` is the priority written there,
`prioridad` the one of the PCB in use, and they differ as they do in the code. `en_uso` belongs to
the programs: the mutex each is between its LOCK and its UNLOCK of.

**Cerrojo.** A queue per mutex: take it if it is free and nobody waits, queue, hand it over to the
first.

**SegmentTable.** The table is a sequence in the order of `list_add`. An address is a number; bytes
are in `Accesos`. The bubble sort of `liberar_memoria` is the order it leaves, `PorBase`, which is
stable as the sort is; the loop that merges holes and the one that brings segments back from SWAP
are functions over the prefixes of what they visit. A sum of sizes counts units one by one. A MEM_ALLOC without a hole has three more steps (the answer -1, the compaction
under `m_memoria`, the second try), between which the thread of a stick may run.

**MemoriaContada.** Units per process, free units, who is in SWAP. It is what `Suspension` assumes.

**Accesos.** The way of an access: the MMU of the CPU with the bases in the PCB (`pcb`, the list in
its order), the request (`pedido`) and, later, `leer_de_sticks` or `escribir_en_sticks` of
`kernel_memory` over the bytes of the sticks (`espacio_memoria`). COPY_MEM is a read and then a write;
STDOUT is read and STDIN written by the scheduler, after it has put the process in `cola_block`.
Suspension writes the segments in blocks of a file (`archivo_swap`) one by one and reads them back to
any hole, or to none: `tabla` changes and `pcb` does not, as in the code. `m_fd_memoria` is a variable
because a suspension holds the scheduler's link across the steps of all the segments of a process.

MEM_ALLOC serves an id that the process already has, as the code does. MEM_FREE then takes the
oldest of them out of the PCB and, out of `tabla`, any of them: `liberar_memoria` takes the first of
its own list, whose order (of `list_add`, sorted by base at each release) is in `SegmentTable` and not
here. Two segments with one id are told apart by a number, that of the instruction that asked for
them (`Nro`), and a request remembers whether the bases it was translated with were those of the table
(`al_dia`). Both are for the properties: no guard reads them.

**MemoriaPrivada.** Each program has segments of bytes of its own, named by number and offset. The
refinement mapping reads a segment in the sticks if the table has it and in the blocks of SWAP if
not, and turns the physical address of a request back into the segment and offset its program named.
An access translated with a base that was no longer right (after a return from SWAP, or after a
MEM_FREE that left the wrong one of two equal ids in the PCB), and the read of a STDOUT whose timer
has passed, name no segment: they read anything and may write anywhere, and nothing else may.

## 4. Runs

| Run | Shows | Bounds |
|---|---|---|
| `suspension_memory` | types, one place per PCB, no wakeup lost, invented or left over, agreement on SWAP, units conserved, refinement of `ProcessLifecycle` | 2 processes, 2 CPUs, 1 unit, STDOUT connects and disconnects |
| `suspension_liveness` | every blocked process wakes and every process exits, unless those that live wait for each other's memory (on one CPU: `memory_wait` refutes it on two) | 2 processes, 1 CPU, 2 units, STDIN, 3 calls each, one of them an I/O at most |
| `dispatcher_rr` | one PCB per CPU and no CPU promised that is not idle, with late quantum interruptions | 2 processes, 2 CPUs, RR |
| `dispatcher_preemption` | types, the same with preemption by a woken process, no READY process without a token; refinement of `Reparto` | 2 processes, 2 CPUs, 2 queues, 1 waking thread |
| `segments` | division of the memory; refinement of `MemoriaContada` | 2 sticks (3 and 1 units), 2 processes, sizes 1 and 2 |
| `mutexes` | types, mutual exclusion, an owner that goes on, inheritance that ends, refinement of `Cerrojo`, no wait for ever | 3 processes of priorities 2, 1, 0, 1 CPU, 1 mutex, 3 calls each |
| `memory_access` | types, accesses inside one's own segments when the base was right, blocks of SWAP, refinement of `MemoriaPrivada` | 2 programs, sticks of 3 and 1 bytes, blocks of 2, segments of 2 (two ids) and 3, accesses of 2, 4 instructions in all, 2 blocks before the last suspension |
| `memory_wait` | a process refused memory can miss the EXIT that freed it | 2 CPUs, 2 units |
| `late_mark` | an idle CPU stays marked busy and its token is lost | 1 CPU, 2 processes |
| `stick_deadlock` | a stick that connects and a compaction wait for each other | 2 sticks, the second at any time |
| `mutex_suspended` | a waiter that is suspended becomes owner and is never woken | as `mutexes` |
| `stale_base` | after a return from SWAP a program reaches memory that is not its own | as `memory_access`, 3 instructions |

Why the bounds are enough for the questions asked: a race needs one process against two threads
(its timer and its interface) and a second process to take its CPU or its memory; two blockings
of a process are needed for an old timer to meet a new one; two CPUs for two handlers to
interleave. Memory of 1 or 2 units makes a single allocation exhaust it. Four units of memory
in two sticks allow a hole between two segments, a rest at the end of the list and
a list out of order. Three processes of different priorities are an owner, a waiter that gives its
priority and one that is passed by, or two waiters whose order matters; the owner can sleep while
they arrive. A segment of three bytes in sticks of three and one crosses their border at every base
but one, and needs two blocks, the second half empty; accesses of two bytes fit in it at two
offsets and in the others at one. Four instructions are two MEM_ALLOCs of an id, a MEM_FREE and an
access, or a write, a sleep and a read. In `suspension_liveness` three calls let the process that
creates the other (one call) allocate one unit and ask for the second while the other, with its own
three, does the same; a process suspended with two units may also find only one on its return. The
bounds are `MaxRetornos` (calls of a program before its EXIT), `MaxBloqueos` (the I/Os a program begins),
`Memoria`, `MaxLlamadas`, `MaxInstrucciones`, `MaxBloques` and the sizes of the sets; `Timer` follows
from them. New processes stop when `Pid` is used up. The second INIT_PROC then only
puts its caller back in READY. In `SegmentTable` segments have one number, so that a process may ask
twice for the same one, as it may in the code.

`SuspensionCorta` separates what holds from what the code's configuration allows: that
SUSPENSION_TIMEOUT may pass in a wait that is not an I/O, of a mutex (`Mutexes`) or between the entry
in `cola_block` and the read of the text of a STDOUT (`Accesos`). It is FALSE in the passing runs, as
`sched_herencia.config` (1000000) has it. It is not always so: `sched_pmp.config` has 10000, and a
MEM_ALLOC may hold `m_fd_memoria` for the COMPACTION_DELAY of `memoria_pmp.config`, 30000. `mutex_suspended`
sets it to TRUE, and `CumpleMemoriaPrivada` is proved for both values.

`TodoBloqueoDespierta` and `TodoProcesoTermina` except one end, `EsperaCircular`: every process that
lives waits for memory, in `cola_esperando_memoria` or in `cola_susp_ready`, and what is free serves
none. MEM_ALLOC puts a process that holds segments in that list (`conexiones.c` 672-681) and only an
EXIT, an end of I/O or a timer retries it, so that two processes with one unit each that ask for another
wait for ever, on one CPU too; so does a process that has all the memory and asks for more, and with
it the one that should come back from SWAP. `suspension_liveness` reaches both ends.

Deadlock is checked in `segments`, `mutexes` and `memory_access`. It is not in `suspension_memory`, where an
interface that disconnected leaves its processes blocked; nor in `suspension_liveness`, which
reaches `EsperaCircular` and whose properties say where it may rest; nor in the dispatcher's, where the
planner waits at its semaphores when all is done and, as `late_mark` shows, before that.

Symmetry is used on processes (`suspension_memory`, `segments`, `memory_access`) and CPUs
(`dispatcher_rr`), never under a liveness property.

The last five refute a sentence of the code; each is explained under "findings" in `PROJECT.json`
with the line that is quoted. More disagreements were met while modelling and have no run:

- `pcb_en_ejecucion` can be NULL when `encolar_en_ready` reads it the second time (`BuscaVictima`
  reaches that state);
- an EXIT posts `sem_procesos_ready` with nobody enqueued, and the planner gives the CPU's token back;
- a stick that connects between requests extends the last hole of the list, which may not be the
  last of the memory (`segments` therefore connects the sticks first);
- a compaction visits the segments in the order of the list, and may write over one it has not moved;
- the timer of one blocking may suspend the process in a later one, because the epoch is read before
  it is bumped or checked long before the removal (allowed by `ProcessLifecycle`);
- what is typed for a process that was suspended meanwhile is dropped, and a segment that finds no
  hole when its process comes back is lost (both allowed by `MemoriaPrivada`);
- an owner that is in the hands of the SLEEP thread when LOCK looks for it inherits nothing;
- the timer of a STDOUT may pass while `m_fd_memoria` is not free, and its segments go to SWAP before
  its text is read (with `SuspensionCorta` = TRUE `AccesoVigente` does not hold);
- two segments with one id: `kernel_memory` frees the first of its list, ordered by base, and the
  scheduler takes the first out of the PCB, ordered by age. With BEST, after MEM_ALLOC of 1 (at 0), of
  0 (at 1), MEM_FREE of 1, MEM_ALLOC of 0 (at 0) and MEM_FREE of 0, the segment at 0 is freed and
  the PCB keeps its base. `Accesos` has this outcome; it has no run because its placements are freer
  than those of the code, and TLC would show one the code does not choose.

### Fairness

`FairSpec` of `Suspension` asks weak fairness of each thread (the operating system schedules it,
`usleep` ends, a mutex that is free is taken in the end), of the dispatch and of the answers of
each interface. It asks nothing of connections: nothing makes an interface connect. Weak fairness is
enough although locks are contended, because a thread that holds one leaves its loop in finitely
many steps and no thread takes a lock for ever. `FairSpec` of `Mutexes` asks it of the threads, of
each CPU (it gives back the process it has), of the dispatch, of the answers of the SLEEP
interface and of the return of a suspended process whose sleep is over. `FairSpec` of `SegmentTable` asks it of the
thread of each stick and of the one that serves the scheduler.

## 5. Proofs

### SuspensionProofs

For any sets of processes, CPUs and interfaces and any bounds that satisfy the ASSUMEs of
`Suspension`: `TypeCorrect` (`TypeOK`), `LugarCorrecto` (`UnSoloLugar`), `DespertarCorrecto`
(`NingunDespertarPerdido`), `PendienteCorrecto` (`PendienteSoloEnLimbo`), `ResidenciaCorrecta`
(`ResidenciaCoherente`) and `ConservacionCorrecta` (`MemoriaConservada`).

All but the last follow from `InvarianteSiempre`, `Spec => []Invariante`. None of the properties is inductive
alone. `UnSoloLugar` needs what `BuclesOK` says of the loops under `m_susp` and `m_esperando`: who
visits a process still to be visited holds the mutex, and it is still in the list. For a wakeup
not to be lost it must be in one place at most: `FichaUnica` says that the token of a process
(to be asked for, at a device, answered, read, lost, or left as `pending_wakeup`) exists once.
Without it the step that reads an answer could leave a second one that wakes a process that runs.
`ResidenciaCoherente` in turn needs `UnSoloLugar`: a process that is put in SWAP by a timer is in
no list. The proof has one lemma per part of the invariant and in it one case per action
(`TiposNext`, `BuclesNext`, `LugarNext`, `FichaNext`, `DespertarNext`, `PendienteNext`,
`ResidenciaNext`).

`MemoriaConservada` counts the set of units that the processes outside SWAP have. Each step adds to it
or takes from it the units of one process (`DevuelveUnidades`, `TomaUnidades`), and it stays finite
because no process has more than `Memoria`. `ResidenciaCoherente` makes it inductive: a process that
asks for memory or gives it back is not in SWAP, so that its units are those of the sticks.

### CicloProofs

`CicloCorrecto` proves `CumpleCiclo`, the refinement of `ProcessLifecycle`, from the invariant of
`SuspensionProofs`. The state of a process is decided by where its PCB is (`EstadoPorLugar`), which
is one place, and whoever has an end of I/O not yet attended sleeps (`FinDormido`). Each step
moves one process from a place to another, or none; `Pasaje` turns that into a step of
`ProcessLifecycle` and `Tartamudeo` into a stutter. `CicloNext` has one case per action.

### DispatcherProofs

For any finite sets of processes, CPUs and waking threads, any queues and priorities, with and
without preemption, RR or not: `TypeCorrect` (`TypeOK`), `UnPcbCorrecto` (`UnPcbPorCpu`),
`FichasCorrecto` (`FichasDeCpuReales`), `FichasReadyCorrecto` (`NingunReadySinFicha`) and
`RepartoCorrecto` (`CumpleReparto`).

- `UnPcb` makes `UnPcbPorCpu` inductive. It says what the mark `pid_ejecutando` must mean for
  `obtener_cpu_libre` to be safe: a CPU with a PCB in its socket, in it or on its way back is marked,
  or the planner is about to mark it, and so is one whose thread is about to clear the mark.
- `Fichas` counts the tokens of `sem_cpu_libre`. They are not as many as the unmarked CPUs: between
  the clearing of the mark and the post, a CPU may be given a process with the token of another. What is
  conserved is that the tokens, with those on their way and the one the planner holds, cover the CPUs
  with no PCB and no more. `FichasReady` does the same for the queues.
- `UnSitio` says that a process is new, blocked, in one queue, in one CPU or in the hands of one
  thread; with it each step is one of five moves (`Traslado`), and each move a step of `Reparto`.

### MutexesProofs

Every theorem assumes `UnaCpu`: one CPU, with any number of processes, mutexes and priorities, the
SLEEP thread and the suspensions. Without it they are false (section 6). Proved: `TypeCorrect`
(`TypeOK`), `ExclusionCorrecta` (`ExclusionMutua`), `HerenciaCorrecta` (`HerenciaDebida`),
`CerrojoCorrecto` (`CumpleCerrojo`, the refinement: initial states map to initial states, each step to
one of `Cerrojo` or to a stutter) and, if no timer passes in the wait for a mutex
(`~SuspensionCorta`), `OwnerCorrecto` (`ElOwnerNoEspera`).

The invariant is `IInv`. With one CPU what the handler of a call has read must still be true when
it acts on it, although the SLEEP thread and the timers run in between: `Lock` and `Unlock` say so for
each step (at `toma` the mutex is free and its queue empty; at `pasa` the queue is not empty; at
`suelta` it is). `Mutexs` relates the tables to the programs: the owner of a mutex and its waiters are
those that have it in `en_uso`, in one queue and once, and nobody waits for a free mutex. `Lugares`
says where a waiter can be, and `Hilos`, `Sujeto` and `Despierta` who has a PCB in its hands, so that
the SLEEP thread and the handler never have the same one. Exclusion follows because two programs in a
section would both be the owner. Inheritance needs a second invariant, `PInv`: UNLOCK has restored
the priority of the owner before it gives the mutex away, the waiter whose priority LOCK is about to
pass is already in the queue, and what LOCK compares with (`prio_owner`) is never worse than the
owner's own priority. Types come last: `prioridad` is an index in use because
`Recalcula` takes the least of a set that has one (`MenorEsMinimo`, from `WFMin`).

### AccesosProofs

For any sticks that cover the memory without overlap, any sizes, ids, blocks, timers and bounds:
`BloquesCorrecto` (`BloquesPropios`) and `TypeCorrect` (`TypeOK`).

The first follows from `TablasSiempre`: the table and the lists of SWAP together, because
`SWAP_ESCRITURA` moves a segment from one to the other, and `proximo_bloque_swap` above every block
in use. That segments in use do not overlap is part of it (`SinSolaparse`), and only a lemma here: the
choice of a hole is a guard in this module, and what the code does to find one is proved in
`SegmentTableProofs` (`ParticionCorrecta`). `TiposSiempre` adds to the types that a block in a list has
been written: without it the bytes that come back would have no type. The arithmetic of the MMU
(quotient, remainder, a sum that does not wrap) is used once, in `MmuEnSegmento`.

### PrivadaProofs

`PrivadaCorrecta` proves `CumpleMemoriaPrivada`, the refinement of `MemoriaPrivada`, with no hypothesis
besides the ASSUMEs: for any programs, timers and repeated ids, wherever the sticks end and however
often a program goes to SWAP, a read with a right base returns the bytes its program wrote, and no
byte changes but by its own program or by a write with a stale base. `VigenteCorrecto` proves
`AccesoVigente` if timers do not overtake a STDOUT (`~SuspensionCorta`: otherwise its segment is
in SWAP when its text is asked for).

The invariant is `Inv`: that of `TiposSiempre`, what a process waits for in each state
(`EsperaSegunEstado`) and `Registros`, which says of each process that

- a number is in the table or in its list of SWAP, once, and only a suspension puts it in the list
  (`Separados`): otherwise a name would mean two segments, and a segment that comes back could replace
  one in use;
- while it has a request to be served whose bases were right, the request is a range of one segment of
  the table (`Vigente`): otherwise the mapping could not read the physical address back as the segment
  and offset the program named (`NombraEs`), nor would a write stay in its segment.

A step of a process leaves what the others see as it was: their part of the table (`PasoAparte`), and,
unless it is a write with a stale base, their bytes, in the sticks and in the blocks (`PasoBytes`),
because segments are disjoint (`RangosAparte`), a hole has nobody's bytes (`VueltaFuera`) and the file
only grows (`GuardadoQueda`). For its own process there is one lemma per action (`PasoLee`,
`PasoEscribe`, `PasoAlloc`, `PasoFree`, `PasoSale`, `PasoGuarda`, `PasoRestaura`, `PasoLeeAjeno`,
`PasoEscribeAjeno`; `PasoInstruccion` and `PasoQuieto` for those that touch no byte), each a step of
`MemoriaPrivada` or a stutter. A write across sticks is that of its range (`EscribirEs`), and what
goes to SWAP is what comes back because byte k is in block `k \div Bloque` at `k % Bloque` (`BloqueDe`,
`GuardaEs`).

### ListaProofs and SegmentTableProofs

For any processes, sizes and sticks and for either strategy, if the sticks connect before the first
request (`~EnCaliente`): `TypeCorrect` (`TypeOK`), `ParticionCorrecta` (`Particion`) and
`CuentaCorrecta` (`CumpleCuenta`, the refinement of `MemoriaContada`). With sticks that connect
between requests `Particion` is false in the code, which extends the last hole of the list and not
that of the memory (section 4); the hypothesis is what the run `segments` assumes too.

`ListaProofs` says what each operation does to the list. What a process has is followed as the set of
its addresses, `De(t, K)` for the positions K: an allocation moves addresses from a hole to the process
(`Toma`), a release back (`Deja`), and a permutation (`EnOrdenEs`: the ranks of a finite order are a
bijection) moves none. While the segments are disjoint, the sum of the sizes of some of them is the
number of their addresses (`UnidadesSonDirecciones`), so that a request that changes no address of a
process changes none of the counts of `MemoriaContada`. The merge and the return from SWAP are functions
over prefixes: the lemmas about them are inductions on the length of the prefix over the set of
lengths for which the claim holds (`Induccion`), because a claim cannot be a parameter here.

The invariant `IInv` of `SegmentTableProofs` is, besides the shapes of the variables, that the list
divides the memory (`TablaOK`), that before the first request there is one hole with what the sticks
have brought so far (`Arranque`), that between the compaction and the second search there is one hole
(`PedidoOK`, why the second search cannot fail if the units were there), and that a process in SWAP has
nothing in the list and what it has there fits in the memory (`SwapOK`).

### Only model-checked

The liveness properties (`TodoBloqueoDespierta`, `TodoProcesoTermina`, `TodoLockTermina`), because the
prover does not reason about fairness here, and the refutations.

## 6. Not modelled

- Mutexes with two CPUs: two LOCKs may read `owner` NULL and both take the mutex; an UNLOCK may find
  the queue empty after a LOCK has seen an owner, and before it queues its process, which then waits
  for ever or reads a NULL owner (415). `Mutexes` has these states if `Cpu` has two elements; no run
  has them. A program that holds two mutexes, or leaves one at its EXIT.
- The links of a CPU with `kernel_memory`: NUEVO_STICK arrives there, and the CPU reads it from its
  link with the scheduler (`cpu/src/main.c:93`).
- In `Accesos`: which hole a segment gets and which of two segments with one id is freed,
  compaction, a stick that connects, sizes near 2^32 (`TamanioAssumption`), an access
  of zero bytes, the end of the SWAP file, the values of registers (an instruction names any
  address of any size in `Tramos`).
- In `Dispatcher`: a priority that changes while a process is enqueued.
- The blue screen of death: the process ends.
- A CPU that disconnects; a pid above 999; a priority with no queue; a LOCK of a mutex that was
  never created.
- Framing of messages and short reads: a message is sent and received whole. Lists that the
  code changes with no lock (`cola_exit`, `dic_interfaces`, `pcb->...`) are changed atomically.
- Process images and fetch, and the contents of scripts: a program is a sequence of calls chosen
  freely, up to a bound.
