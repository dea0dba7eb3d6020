--------------------------- MODULE RecoveryProofs ---------------------------
(***************************************************************************)
(* What holds of the archive for every set of points and models, every     *)
(* chunk, window, retention and cap, and any outages: no day of it is      *)
(* missing without a cause, a backfill that was answered leaves no hole,   *)
(* and only live rows past their window are ever lost.                     *)
(***************************************************************************)
EXTENDS Recovery, FiniteSetTheorems, WellFoundedInduction, TLAPS

\* The shape of a stored row, what each table holds and where it comes from.
RowType(t) ==
  [series : Series(t) \cup {Station}, day : 0..(LastDay + Horizon),
   src : {Live, Exempt, "era5"}, val : BOOLEAN]

\* A row of table t on day n.
RowOk(t, n, r) ==
  /\ r \in RowType(t)
  /\ r.src = "era5" => /\ t # "forecast_runs" /\ r.day <= n
                       /\ r.val => r.day <= n - EraDelay
  /\ r.src = Exempt => t = "forecast_runs" /\ r.day <= n /\ r.val
  /\ r.src = Live => /\ t # "v4_climatology" /\ r.val
                     /\ t = "observations" => r.day <= n

RowsKnow == \A r \in rows : RowOk(table, now, r)

PhasesOf(t) ==
  CASE t = "forecast_runs" -> {"previous_runs_api", "historical_forecast_api"}
    [] t = "observations" -> {"forecasts_first", "era5"}
    [] t = "v4_climatology" -> {"deep"}

JobType ==
  [kind : {"boot", "manual", "window", "deep"}, phase : PhasesOf(table),
   ser : Seq(Series(table)), start : Int, end : Int,
   next : Nat, tries : 0..Retries, total : Nat, clean : BOOLEAN]

JobKnows ==
  ~Idle =>
    /\ job \in JobType /\ up # "down"
    /\ job.start <= job.end /\ job.end <= now
    /\ job.phase # "deep" => job.start < job.end
    /\ job.next \in 1..(Tasks(job) + 1)
    /\ job.phase = "forecasts_first" => job.next = 1
    /\ table # "v4_climatology" =>
          \A s \in Series(table) : \E i \in 1..Len(job.ser) : job.ser[i] = s
    /\ table = "v4_climatology" => Len(job.ser) = 1

\* A cause, a series and a day.
Marks(t) == Causes \X Series(t) \X Int

LostKnows == lost \subseteq Marks(table)

HasRow(s, d) == \E r \in rows : r.series = s /\ r.day = d
Marked(s, d) == \E c \in Causes : <<c, s, d>> \in lost

\* A day that is stored, with a value or without, or given up for a cause, or
\* out of what is kept or fetched.
Known(s, d) ==
  \/ HasRow(s, d) \/ Marked(s, d)
  \/ table = "forecast_runs" /\ d < now - Retain
  \/ table = "v4_climatology" /\ d < now - ClimDays

Due(s, d) == ~Idle /\ <<s, d>> \in Remaining(job)

\* A forecast for the days to come leaves none of them out.
FutureFilled == \A r \in rows : \A d \in now..r.day : HasRow(r.series, d)

ServingKnows ==
  (up = "serving" /\ table # "v4_climatology") =>
     \A s \in Series(table), d \in 1..now : Known(s, d)

DownKnows ==
  (up = "down" /\ table # "v4_climatology") =>
     \A s \in Series(table), r \in rows : \A d \in 1..r.day : Known(s, d)

BootingKnows ==
  (up = "booting" /\ table # "v4_climatology") =>
     \A s \in Series(table), d \in 1..(now - 1) : Known(s, d) \/ Due(s, d)

ClimKnows ==
  table = "v4_climatology" =>
     /\ \A r \in rows : \A d \in 1..r.day : Known(r.series, d) \/ Due(r.series, d)
     /\ ~Idle => \A d \in 1..job.end : Known(job.ser[1], d) \/ Due(job.ser[1], d)

\* What the answered requests of a job have brought is kept.
Kept(s, d) ==
  \E r \in rows : /\ r.series = s /\ r.day = d
                  /\ table = "forecast_runs" => r.src = Exempt

CleanSoFar ==
  (Requested /\ job.clean) =>
    \A k \in 1..(job.next - 1) : \A x \in DaysOf(Task(job, k)) : Kept(x[1], x[2])

ArchiveInv ==
  /\ table \in Tables /\ now \in 0..LastDay /\ up \in {"down", "booting", "serving"}
  /\ report \in {"none", "current"}
  /\ RowsKnow /\ JobKnows /\ LostKnows
  /\ FutureFilled /\ ServingKnows /\ DownKnows /\ BootingKnows /\ ClimKnows /\ CleanSoFar
-----------------------------------------------------------------------------
(* The operators.                                                          *)

\* Quotient and remainder.
LEMMA Division ==
    ASSUME NEW x \in Nat, NEW n \in Nat \ {0}
    PROVE  /\ x \div n \in Nat /\ x % n \in 0..(n - 1)
           /\ x = (x \div n) * n + (x % n)
<1>1. x \div n \in Nat /\ x % n \in 0..(n - 1)
  OBVIOUS
<1>2. x = (x \div n) * n + (x % n)
  OBVIOUS
<1> QED
  BY <1>1, <1>2

LEMMA DivisionIs ==
    ASSUME NEW c \in Nat, NEW n \in Nat \ {0}, NEW i \in 0..(n - 1)
    PROVE  (c * n + i) \div n = c /\ (c * n + i) % n = i
OBVIOUS

LEMMA RoundedUp ==
    ASSUME NEW x \in Nat, NEW n \in Nat \ {0}
    PROVE  /\ CeilDiv(x, n) \in Nat
           /\ x <= CeilDiv(x, n) * n /\ CeilDiv(x, n) * n < x + n
<1>1. CeilDiv(x, n) = (x + n - 1) \div n
  BY DEF CeilDiv
<1>2. (x + n - 1) \div n \in Nat
  OBVIOUS
<1>3. PICK q \in Nat : q = (x + n - 1) \div n
  BY <1>2
<1>4. x <= q * n /\ q * n < x + n
  BY <1>3
<1> QED
  BY <1>1, <1>3, <1>4

\* One row below the other.
LEMMA Product ==
    ASSUME NEW n \in Nat, NEW c \in Nat, NEW d \in Nat, c < d
    PROVE  c * n \in Nat /\ c * n + n <= d * n
OBVIOUS

\* The constants.
LEMMA Constants ==
    ASSUME RecoveryAssumption
    PROVE  /\ Chunk \in Nat /\ Chunk > 0 /\ Horizon \in Nat /\ Horizon > 0
           /\ MaxDays \in Nat /\ ClimDays \in Nat /\ BootDays \in Nat /\ Lookback \in Nat
           /\ MaxDays > 0 /\ ClimDays > 0 /\ BootDays > 0 /\ Lookback > 1
           /\ Retain \in Nat /\ LastDay \in Nat /\ EraLive \in Nat /\ EraDelay \in Nat
           /\ Retries \in Nat /\ MaxFaults \in Nat /\ NoDay \notin Int
           /\ OpPoints \subseteq Points /\ IsFiniteSet(Points) /\ IsFiniteSet(Models)
BY DEF RecoveryAssumption

LEMMA Strides ==
    ASSUME RecoveryAssumption, NEW phase
    PROVE  /\ Stride(phase) \in Nat \ {0}
           /\ Stride(phase) = IF phase = "deep" THEN Chunk + 1 ELSE Chunk
BY Constants DEF Stride

\* The fields of a job.
LEMMA JobFields ==
    ASSUME NEW j \in JobType
    PROVE  /\ j.start \in Int /\ j.end \in Int /\ j.next \in Nat /\ j.total \in Nat
           /\ j.tries \in 0..Retries /\ j.clean \in BOOLEAN
           /\ j.phase \in PhasesOf(table)
           /\ j.ser \in Seq(Series(table))
BY DEF JobType

LEMMA JobSeries ==
    ASSUME NEW j \in JobType
    PROVE  /\ Len(j.ser) \in Nat
           /\ \A i \in 1..Len(j.ser) : j.ser[i] \in Series(table)
BY JobFields

\* The length of a window as _chunk_date_range and deep_backfill count it.
Length(j) == j.end - j.start + (IF j.phase = "deep" THEN 1 ELSE 0)

\* The chunks of a window cover it.
LEMMA ChunksCover ==
    ASSUME RecoveryAssumption, NEW j \in JobType, j.start <= j.end
    PROVE  /\ Chunks(j) \in Nat
           /\ Length(j) \in Nat
           /\ Length(j) <= Chunks(j) * Stride(j.phase)
           /\ Chunks(j) * Stride(j.phase) < Length(j) + Stride(j.phase)
<1>1. Length(j) \in Nat
  <2>1. j.start \in Int /\ j.end \in Int
    BY JobFields
  <2> QED
    BY SMTT(30), <2>1 DEF Length
<1>2. Chunks(j) = CeilDiv(Length(j), Stride(j.phase))
  BY DEF Chunks, Length
<1>3. Stride(j.phase) \in Nat \ {0}
  BY Strides
<1> QED
  BY <1>1, <1>2, <1>3, RoundedUp

LEMMA TasksAreMany ==
    ASSUME RecoveryAssumption, NEW j \in JobType, j.start <= j.end
    PROVE  Tasks(j) \in Nat /\ Tasks(j) = Chunks(j) * Len(j.ser)
<1>1. Chunks(j) \in Nat
  BY ChunksCover
<1>2. Len(j.ser) \in Nat
  BY JobSeries
<1> QED
  BY SMTT(30), <1>1, <1>2 DEF Tasks

\* The k-th request of a job with n series: which chunk and which series.
LEMMA RequestIs ==
    ASSUME NEW N \in Nat, NEW n \in Nat, NEW k \in 1..(N * n)
    PROVE  /\ n # 0
           /\ (k - 1) \div n \in Nat
           /\ (k - 1) % n \in 0..(n - 1) /\ ((k - 1) % n) + 1 \in 1..n
<1>1. n # 0
  OBVIOUS
<1>2. k - 1 \in Nat /\ n \in Nat \ {0}
  BY <1>1
<1>3. (k - 1) \div n \in Nat /\ (k - 1) % n \in 0..(n - 1)
  BY <1>2, Division
<1> QED
  BY <1>1, <1>3

\* And back: the request of chunk c for the i-th of n series.
HasRequest(N, n, c, i) ==
  \E k \in 1..(N * n) : (k - 1) \div n = c /\ ((k - 1) % n) + 1 = i

LEMMA RequestOf ==
    ASSUME NEW N \in Nat, NEW n \in Nat, NEW c \in Nat, c < N,
           NEW i \in Nat, 1 <= i, i <= n
    PROVE  HasRequest(N, n, c, i)
<1>1. c * n \in Nat /\ c * n + n <= N * n /\ N * n \in Nat
  BY Product
<1>2. PICK k \in Nat : k = c * n + i
  BY <1>1
<1>3. k \in 1..(N * n)
  BY <1>1, <1>2
<1>4. k - 1 = c * n + (i - 1) /\ i - 1 \in 0..(n - 1) /\ n \in Nat \ {0}
  BY <1>1, <1>2
<1>5. (k - 1) \div n = c /\ (k - 1) % n = i - 1
  BY <1>4, DivisionIs
<1>6. ((k - 1) % n) + 1 = i
  BY <1>5
<1> QED
  BY <1>3, <1>5, <1>6 DEF HasRequest

\* Where a chunk starts.
LEMMA ChunkStarts ==
    ASSUME NEW st \in Int, NEW c \in Nat, NEW S \in Nat
    PROVE  st + c * S \in Int /\ st <= st + c * S
<1>1. c * S \in Nat
  OBVIOUS
<1> QED
  BY <1>1

\* The k-th request.
LEMMA TaskIs ==
    ASSUME RecoveryAssumption, NEW j \in JobType, j.start <= j.end, NEW k \in 1..Tasks(j)
    PROVE  /\ Task(j, k).series \in Series(table)
           /\ \E i \in 1..Len(j.ser) : Task(j, k).series = j.ser[i]
           /\ Task(j, k).from \in Int /\ j.start <= Task(j, k).from
           /\ Task(j, k).to \in Int /\ Task(j, k).to <= j.end
<1>1. PICK n \in Nat : n = Len(j.ser)
  BY JobSeries
<1>2. PICK st \in Int, en \in Int : st = j.start /\ en = j.end
  BY JobFields
<1>3. PICK S \in Nat : S = Stride(j.phase)
  BY Strides
<1>4. Chunks(j) \in Nat /\ k \in 1..(Chunks(j) * n)
  BY <1>1, ChunksCover, TasksAreMany
<1>5. (k - 1) \div n \in Nat /\ ((k - 1) % n) + 1 \in 1..n
  BY <1>4, RequestIs
<1>6. PICK c \in Nat, i \in 1..n : c = (k - 1) \div n /\ i = ((k - 1) % n) + 1
  BY <1>5
<1>7. PICK from \in Int : from = st + c * S /\ st <= from
  BY ChunkStarts
<1>8. Task(j, k) = [series |-> j.ser[i], from |-> from, to |-> Smaller(from + Chunk, en)]
  BY <1>1, <1>2, <1>3, <1>6, <1>7 DEF Task
<1>9. Smaller(from + Chunk, en) \in Int /\ Smaller(from + Chunk, en) <= en
  <2>1. from + Chunk \in Int /\ en \in Int
    BY Constants
  <2> QED
    BY SMTT(30), <2>1 DEF Smaller
<1>10. j.ser[i] \in Series(table)
  BY <1>1, JobSeries
<1>11. /\ Task(j, k).series = j.ser[i] /\ Task(j, k).from = from
       /\ Task(j, k).to = Smaller(from + Chunk, en)
  BY <1>8
<1>12. \E m \in 1..Len(j.ser) : Task(j, k).series = j.ser[m]
  BY <1>1, <1>11
<1> QED
  BY <1>2, <1>7, <1>9, <1>10, <1>11, <1>12

\* A day of a window of N strides of S days falls in one of them.
LEMMA StrideOf ==
    ASSUME NEW S \in Nat \ {0}, NEW N \in Nat, NEW x \in Nat, x < N * S
    PROVE  \E c \in Nat : c < N /\ c * S <= x /\ x < c * S + S
<1>1. PICK c \in Nat, r \in 0..(S - 1) : x = c * S + r
  BY Division
<1>2. c < N
  <2>1. SUFFICES ASSUME N <= c PROVE FALSE
    BY <1>1
  <2>2. N * S <= c * S
    BY <2>1
  <2>3. N * S \in Nat /\ c * S \in Nat
    OBVIOUS
  <2> QED
    BY <1>1, <2>2, <2>3
<1>3. c * S \in Nat
  OBVIOUS
<1> QED
  BY <1>1, <1>2, <1>3

\* The last day of a window of whole chunks falls in the last one.
LEMMA LastStride ==
    ASSUME NEW S \in Nat \ {0}, NEW N \in Nat, NEW x \in Nat, 0 < x,
           x <= N * S, N * S < x + S
    PROVE  \E c \in Nat : c < N /\ c * S <= x /\ x <= c * S + S
<1>1. N # 0
  OBVIOUS
<1>2. (N - 1) * S = N * S - S
  OBVIOUS
<1>3. N * S \in Nat /\ N - 1 \in Nat
  BY <1>1
<1>4. (N - 1) * S <= x /\ x <= (N - 1) * S + S
  BY <1>2, <1>3
<1> QED
  BY <1>3, <1>4

\* A day of a window falls in one of its chunks: the chunks of a backfill
\* share their borders, those of a deep one do not.
LEMMA ChunkOf ==
    ASSUME NEW deep \in BOOLEAN, NEW C \in Nat \ {0}, NEW N \in Nat,
           NEW st \in Int, NEW en \in Int, NEW d \in Int,
           st <= d, d <= en, ~deep => st < en,
           NEW S \in Nat, S = IF deep THEN C + 1 ELSE C,
           NEW L \in Nat, L = en - st + (IF deep THEN 1 ELSE 0),
           L <= N * S, N * S < L + S
    PROVE  \E c \in Nat : /\ c < N
                          /\ st + c * S <= d /\ d <= st + c * S + C
<1>1. S \in Nat \ {0}
  OBVIOUS
<1>2. PICK x \in Nat : x = d - st
  OBVIOUS
<1>3. N * S \in Nat
  OBVIOUS
<1>4. CASE d = en /\ ~deep
  <2>1. x = L /\ 0 < x /\ S = C
    BY <1>2, <1>4
  <2>2. PICK c \in Nat : c < N /\ c * S <= x /\ x <= c * S + S
    BY <1>1, <2>1, LastStride
  <2>3. c * S \in Nat
    OBVIOUS
  <2> QED
    BY <1>2, <2>1, <2>2, <2>3
<1>5. CASE ~(d = en /\ ~deep)
  <2>1. x < L
    BY <1>2, <1>5
  <2>2. x < N * S
    BY <1>3, <2>1
  <2>3. PICK c \in Nat : c < N /\ c * S <= x /\ x < c * S + S
    BY <1>1, <2>2, StrideOf
  <2>4. c * S \in Nat /\ S <= C + 1
    OBVIOUS
  <2> QED
    BY <1>2, <2>3, <2>4
<1> QED
  BY <1>4, <1>5

\* The request of chunk c for the i-th series.
LEMMA TaskOf ==
    ASSUME RecoveryAssumption, NEW j \in JobType, j.start <= j.end,
           NEW i \in Nat, 1 <= i, i <= Len(j.ser), NEW c \in Nat, c < Chunks(j)
    PROVE  \E k \in 1..Tasks(j) :
              /\ Task(j, k).series = j.ser[i]
              /\ Task(j, k).from = j.start + c * Stride(j.phase)
              /\ Task(j, k).to = Smaller(j.start + c * Stride(j.phase) + Chunk, j.end)
<1>1. PICK n \in Nat : n = Len(j.ser)
  BY JobSeries
<1>2. PICK N \in Nat : N = Chunks(j) /\ Tasks(j) = N * n
  BY <1>1, ChunksCover, TasksAreMany
<1>3. 1 <= i /\ i <= n /\ c < N
  BY <1>1, <1>2
<1>4. HasRequest(N, n, c, i)
  BY <1>3, RequestOf
<1>5. PICK k \in 1..(N * n) : (k - 1) \div n = c /\ ((k - 1) % n) + 1 = i
  BY <1>4 DEF HasRequest
<1>6. k \in 1..Tasks(j)
  BY <1>2
<1>7. Task(j, k) = [series |-> j.ser[i], from |-> j.start + c * Stride(j.phase),
                    to |-> Smaller(j.start + c * Stride(j.phase) + Chunk, j.end)]
  BY <1>1, <1>5 DEF Task
<1>8. /\ Task(j, k).series = j.ser[i]
      /\ Task(j, k).from = j.start + c * Stride(j.phase)
      /\ Task(j, k).to = Smaller(j.start + c * Stride(j.phase) + Chunk, j.end)
  BY <1>7
<1> QED
  BY <1>6, <1>8

\* Every day of the window is asked for, for every series of the job.
LEMMA WindowCovered ==
    ASSUME RecoveryAssumption, NEW j \in JobType, j.start <= j.end,
           j.phase # "deep" => j.start < j.end,
           NEW i \in 1..Len(j.ser),
           NEW d \in Int, j.start <= d, d <= j.end, 0 <= d
    PROVE  \E k \in 1..Tasks(j) : <<j.ser[i], d>> \in DaysOf(Task(j, k))
<1>1. PICK n \in Nat : n = Len(j.ser)
  BY JobSeries
<1>0. i \in Nat /\ 1 <= i /\ i <= Len(j.ser)
  BY <1>1
<1>2. PICK st \in Int, en \in Int : st = j.start /\ en = j.end
  BY JobFields
<1>3. PICK deep \in BOOLEAN : deep <=> (j.phase = "deep")
  <2>1. CASE j.phase = "deep"
    BY <2>1
  <2>2. CASE j.phase # "deep"
    BY <2>2
  <2> QED
    BY <2>1, <2>2
<1>4. PICK S \in Nat : S = Stride(j.phase)
  BY Strides
<1>5. PICK N \in Nat : N = Chunks(j)
  BY ChunksCover
<1>6. d \in Int /\ st <= d /\ d <= en /\ 0 <= d
  BY <1>2
<1>7. PICK L \in Nat : L = Length(j)
  BY ChunksCover
<1>8. /\ L = en - st + (IF deep THEN 1 ELSE 0)
      /\ S = IF deep THEN Chunk + 1 ELSE Chunk
      /\ L <= N * S /\ N * S < L + S
      /\ ~deep => st < en
      /\ Chunk \in Nat \ {0}
  <2>1. L = en - st + (IF deep THEN 1 ELSE 0)
    BY <1>2, <1>3, <1>7 DEF Length
  <2>2. S = IF deep THEN Chunk + 1 ELSE Chunk
    BY <1>3, <1>4, Strides
  <2>3. L <= N * S /\ N * S < L + S
    BY <1>4, <1>5, <1>7, ChunksCover
  <2>4. ~deep => st < en
    BY <1>2, <1>3
  <2> QED
    BY <2>1, <2>2, <2>3, <2>4, Constants
<1>9. PICK c \in Nat : c < N /\ st + c * S <= d /\ d <= st + c * S + Chunk
  BY <1>6, <1>8, ChunkOf
<1>10. PICK k \in 1..Tasks(j) :
           /\ Task(j, k).series = j.ser[i]
           /\ Task(j, k).from = j.start + c * Stride(j.phase)
           /\ Task(j, k).to = Smaller(j.start + c * Stride(j.phase) + Chunk, j.end)
  <2>1. c < Chunks(j)
    BY <1>5, <1>9
  <2> QED
    BY SMTT(30), <1>0, <2>1, TaskOf
<1>11. PICK from \in Int : from = st + c * S
  BY ChunkStarts
<1>12. Task(j, k).from = from /\ Task(j, k).to = Smaller(from + Chunk, en)
  BY <1>2, <1>4, <1>10, <1>11
<1>13. d \in Larger(from, 0)..Smaller(from + Chunk, en)
  BY <1>6, <1>9, <1>11, Constants DEF Larger, Smaller
<1>14. <<j.ser[i], d>> \in DaysOf(Task(j, k))
  BY <1>10, <1>12, <1>13 DEF DaysOf
<1> QED
  BY <1>14

\* The series of a table are finitely many, and among those of a job.
LEMMA SeriesFinite ==
    ASSUME RecoveryAssumption, NEW t \in Tables
    PROVE  /\ IsFiniteSet(Series(t))
           /\ Series(t) \subseteq Points \X (Models \cup {"era5"})
<1>1. IsFiniteSet(Points) /\ IsFiniteSet(Models) /\ IsFiniteSet({"era5"})
  BY Constants, FS_Singleton
<1>2. IsFiniteSet(OpPoints)
  BY <1>1, Constants, FS_Subset
<1>3. CASE t = "forecast_runs"
  BY <1>1, <1>3, FS_Product DEF Series
<1>4. CASE t = "observations"
  BY <1>1, <1>4, FS_Product DEF Series
<1>5. CASE t = "v4_climatology"
  BY <1>1, <1>2, <1>5, FS_Product, Constants DEF Series
<1> QED
  BY <1>3, <1>4, <1>5 DEF Tables

\* The configuration's order names every series.
LEMMA Ordered ==
    ASSUME NEW S, IsFiniteSet(S)
    PROVE  /\ Order(S) \in Seq(S)
           /\ \A s \in S : \E i \in 1..Len(Order(S)) : Order(S)[i] = s
<1>1. PICK f : f \in Bijection(1..Cardinality(S), S)
  BY FS_CardinalityType DEF ExistsBijection
<1>2. f \in [1..Cardinality(S) -> S] /\ \A t \in S : \E i \in 1..Cardinality(S) : f[i] = t
  BY <1>1 DEF Bijection, Surjection, Injection
<1>3. {f[i] : i \in DOMAIN f} = S
  BY <1>2
<1>4. /\ Order(S) \in [1..Cardinality(S) -> S]
      /\ {Order(S)[i] : i \in DOMAIN Order(S)} = S
  BY ZenonT(30), <1>2, <1>3 DEF Order
<1>5. PICK q : q = Order(S)
  OBVIOUS
<1>6. Cardinality(S) \in Nat
  BY FS_CardinalityType
<1>7. q \in Seq(S) /\ Len(q) = Cardinality(S) /\ DOMAIN q = 1..Cardinality(S)
  BY <1>4, <1>5, <1>6
<1>8. \A s \in S : \E i \in 1..Len(q) : q[i] = s
  BY <1>4, <1>5, <1>7
<1> QED
  BY <1>5, <1>7, <1>8

\* The phases of a table's jobs.
LEMMA PhaseIs ==
    ASSUME NEW t \in Tables, NEW phase \in PhasesOf(t)
    PROVE  /\ phase \in {"previous_runs_api", "historical_forecast_api", "forecasts_first", "era5",
                        "deep"}
           /\ t = "forecast_runs" => phase \in {"previous_runs_api", "historical_forecast_api"}
           /\ t = "observations" => phase \in {"forecasts_first", "era5"}
           /\ t = "v4_climatology" => phase = "deep"
           /\ phase = "deep" => t = "v4_climatology"
<1>1. CASE t = "forecast_runs"
  BY <1>1 DEF PhasesOf
<1>2. CASE t = "observations"
  BY <1>2 DEF PhasesOf
<1>3. CASE t = "v4_climatology"
  BY <1>3 DEF PhasesOf
<1> QED
  BY <1>1, <1>2, <1>3 DEF Tables

\* A running job is not the absence of one.
LEMMA JobIsOne ==
    ASSUME RecoveryAssumption, table \in Tables, NEW j \in JobType
    PROVE  j # NoJob
<1>1. j.ser \in Seq(Series(table))
  BY JobFields
<1>2. j.ser \in Seq(Points \X (Models \cup {"era5"}))
  BY SMTT(30), <1>1, SeriesFinite
<1>3. j.phase \in {"previous_runs_api", "historical_forecast_api", "forecasts_first", "era5",
                   "deep"}
  BY JobFields, PhaseIs
<1>4. j \in [kind : {"boot", "manual", "window", "deep"},
             phase : {"previous_runs_api", "historical_forecast_api",
                      "forecasts_first", "era5", "deep"},
             ser : Seq(Points \X (Models \cup {"era5"})), start : Int, end : Int,
             next : Nat, tries : Nat, total : Nat, clean : BOOLEAN]
  <2>1. j.tries \in Nat
    BY JobFields, Constants
  <2>2. j = [kind |-> j.kind, phase |-> j.phase, ser |-> j.ser, start |-> j.start,
             end |-> j.end, next |-> j.next, tries |-> j.tries, total |-> j.total,
             clean |-> j.clean]
    BY DEF JobType
  <2>3. j.kind \in {"boot", "manual", "window", "deep"}
    BY DEF JobType
  <2> QED
    BY <1>2, <1>3, <2>1, <2>2, <2>3, JobFields
<1> QED
  BY <1>4 DEF RecoveryAssumption

\* A job that starts.
LEMMA JobMade ==
    ASSUME RecoveryAssumption, table \in Tables,
           NEW kind \in {"boot", "manual", "window", "deep"}, NEW phase \in PhasesOf(table),
           NEW ser \in Seq(Series(table)), NEW start \in Int, NEW end \in Int
    PROVE  /\ Job(kind, phase, ser, start, end) \in JobType
           /\ Job(kind, phase, ser, start, end) # NoJob
           /\ Job(kind, phase, ser, start, end).phase = phase
           /\ Job(kind, phase, ser, start, end).ser = ser
           /\ Job(kind, phase, ser, start, end).start = start
           /\ Job(kind, phase, ser, start, end).end = end
           /\ Job(kind, phase, ser, start, end).next = 1
<1>1. Job(kind, phase, ser, start, end) \in JobType
  BY Constants DEF Job, JobType
<1> QED
  BY <1>1, JobIsOne DEF Job

\* What a job asks for depends on its window and its series only.
LEMMA SameTasks ==
    ASSUME NEW i, NEW j, i.ser = j.ser, i.start = j.start, i.end = j.end,
           i.phase = "deep" <=> j.phase = "deep"
    PROVE  Tasks(i) = Tasks(j) /\ \A k : Task(i, k) = Task(j, k)
<1>1. Stride(i.phase) = Stride(j.phase)
  BY DEF Stride
<1>2. Chunks(i) = Chunks(j)
  BY <1>1 DEF Chunks
<1> QED
  BY <1>1, <1>2 DEF Tasks, Task

\* The next request done, the others remain.
LEMMA Advance ==
    ASSUME NEW i, NEW j, i.ser = j.ser, i.start = j.start, i.end = j.end,
           i.phase = "deep" <=> j.phase = "deep",
           j.next \in Nat, i.next = j.next + 1, Tasks(j) \in Nat, NEW x \in Remaining(j)
    PROVE  x \in DaysOf(Task(j, j.next)) \/ x \in Remaining(i)
<1>1. PICK k \in j.next..Tasks(j) : x \in DaysOf(Task(j, k))
  BY DEF Remaining
<1>2. Tasks(i) = Tasks(j) /\ Task(i, k) = Task(j, k)
  BY SameTasks
<1>3. CASE k = j.next
  BY <1>1, <1>3
<1>4. CASE k # j.next
  <2>1. k \in i.next..Tasks(i)
    BY <1>2, <1>4
  <2> QED
    BY <1>1, <1>2, <2>1 DEF Remaining
<1> QED
  BY <1>3, <1>4

LEMMA SameRemaining ==
    ASSUME NEW i, NEW j, i.ser = j.ser, i.start = j.start, i.end = j.end,
           i.phase = "deep" <=> j.phase = "deep", i.next = j.next
    PROVE  Remaining(i) = Remaining(j)
<1>1. Tasks(i) = Tasks(j) /\ \A k : Task(i, k) = Task(j, k)
  BY SameTasks
<1> QED
  BY <1>1 DEF Remaining

-----------------------------------------------------------------------------
(* The rows, the marks and what is known of a day.                         *)

\* The newest of some days.
LEMMA LargestDay ==
    ASSUME NEW n \in Nat, NEW S \in SUBSET (0..n), S # {}
    PROVE  \E g \in S : \A h \in S : h <= g
<1> DEFINE T == {m \in Nat : \E g \in S : m = n - g}
<1>1. T \in SUBSET Nat /\ T # {}
  <2>1. PICK g \in S : TRUE
    OBVIOUS
  <2>2. n - g \in T
    BY <2>1
  <2> QED
    BY <2>2
<1>2. PICK m \in T : \A i \in T : <<i, m>> \notin OpToRel(<, Nat)
  BY <1>1, NatLessThanWellFounded, WFMin
<1>3. PICK g \in S : m = n - g
  BY <1>2
<1>4. ASSUME NEW h \in S PROVE h <= g
  <2>1. n - h \in T
    OBVIOUS
  <2>2. ~ (n - h < m)
    BY <1>2, <2>1 DEF OpToRel
  <2> QED
    BY <1>3, <2>2
<1> QED
  BY <1>4

\* What detect_gaps() and incremental_backfill() read.
LEMMA NewestIs ==
    ASSUME NEW n \in Nat, NEW R, \A r \in R : r.day \in 0..n
    PROVE  /\ R = {} => Newest(R) = NoDay
           /\ R # {} => /\ \E r \in R : r.day = Newest(R)
                        /\ Newest(R) \in 0..n
                        /\ \A r \in R : r.day <= Newest(R)
<1>1. R = {} => Newest(R) = NoDay
  BY DEF Newest
<1>2. ASSUME R # {}
      PROVE  /\ \E r \in R : r.day = Newest(R)
             /\ Newest(R) \in 0..n
             /\ \A r \in R : r.day <= Newest(R)
  <2>1. PICK S : S = {r.day : r \in R}
    OBVIOUS
  <2>2. S \in SUBSET (0..n) /\ S # {}
    BY <1>2, <2>1
  <2>3. \E g \in S : \A h \in S : h <= g
    BY <2>2, LargestDay
  <2>4. \E g \in S : \A r \in R : r.day <= g
    BY <2>1, <2>3
  <2>5. Newest(R) = CHOOSE d \in S : \A r \in R : r.day <= d
    BY <1>2, <2>1 DEF Newest
  <2>6. Newest(R) \in S /\ \A r \in R : r.day <= Newest(R)
    BY <2>4, <2>5
  <2> QED
    BY <2>1, <2>2, <2>6
<1> QED
  BY <1>1, <1>2

LEMMA LatestIs ==
    ASSUME RecoveryAssumption, RowsKnow
    PROVE  /\ \A r \in rows : Latest \in Int /\ r.day <= Latest
           /\ Latest # NoDay => Latest \in Nat /\ \E r \in rows : r.day = Latest
<1>1. PICK n \in Nat : n = LastDay + Horizon
  BY Constants
<1>2. \A r \in rows : r.day \in 0..n
  BY <1>1 DEF RowsKnow, RowOk, RowType
<1>3. PICK R : R = rows
  OBVIOUS
<1>4. Latest = Newest(R)
  BY <1>3 DEF Latest
<1>5. /\ R = {} => Newest(R) = NoDay
      /\ R # {} => /\ \E r \in R : r.day = Newest(R)
                   /\ Newest(R) \in 0..n
                   /\ \A r \in R : r.day <= Newest(R)
  BY <1>2, <1>3, NewestIs
<1>6. CASE R = {}
  BY <1>3, <1>4, <1>5, <1>6
<1>7. CASE R # {}
  <2>1. Newest(R) \in Nat
    BY <1>5, <1>7
  <2> QED
    BY <1>3, <1>4, <1>5, <1>7, <2>1
<1> QED
  BY <1>6, <1>7

LEMMA LatestOfIs ==
    ASSUME RecoveryAssumption, RowsKnow, NEW s
    PROVE  /\ LatestOf(s) = NoDay => \A r \in rows : r.series # s
           /\ LatestOf(s) # NoDay => /\ LatestOf(s) \in Nat
                                     /\ HasRow(s, LatestOf(s))
<1>1. PICK n \in Nat : n = LastDay + Horizon
  BY Constants
<1>2. PICK R : R = {r \in rows : r.series = s}
  OBVIOUS
<1>3. \A r \in R : r.day \in 0..n
  BY <1>1, <1>2 DEF RowsKnow, RowOk, RowType
<1>4. LatestOf(s) = Newest(R)
  BY <1>2 DEF LatestOf
<1>5. CASE R = {}
  BY <1>2, <1>3, <1>4, <1>5, NewestIs
<1>6. CASE R # {}
  <2>1. /\ \E r \in R : r.day = Newest(R)
        /\ Newest(R) \in 0..n
    BY <1>3, <1>6, NewestIs
  <2>2. Newest(R) # NoDay
    BY <2>1, Constants
  <2>3. Newest(R) \in Nat
    BY <2>1
  <2>4. HasRow(s, Newest(R))
    BY <1>2, <2>1 DEF HasRow
  <2> QED
    BY <1>4, <2>2, <2>3, <2>4
<1> QED
  BY <1>5, <1>6

\* An UPSERT loses no key, and INSERT OR IGNORE neither.
LEMMA StoredKeeps ==
    ASSUME NEW new, rows' = Stored(new)
    PROVE  /\ \A r \in rows : \E q \in rows' : Key(q) = Key(r) /\ (q = r \/ q \in new)
           /\ \A n \in new : \E q \in rows' : Key(q) = Key(n)
           /\ \A q \in rows' : q \in rows \/ q \in new
<1>1. CASE table = "v4_climatology"
  <2>1. rows' = rows \cup {n \in new : \A r \in rows : Key(n) # Key(r)}
    BY <1>1 DEF Stored
  <2>2. ASSUME NEW n \in new PROVE \E q \in rows' : Key(q) = Key(n)
    BY <2>1
  <2> QED
    BY <2>1, <2>2
<1>2. CASE table # "v4_climatology"
  <2>1. rows' = {r \in rows : \A n \in new : Key(n) # Key(r)} \cup new
    BY <1>2 DEF Stored
  <2>2. ASSUME NEW r \in rows
        PROVE  \E q \in rows' : Key(q) = Key(r) /\ (q = r \/ q \in new)
    BY <2>1
  <2> QED
    BY <2>1, <2>2
<1> QED
  BY <1>1, <1>2

\* Every stored day stays stored, every new day is.
LEMMA StoredHas ==
    ASSUME NEW new, rows' = Stored(new)
    PROVE  /\ \A s, d : HasRow(s, d) => HasRow(s, d)'
           /\ \A n \in new : HasRow(n.series, n.day)'
<1>1. ASSUME NEW s, NEW d, HasRow(s, d) PROVE HasRow(s, d)'
  <2>1. PICK r \in rows : r.series = s /\ r.day = d
    BY <1>1 DEF HasRow
  <2>2. PICK q \in rows' : Key(q) = Key(r)
    BY StoredKeeps
  <2> QED
    BY <2>1, <2>2 DEF HasRow, Key
<1>2. ASSUME NEW n \in new PROVE HasRow(n.series, n.day)'
  <2>1. PICK q \in rows' : Key(q) = Key(n)
    BY StoredKeeps
  <2> QED
    BY <2>1 DEF HasRow, Key
<1> QED
  BY <1>1, <1>2

\* A cause stays known until the day is filled, and a day given up has one.
LEMMA GiveUpMarks ==
    ASSUME NEW marks, LostKnows, GiveUp(marks)
    PROVE  /\ \A s, d : Marked(s, d) => Marked(s, d)' \/ HasRow(s, d)'
           /\ \A c \in Causes : \A s, d :
                 <<c, s, d>> \in marks => Marked(s, d)' \/ HasRow(s, d)'
           /\ \A m \in lost' : m \in lost \/ m \in marks
<1>1. lost' = {c \in lost \cup {m \in marks : \A c \in lost : Tail(c) # Tail(m)} :
                 \A r \in rows' : ~(r.series = c[2] /\ r.day = c[3] /\ r.val)}
  BY DEF GiveUp
<1>2. ASSUME NEW s, NEW d, Marked(s, d) PROVE Marked(s, d)' \/ HasRow(s, d)'
  <2>1. PICK c \in Causes : <<c, s, d>> \in lost
    BY <1>2 DEF Marked
  <2>2. CASE <<c, s, d>> \in lost'
    BY <2>2 DEF Marked
  <2>3. CASE <<c, s, d>> \notin lost'
    <3>1. \E r \in rows' : r.series = s /\ r.day = d
      BY <1>1, <2>1, <2>3
    <3> QED
      BY <3>1 DEF HasRow
  <2> QED
    BY <2>2, <2>3
<1>3. ASSUME NEW c \in Causes, NEW s, NEW d, <<c, s, d>> \in marks
      PROVE  Marked(s, d)' \/ HasRow(s, d)'
  <2>1. CASE \E x \in lost : Tail(x) = Tail(<<c, s, d>>)
    <3>1. PICK x \in lost : Tail(x) = Tail(<<c, s, d>>)
      BY <2>1
    <3>2. PICK a \in Causes, b \in Series(table), e \in Int : x = <<a, b, e>>
      BY DEF LostKnows, Marks
    <3>3. b = s /\ e = d
      <4>1. Tail(<<a, b, e>>) = <<b, e>> /\ Tail(<<c, s, d>>) = <<s, d>>
        OBVIOUS
      <4> QED
        BY <3>1, <3>2, <4>1
    <3>4. Marked(s, d)
      BY <3>2, <3>3 DEF Marked
    <3> QED
      BY <1>2, <3>4
  <2>2. CASE \A x \in lost : Tail(x) # Tail(<<c, s, d>>)
    <3>1. CASE <<c, s, d>> \in lost'
      BY <3>1 DEF Marked
    <3>2. CASE <<c, s, d>> \notin lost'
      <4>1. \E r \in rows' : r.series = s /\ r.day = d
        BY <1>1, <1>3, <2>2, <3>2
      <4> QED
        BY <4>1 DEF HasRow
    <3> QED
      BY <3>1, <3>2
  <2> QED
    BY <2>1, <2>2
<1>4. \A m \in lost' : m \in lost \/ m \in marks
  BY <1>1
<1> QED
  BY <1>2, <1>3, <1>4

\* What a step leaves of the archive: no day is forgotten.
KeepsRows ==
  \A s, d : HasRow(s, d) => HasRow(s, d)' \/ (table = "forecast_runs" /\ d < now - Retain)
KeepsMarks == \A s, d : Marked(s, d) => Marked(s, d)' \/ HasRow(s, d)'
Later == table' = table /\ now \in Int /\ now' \in Int /\ now <= now'

LEMMA InOrder ==
    ASSUME NEW d \in Int, NEW m \in Int, NEW e \in Int, NEW n \in Int,
           d <= m, m <= e, e <= n
    PROVE  d <= e /\ d <= n
OBVIOUS

LEMMA LaterLine ==
    ASSUME NEW x \in Int, NEW y \in Int, x <= y, NEW a \in Nat, NEW d \in Int, d < x - a
    PROVE  d < y - a
OBVIOUS

LEMMA KnownKept ==
    ASSUME RecoveryAssumption, Later, KeepsRows, KeepsMarks, NEW s, NEW d \in Int, Known(s, d)
    PROVE  Known(s, d)'
<1>a. PICK x \in Int, y \in Int : x = now /\ y = now' /\ x <= y
  BY DEF Later
<1>b. PICK a \in Nat, b \in Nat : a = Retain /\ b = ClimDays
  BY Constants
<1>0. (d < now - Retain => d < now' - Retain) /\ (d < now - ClimDays => d < now' - ClimDays)
  <2>1. (d < x - a => d < y - a) /\ (d < x - b => d < y - b)
    BY <1>a, LaterLine
  <2> QED
    BY <1>a, <1>b, <2>1
<1>1. CASE HasRow(s, d)
  <2>1. HasRow(s, d)' \/ (table = "forecast_runs" /\ d < now - Retain)
    BY <1>1 DEF KeepsRows
  <2> QED
    BY <1>0, <2>1 DEF Later, Known
<1>2. CASE Marked(s, d)
  BY <1>2 DEF KeepsMarks, Known
<1>3. CASE table = "forecast_runs" /\ d < now - Retain
  BY <1>0, <1>3 DEF Later, Known
<1>4. CASE table = "v4_climatology" /\ d < now - ClimDays
  BY <1>0, <1>4 DEF Later, Known
<1> QED
  BY <1>1, <1>2, <1>3, <1>4 DEF Known

-----------------------------------------------------------------------------
(* The rows that are stored.                                               *)

\* A row that arrives on day n: ERA5 has no value for its newest days.
FreshRow(t, n, r) ==
  RowOk(t, n, r) /\ (r.src = "era5" => (r.val <=> r.day <= n - EraDelay))

LEMMA RowFields ==
    ASSUME NEW t, NEW r \in RowType(t)
    PROVE  /\ r.series \in Series(t) \cup {Station} /\ r.day \in 0..(LastDay + Horizon)
           /\ r.src \in {Live, Exempt, "era5"} /\ r.val \in BOOLEAN
BY DEF RowType

LEMMA RowIs ==
    ASSUME NEW t, NEW s \in Series(t) \cup {Station}, NEW d \in 0..(LastDay + Horizon),
           NEW src \in {Live, Exempt, "era5"}, NEW val \in BOOLEAN
    PROVE  /\ Row(s, d, src, val) \in RowType(t)
           /\ Row(s, d, src, val).series = s /\ Row(s, d, src, val).day = d
           /\ Row(s, d, src, val).src = src /\ Row(s, d, src, val).val = val
BY DEF Row, RowType

LEMMA Sources == Live # Exempt /\ Live # "era5" /\ Exempt # "era5"
BY DEF Live, Exempt

\* The row stays what it is as the days go by.
LEMMA RowOkLater ==
    ASSUME RecoveryAssumption, NEW t, NEW m \in Int, NEW n \in Int, m <= n,
           NEW r, RowOk(t, m, r)
    PROVE  RowOk(t, n, r)
<1>1. r \in RowType(t)
  BY DEF RowOk
<1>2. PICK d \in Nat, e \in Nat : d = r.day /\ e = EraDelay
  BY SMTT(30), <1>1, RowFields, Constants
<1>3. (d <= m => d <= n) /\ (d <= m - e => d <= n - e)
  OBVIOUS
<1> QED
  BY <1>1, <1>2, <1>3 DEF RowOk

\* The rows R bring the series no day past the last one asked for.
Brings(t, n, s, to, R) ==
  \A r \in R : FreshRow(t, n, r) /\ r.series = s /\ r.day <= n /\ r.day <= to

HasDay(R, s, d) == \E r \in R : r.series = s /\ r.day = d

LEMMA EraRowsFresh ==
    ASSUME RecoveryAssumption, NEW t, t # "forecast_runs", NEW s \in Series(t),
           NEW from \in Int, NEW to \in Int, NEW n \in 0..LastDay, to <= n
    PROVE  Brings(t, n, s, to, EraRows(s, from, to, n))
<1> SUFFICES ASSUME NEW r \in EraRows(s, from, to, n)
             PROVE  FreshRow(t, n, r) /\ r.series = s /\ r.day <= n /\ r.day <= to
  BY DEF Brings
<1>0. EraDelay \in Nat /\ LastDay \in Nat /\ Horizon \in Nat
  BY Constants
<1>1. PICK d \in Larger(from, 0)..to : r = Row(s, d, "era5", d <= n - EraDelay)
  BY DEF EraRows
<1>2. d \in 0..(LastDay + Horizon) /\ d <= n /\ d <= to /\ (d <= n - EraDelay) \in BOOLEAN
  BY <1>0 DEF Larger
<1>3. /\ r \in RowType(t) /\ r.series = s /\ r.day = d /\ r.src = "era5"
      /\ r.val = (d <= n - EraDelay)
  <2>1. r = [series |-> s, day |-> d, src |-> "era5", val |-> d <= n - EraDelay]
    BY <1>1 DEF Row
  <2>2. r \in RowType(t)
    BY <1>2, <2>1 DEF RowType
  <2> QED
    BY <2>1, <2>2
<1>4. RowOk(t, n, r)
  BY <1>2, <1>3, Sources DEF RowOk
<1> QED
  BY <1>2, <1>3, <1>4 DEF FreshRow

\* A day within the days the archive is asked for is stored.
LEMMA EraRowsHave ==
    ASSUME NEW s, NEW from \in Int, NEW to \in Int, NEW n, NEW d \in Int,
           from <= d, 0 <= d, d <= to
    PROVE  HasDay(EraRows(s, from, to, n), s, d)
<1>1. d \in Larger(from, 0)..to
  BY DEF Larger
<1>2. Row(s, d, "era5", d <= n - EraDelay) \in EraRows(s, from, to, n)
  BY <1>1 DEF EraRows
<1> QED
  BY <1>2 DEF Row, HasDay

\* What one pass of the collectors stores.
LEMMA LiveRowsAre ==
    ASSUME table \in Tables, NEW ok, NEW n
    PROVE  /\ table = "forecast_runs" => LiveRows(ok, n) = ForecastRows(ok, n)
           /\ table = "observations" => LiveRows(ok, n) = ObservedRows(ok, n)
           /\ table = "v4_climatology" => LiveRows(ok, n) = {}
BY DEF LiveRows, Tables

LEMMA ForecastRowsAre ==
    ASSUME RecoveryAssumption, NEW ok, NEW n \in Int
    PROVE  /\ \A r \in ForecastRows(ok, n) : \E s \in ok, d \in n..(n + Horizon - 1) :
                r = [series |-> s, day |-> d, src |-> Live, val |-> TRUE]
           /\ \A s \in ok, d \in n..(n + Horizon - 1) :
                \E r \in ForecastRows(ok, n) : r.series = s /\ r.day = d
<1>1. ASSUME NEW r \in ForecastRows(ok, n)
      PROVE  \E s \in ok, d \in n..(n + Horizon - 1) :
                r = [series |-> s, day |-> d, src |-> Live, val |-> TRUE]
  <2>1. PICK x \in ok \X (n..(n + Horizon - 1)) :
           r = [series |-> x[1], day |-> x[2], src |-> Live, val |-> TRUE]
    BY DEF ForecastRows, Row
  <2> QED
    BY <2>1
<1>2. ASSUME NEW s \in ok, NEW d \in n..(n + Horizon - 1)
      PROVE  \E r \in ForecastRows(ok, n) : r.series = s /\ r.day = d
  <2>1. PICK x \in ok \X (n..(n + Horizon - 1)) : x = <<s, d>>
    OBVIOUS
  <2>2. Row(x[1], x[2], Live, TRUE) \in ForecastRows(ok, n)
    BY DEF ForecastRows
  <2>3. x[1] = s /\ x[2] = d
    BY <2>1
  <2>4. PICK r \in ForecastRows(ok, n) : r = Row(x[1], x[2], Live, TRUE)
    BY <2>2
  <2>5. r.series = x[1] /\ r.day = x[2]
    BY <2>4 DEF Row
  <2> QED
    BY <2>3, <2>5
<1> QED
  BY <1>1, <1>2

LEMMA StationRowsFresh ==
    ASSUME RecoveryAssumption, table \in Tables, NEW n \in 0..LastDay,
           NEW st \in StationRows(n), NEW r \in st
    PROVE  FreshRow(table, n, r) /\ r.day <= n
<1>1. table = "observations" /\ r = [series |-> Station, day |-> n, src |-> Live, val |-> TRUE]
  BY DEF StationRows, Row
<1>2. n \in 0..(LastDay + Horizon) /\ Station \in Series(table) \cup {Station}
  BY Constants
<1>3. r \in RowType(table) /\ r.day = n /\ r.src = Live /\ r.val
  BY <1>1, <1>2 DEF RowType
<1>4. RowOk(table, n, r)
  BY <1>1, <1>3, Sources DEF RowOk
<1> QED
  BY <1>3, <1>4, Sources DEF FreshRow

\* The rows R leave none of the days from n to that of r out.
Ahead(n, r, R) == r.day <= n \/ \A d \in n..r.day : HasDay(R, r.series, d)

LEMMA LiveRowsFresh ==
    ASSUME RecoveryAssumption, table \in Tables, NEW ok \in SUBSET Series(table),
           NEW n \in 0..LastDay, NEW r \in LiveRows(ok, n)
    PROVE  FreshRow(table, n, r) /\ Ahead(n, r, LiveRows(ok, n))
<1>0. EraLive \in Nat /\ LastDay \in Nat /\ Horizon \in Nat
  BY Constants
<1>1. CASE table = "forecast_runs"
  <2>1. LiveRows(ok, n) = ForecastRows(ok, n)
    BY <1>1, LiveRowsAre
  <2>2. PICK s \in ok, d \in n..(n + Horizon - 1) :
           r = [series |-> s, day |-> d, src |-> Live, val |-> TRUE]
    BY <2>1, ForecastRowsAre
  <2>3. d \in 0..(LastDay + Horizon) /\ s \in Series(table) \cup {Station}
    BY <1>0
  <2>4. r \in RowType(table) /\ r.series = s /\ r.day = d /\ r.src = Live /\ r.val
    BY <2>2, <2>3 DEF RowType
  <2>5. RowOk(table, n, r)
    BY <1>1, <2>4, Sources DEF RowOk
  <2>6. FreshRow(table, n, r)
    BY <2>4, <2>5, Sources DEF FreshRow
  <2>7. ASSUME NEW e \in n..d
        PROVE  HasDay(LiveRows(ok, n), s, e)
    <3>1. e \in n..(n + Horizon - 1)
      BY SMTT(30), <1>0
    <3> QED
      BY SMTT(30), <2>1, <3>1, ForecastRowsAre DEF HasDay
  <2> QED
    BY <2>4, <2>6, <2>7 DEF Ahead
<1>2. CASE table = "observations"
  <2>1. LiveRows(ok, n) = ObservedRows(ok, n)
    BY <1>2, LiveRowsAre
  <2>2. PICK s \in ok : r \in EraRows(s, n - EraLive, n, n)
    BY <2>1 DEF ObservedRows
  <2>3. n - EraLive \in Int /\ n \in Int /\ n <= n /\ table # "forecast_runs"
    BY <1>0, <1>2
  <2> QED
    BY <2>2, <2>3, EraRowsFresh DEF Brings, Ahead
<1>3. CASE table = "v4_climatology"
  BY <1>3, LiveRowsAre
<1> QED
  BY <1>1, <1>2, <1>3 DEF Tables

\* A series that answered has today.
LEMMA LiveRowsHave ==
    ASSUME RecoveryAssumption, table \in Tables, table # "v4_climatology",
           NEW ok \in SUBSET Series(table), NEW n \in Nat, NEW s \in ok
    PROVE  HasDay(LiveRows(ok, n), s, n)
<1>0. EraLive \in Nat /\ Horizon \in Nat /\ Horizon > 0
  BY Constants
<1>1. CASE table = "forecast_runs"
  <2>1. LiveRows(ok, n) = ForecastRows(ok, n)
    BY <1>1, LiveRowsAre
  <2>2. n \in n..(n + Horizon - 1)
    BY <1>0
  <2> QED
    BY SMTT(30), <2>1, <2>2, ForecastRowsAre DEF HasDay
<1>2. CASE table = "observations"
  <2>1. LiveRows(ok, n) = ObservedRows(ok, n)
    BY <1>2, LiveRowsAre
  <2>2. PICK from \in Int : from = n - EraLive
    BY <1>0
  <2>3. from <= n
    BY <1>0, <2>2
  <2>4. HasDay(EraRows(s, from, n, n), s, n)
    BY <2>3, EraRowsHave
  <2>5. EraRows(s, from, n, n) \subseteq ObservedRows(ok, n)
    BY <2>2 DEF ObservedRows
  <2> QED
    BY <2>1, <2>4, <2>5 DEF HasDay
<1> QED
  BY <1>1, <1>2 DEF Tables

\* The rows R fill the days of a request on day n.
Fills(t, n, task, R) ==
  /\ \A r \in R : FreshRow(t, n, r) /\ r.series = task.series /\ r.day <= task.to
  /\ \A x \in DaysOf(task) : \E r \in R : /\ r.series = x[1] /\ r.day = x[2]
                                          /\ t = "forecast_runs" => r.src = Exempt

IsTask(t, n, task) ==
  task.series \in Series(t) /\ task.from \in Int /\ task.to \in Int /\ task.to <= n

LEMMA EraFills ==
    ASSUME RecoveryAssumption, NEW t \in Tables, t # "forecast_runs", NEW n \in 0..LastDay,
           NEW task, IsTask(t, n, task)
    PROVE  Fills(t, n, task, EraRows(task.series, task.from, task.to, n))
<1>1. PICK s \in Series(t), from \in Int, to \in Int :
         s = task.series /\ from = task.from /\ to = task.to /\ to <= n
  BY DEF IsTask
<1>2. Brings(t, n, s, to, EraRows(s, from, to, n))
  BY <1>1, EraRowsFresh
<1>3. ASSUME NEW x \in DaysOf(task)
      PROVE  \E r \in EraRows(s, from, to, n) : r.series = x[1] /\ r.day = x[2]
  <2>1. PICK d \in Larger(from, 0)..to : x = <<s, d>>
    BY <1>1 DEF DaysOf
  <2>2. d \in Int /\ from <= d /\ 0 <= d /\ d <= to
    BY SMTT(30) DEF Larger
  <2>3. HasDay(EraRows(s, from, to, n), s, d)
    BY <2>2, EraRowsHave
  <2> QED
    BY <2>1, <2>3 DEF HasDay
<1> QED
  BY <1>1, <1>2, <1>3 DEF Fills, Brings

LEMMA StitchedFills ==
    ASSUME RecoveryAssumption, NEW n \in 0..LastDay,
           NEW task, IsTask("forecast_runs", n, task)
    PROVE  Fills("forecast_runs", n, task, Stitched(task))
<1>0. LastDay \in Nat /\ Horizon \in Nat
  BY Constants
<1>1. PICK t : t = "forecast_runs"
  OBVIOUS
<1>2. PICK s \in Series(t), from \in Int, to \in Int :
         s = task.series /\ from = task.from /\ to = task.to /\ to <= n
  BY <1>1 DEF IsTask
<1>3. ASSUME NEW r \in Stitched(task)
      PROVE  FreshRow(t, n, r) /\ r.series = s /\ r.day <= to
  <2>1. PICK d \in Larger(from, 0)..to :
           r = [series |-> s, day |-> d, src |-> Exempt, val |-> TRUE]
    BY <1>2 DEF Stitched, Row
  <2>2. d \in 0..(LastDay + Horizon) /\ d <= n /\ d <= to
    <3>1. d \in Int /\ 0 <= d /\ d <= to
      BY DEF Larger
    <3>2. to <= n
      BY <1>2
    <3> QED
      BY <1>0, <3>1, <3>2
  <2>3. r \in RowType(t) /\ r.series = s /\ r.day = d /\ r.src = Exempt /\ r.val
    BY <2>1, <2>2 DEF RowType
  <2>4. RowOk(t, n, r)
    BY <1>1, <2>2, <2>3, Sources DEF RowOk
  <2> QED
    BY <2>2, <2>3, <2>4, Sources DEF FreshRow
<1>4. ASSUME NEW x \in DaysOf(task)
      PROVE  \E r \in Stitched(task) : r.series = x[1] /\ r.day = x[2] /\ r.src = Exempt
  <2>1. PICK d \in Larger(task.from, 0)..task.to : x = <<task.series, d>>
    BY DEF DaysOf
  <2>2. Row(task.series, d, Exempt, TRUE) \in Stitched(task)
    BY DEF Stitched
  <2> QED
    BY <2>1, <2>2 DEF Row
<1> QED
  BY <1>1, <1>2, <1>3, <1>4 DEF Fills

\* An answer fills the days that were asked for.
LEMMA AnswerFills ==
    ASSUME RecoveryAssumption, table \in Tables, now \in 0..LastDay, NEW j \in JobType,
           j.start <= j.end, j.end <= now, j.phase # "forecasts_first", NEW k \in 1..Tasks(j)
    PROVE  Fills(table, now, Task(j, k), Answer(j, Task(j, k)))
<1>1. PICK task : task = Task(j, k)
  OBVIOUS
<1>2. IsTask(table, now, task)
  <2>1. /\ Task(j, k).series \in Series(table) /\ Task(j, k).from \in Int
        /\ Task(j, k).to \in Int /\ Task(j, k).to <= j.end
    BY TaskIs
  <2>2. j.end \in Int
    BY JobFields
  <2>3. Task(j, k).to <= now
    BY SMTT(30), <2>1, <2>2
  <2> QED
    BY <1>1, <2>1, <2>3 DEF IsTask
<1>3. CASE j.phase \in {"era5", "deep"}
  <2>1. Answer(j, task) = EraRows(task.series, task.from, task.to, now)
    BY <1>3 DEF Answer
  <2>2. table # "forecast_runs"
    BY <1>3, JobFields, PhaseIs
  <2> QED
    BY <1>1, <1>2, <2>1, <2>2, EraFills
<1>4. CASE j.phase \notin {"era5", "deep"}
  <2>1. Answer(j, task) = Stitched(task)
    BY <1>4 DEF Answer
  <2>2. table = "forecast_runs"
    BY <1>4, JobFields, PhaseIs DEF Tables
  <2> QED
    BY <1>1, <1>2, <2>1, <2>2, StitchedFills
<1> QED
  BY <1>3, <1>4

\* The rows of a step that stores.
LEMMA RowsStep ==
    ASSUME RecoveryAssumption, Later, RowsKnow, NEW new, rows' = Stored(new),
           \A r \in new : FreshRow(table, now', r)
    PROVE  RowsKnow'
<1>1. PICK m \in Int, n \in Int : m = now /\ n = now' /\ m <= n
  BY DEF Later
<1>2. ASSUME NEW q \in rows' PROVE RowOk(table, n, q)
  <2>1. q \in rows \/ q \in new
    BY StoredKeeps
  <2>2. CASE q \in rows
    <3>1. RowOk(table, m, q)
      BY <1>1, <2>2 DEF RowsKnow
    <3> QED
      BY <1>1, <3>1, RowOkLater
  <2>3. CASE q \in new
    BY <1>1, <2>3 DEF FreshRow
  <2> QED
    BY <2>1, <2>2, <2>3
<1> QED
  BY <1>1, <1>2 DEF RowsKnow, Later

\* A step that stores nothing.
LEMMA RowsStay ==
    ASSUME RecoveryAssumption, Later, RowsKnow, rows' \subseteq rows
    PROVE  RowsKnow'
<1>1. PICK m \in Int, n \in Int : m = now /\ n = now' /\ m <= n
  BY DEF Later
<1>2. ASSUME NEW q \in rows' PROVE RowOk(table, n, q)
  <2>1. RowOk(table, m, q)
    BY <1>1 DEF RowsKnow
  <2> QED
    BY <1>1, <2>1, RowOkLater
<1> QED
  BY <1>1, <1>2 DEF RowsKnow, Later

\* A row that replaces one of its key has a value when that one had.
LEMMA ValueKept ==
    ASSUME RecoveryAssumption, NEW t, NEW m \in Int, NEW n \in Int, m <= n,
           NEW r, RowOk(t, m, r), NEW q, FreshRow(t, n, q), Key(q) = Key(r), r.val
    PROVE  q.series = r.series /\ q.day = r.day /\ q.src = r.src /\ q.val
<1>1. q.series = r.series /\ q.day = r.day /\ q.src = r.src
  BY DEF Key
<1>2. r \in RowType(t) /\ q \in RowType(t)
  BY DEF RowOk, FreshRow
<1>3. CASE r.src = "era5"
  <2>1. PICK d \in Nat, e \in Nat : d = r.day /\ e = EraDelay
    BY SMTT(30), <1>2, RowFields, Constants
  <2>2. d <= m - e => d <= n - e
    OBVIOUS
  <2> QED
    BY <1>1, <1>3, <2>1, <2>2 DEF RowOk, FreshRow
<1>4. CASE r.src # "era5"
  <2>1. q.src \in {Live, Exempt}
    BY <1>1, <1>2, <1>4, RowFields
  <2> QED
    BY <1>1, <2>1 DEF RowOk, FreshRow
<1> QED
  BY <1>3, <1>4

-----------------------------------------------------------------------------
(* The marks of a step.                                                    *)

LEMMA StoreKeeps ==
    ASSUME NEW new, rows' = Stored(new)
    PROVE  KeepsRows
BY StoredHas DEF KeepsRows

LEMMA SameRowsKeep ==
    ASSUME rows' = rows
    PROVE  KeepsRows
BY DEF KeepsRows, HasRow

LEMMA GiveUpKeeps ==
    ASSUME NEW marks, marks \subseteq Marks(table), LostKnows, GiveUp(marks), table' = table
    PROVE  KeepsMarks /\ LostKnows'
<1>1. KeepsMarks
  BY GiveUpMarks DEF KeepsMarks
<1>2. lost' \subseteq Marks(table)
  BY GiveUpMarks DEF LostKnows
<1> QED
  BY <1>1, <1>2 DEF LostKnows

LEMMA SameMarksKeep ==
    ASSUME LostKnows, lost' = lost, table' = table
    PROVE  KeepsMarks /\ LostKnows'
BY DEF KeepsMarks, LostKnows, Marked

\* Every day given up, for whatever cause, is known of.
Noted(marks) ==
  \A c \in Causes : \A s, d : <<c, s, d>> \in marks => Marked(s, d)' \/ HasRow(s, d)'

LEMMA GiveUpNotes ==
    ASSUME NEW marks, LostKnows, GiveUp(marks)
    PROVE  Noted(marks)
BY GiveUpMarks DEF Noted

LEMMA BecauseIs ==
    ASSUME NEW cause \in Causes, NEW days, days \subseteq Series(table) \X Int
    PROVE  /\ Because(cause, days) \subseteq Marks(table)
           /\ \A s, d : <<s, d>> \in days => <<cause, s, d>> \in Because(cause, days)
<1>1. ASSUME NEW m \in Because(cause, days) PROVE m \in Marks(table)
  <2>1. PICK x \in days : m = <<cause, x[1], x[2]>>
    BY DEF Because
  <2>2. x[1] \in Series(table) /\ x[2] \in Int
    OBVIOUS
  <2> QED
    BY <2>1, <2>2 DEF Marks
<1>2. ASSUME NEW s, NEW d, <<s, d>> \in days PROVE <<cause, s, d>> \in Because(cause, days)
  <2>1. PICK x \in days : x = <<s, d>>
    BY <1>2
  <2>2. <<cause, x[1], x[2]>> \in Because(cause, days)
    BY DEF Because
  <2> QED
    BY <2>1, <2>2
<1> QED
  BY <1>1, <1>2

LEMMA MissedIs ==
    ASSUME NEW ok, NEW n \in Int
    PROVE  /\ Missed(ok, n) \subseteq Marks(table)
           /\ table # "v4_climatology" => \A s \in Series(table) \ ok :
                                             <<"collector", s, n>> \in Missed(ok, n)
<1>1. CASE table = "v4_climatology"
  BY <1>1 DEF Missed
<1>2. CASE table # "v4_climatology"
  <2>1. Missed(ok, n) = {<<"collector", s, n>> : s \in Series(table) \ ok}
    BY <1>2 DEF Missed
  <2>2. "collector" \in Causes
    BY DEF Causes
  <2>3. \A s \in Series(table) \ ok : <<"collector", s, n>> \in Missed(ok, n)
    BY <2>1
  <2>4. ASSUME NEW m \in Missed(ok, n) PROVE m \in Marks(table)
    <3>1. PICK s \in Series(table) \ ok : m = <<"collector", s, n>>
      BY <2>1
    <3> QED
      BY <2>2, <3>1 DEF Marks
  <2> QED
    BY <1>2, <2>3, <2>4
<1> QED
  BY <1>1, <1>2

\* The days of a request, and of what is left of a job.
LEMMA DaysAre ==
    ASSUME RecoveryAssumption, NEW j \in JobType, j.start <= j.end, NEW k \in 1..Tasks(j)
    PROVE  DaysOf(Task(j, k)) \subseteq Series(table) \X Int
<1>1. PICK s \in Series(table), from \in Int, to \in Int :
         s = Task(j, k).series /\ from = Task(j, k).from /\ to = Task(j, k).to
  BY TaskIs
<1>2. DaysOf(Task(j, k)) = {<<s, d>> : d \in Larger(from, 0)..to}
  BY <1>1 DEF DaysOf
<1>3. \A d \in Larger(from, 0)..to : d \in Int
  BY DEF Larger
<1> QED
  BY SMTT(30), <1>2, <1>3

LEMMA RemainingAre ==
    ASSUME RecoveryAssumption, NEW j \in JobType, j.start <= j.end, j.next \in 1..(Tasks(j) + 1)
    PROVE  Remaining(j) \subseteq Series(table) \X Int
<1>1. ASSUME NEW x \in Remaining(j) PROVE x \in Series(table) \X Int
  <2>1. PICK k \in j.next..Tasks(j) : x \in DaysOf(Task(j, k))
    BY DEF Remaining
  <2>2. k \in 1..Tasks(j)
    BY SMTT(30), TasksAreMany
  <2> QED
    BY <2>1, <2>2, DaysAre
<1> QED
  BY <1>1

\* A job that has asked for everything leaves nothing.
LEMMA NothingRemains ==
    ASSUME NEW j, j.next \in Nat, Tasks(j) \in Nat, AtEnd(j)
    PROVE  Remaining(j) = {}
BY DEF AtEnd, Remaining

LEMMA BehindIs ==
    ASSUME RecoveryAssumption, RowsKnow
    PROVE  /\ Behind \subseteq Marks(table)
           /\ table # "v4_climatology" =>
                \A s \in Series(table), r \in rows : \A d \in 0..r.day :
                   LatestOf(s) = NoDay \/ d > LatestOf(s) => <<"behind", s, d>> \in Behind
<1>1. CASE Latest = NoDay \/ table = "v4_climatology"
  <2>1. Behind = {}
    BY <1>1 DEF Behind
  <2>2. table # "v4_climatology" => \A r \in rows : FALSE
    BY <1>1, LatestIs, Constants
  <2> QED
    BY <2>1, <2>2
<1>2. CASE ~(Latest = NoDay \/ table = "v4_climatology")
  <2>1. PICK n \in Nat : n = Latest
    BY <1>2, LatestIs
  <2>2. Behind = {<<"behind", s, d>> : s \in Series(table), d \in 0..n} \cap
                 {<<"behind", x[1], x[2]>> : x \in
                    {y \in Series(table) \X (0..n) :
                       LatestOf(y[1]) = NoDay \/ y[2] > LatestOf(y[1])}}
    BY <1>2, <2>1 DEF Behind
  <2>3. "behind" \in Causes
    BY DEF Causes
  <2>4. ASSUME NEW m \in Behind PROVE m \in Marks(table)
    <3>1. PICK s \in Series(table), d \in 0..n : m = <<"behind", s, d>>
      BY <2>2
    <3> QED
      BY <2>3, <3>1 DEF Marks
  <2>5. ASSUME NEW s \in Series(table), NEW r \in rows, NEW d \in 0..r.day,
               LatestOf(s) = NoDay \/ d > LatestOf(s)
        PROVE  <<"behind", s, d>> \in Behind
    <3>1. r.day <= n /\ r.day \in Int
      BY SMTT(30), <2>1, LatestIs, RowFields DEF RowsKnow, RowOk
    <3>2. d \in 0..n
      BY SMTT(30), <3>1
    <3>3. PICK y \in Series(table) \X (0..n) : y = <<s, d>>
      BY <3>2
    <3>4. y[1] = s /\ y[2] = d
      BY <3>3
    <3>5. y \in {z \in Series(table) \X (0..n) :
                   LatestOf(z[1]) = NoDay \/ z[2] > LatestOf(z[1])}
      BY <2>5, <3>4
    <3>6. <<"behind", y[1], y[2]>> \in Behind
      BY SMTT(30), <2>2, <3>2, <3>4, <3>5
    <3> QED
      BY <3>4, <3>6
  <2> QED
    BY <2>4, <2>5
<1> QED
  BY <1>1, <1>2

\* What is known of a running job.
LEMMA RunningJob ==
    ASSUME RecoveryAssumption, JobKnows, ~Idle
    PROVE  /\ job \in JobType /\ up # "down" /\ job.start <= job.end /\ job.end <= now
           /\ job.phase # "deep" => job.start < job.end
           /\ job.next \in Nat /\ job.next >= 1 /\ job.next <= Tasks(job) + 1
           /\ Tasks(job) \in Nat
           /\ job.start \in Int /\ job.end \in Int
           /\ Remaining(job) \subseteq Series(table) \X Int
<1>1. /\ job \in JobType /\ up # "down" /\ job.start <= job.end /\ job.end <= now
      /\ job.phase # "deep" => job.start < job.end
      /\ job.next \in 1..(Tasks(job) + 1)
  BY DEF JobKnows
<1>2. PICK t \in Nat : t = Tasks(job)
  BY <1>1, TasksAreMany
<1>3. job.next \in 1..(t + 1)
  BY <1>1, <1>2
<1>4. job.next \in Nat /\ job.next >= 1 /\ job.next <= t + 1
  BY SMTT(30), <1>3
<1>5. Remaining(job) \subseteq Series(table) \X Int
  BY <1>1, RemainingAre
<1> QED
  BY <1>1, <1>2, <1>4, <1>5, JobFields

LEMMA KilledIs ==
    ASSUME RecoveryAssumption, JobKnows
    PROVE  /\ Killed \subseteq Marks(table)
           /\ \A s, d : Due(s, d) => <<"killed", s, d>> \in Killed
<1>1. CASE Idle
  BY <1>1 DEF Killed, Due
<1>2. CASE ~Idle
  <2>1. Killed = Because("killed", Remaining(job))
    BY <1>2 DEF Killed
  <2>2. Remaining(job) \subseteq Series(table) \X Int
    BY <1>2, RunningJob
  <2>3. "killed" \in Causes
    BY DEF Causes
  <2> QED
    BY <2>1, <2>2, <2>3, BecauseIs DEF Due
<1> QED
  BY <1>1, <1>2

LEMMA CutOffIs ==
    ASSUME NEW n \in Int, n = now, NEW latest, latest = NoDay \/ latest \in Int,
           NEW cap \in Nat
    PROVE  /\ CutOff(latest, cap) \subseteq Marks(table)
           /\ \A s \in Series(table), d \in Int :
                 /\ latest = NoDay => 1 <= d
                 /\ latest # NoDay => latest < d
                 /\ d < n - cap
                 => <<"capped", s, d>> \in CutOff(latest, cap)
<1>1. PICK low \in Int : low = IF latest = NoDay THEN 1 ELSE latest + 1
  OBVIOUS
<1>2. PICK high \in Int : high = now - cap - 1
  OBVIOUS
<1>3. PICK days : days = Series(table) \X (low..high)
  OBVIOUS
<1>4. CutOff(latest, cap) = Because("capped", days)
  BY <1>1, <1>2, <1>3 DEF CutOff
<1>5. days \subseteq Series(table) \X Int
  BY <1>3
<1>6. "capped" \in Causes
  BY DEF Causes
<1>7. ASSUME NEW s \in Series(table), NEW d \in Int, latest = NoDay => 1 <= d,
             latest # NoDay => latest < d, d < n - cap
      PROVE  <<s, d>> \in days
  <2>1. low <= d
    BY <1>1, <1>7
  <2>2. d <= high
    BY <1>2, <1>7
  <2> QED
    BY <1>3, <2>1, <2>2
<1>8. /\ CutOff(latest, cap) \subseteq Marks(table)
      /\ \A s, d : <<s, d>> \in days => <<"capped", s, d>> \in CutOff(latest, cap)
  BY <1>4, <1>5, <1>6, BecauseIs
<1> QED
  BY <1>7, <1>8

-----------------------------------------------------------------------------
(* What a step keeps of each part of the invariant.                        *)

\* What a job still has to ask for stays asked for, or is known.
DueKept == \A s, d : Due(s, d) => Due(s, d)' \/ Known(s, d)'

Keeps == Later /\ KeepsRows /\ KeepsMarks /\ DueKept

LEMMA DueStays ==
    ASSUME job' = job
    PROVE  DueKept
BY DEF DueKept, Due, Idle

LEMMA DueKilled ==
    ASSUME RecoveryAssumption, JobKnows, NEW marks, Killed \subseteq marks, Noted(marks)
    PROVE  DueKept
<1>1. ASSUME NEW s, NEW d, Due(s, d) PROVE Known(s, d)'
  <2>1. <<"killed", s, d>> \in marks
    BY <1>1, KilledIs
  <2>2. "killed" \in Causes
    BY DEF Causes
  <2>3. Marked(s, d)' \/ HasRow(s, d)'
    BY <2>1, <2>2 DEF Noted
  <2> QED
    BY <2>3 DEF Known
<1> QED
  BY <1>1 DEF DueKept

LEMMA FutureStays ==
    ASSUME RecoveryAssumption, Later, KeepsRows, FutureFilled, RowsKnow',
           \A r \in rows' : \/ r \in rows \/ r.day <= now'
                            \/ \A d \in now'..r.day : HasRow(r.series, d)'
    PROVE  FutureFilled'
<1>1. PICK m \in Int, n \in Int : m = now /\ n = now' /\ m <= n
  BY DEF Later
<1>2. PICK a \in Nat : a = Retain
  BY Constants
<1>3. ASSUME NEW r \in rows', NEW d \in n..r.day PROVE HasRow(r.series, d)'
  <2>1. r.day \in Int
    BY RowFields DEF RowsKnow, RowOk
  <2>2. d \in Int /\ n <= d /\ d <= r.day
    BY <2>1
  <2>3. CASE r \in rows
    <3>1. d \in m..r.day
      BY SMTT(30), <1>1, <2>1, <2>2
    <3>2. HasRow(r.series, d)
      BY <1>1, <2>3, <3>1 DEF FutureFilled
    <3>3. ~(d < m - a)
      BY SMTT(30), <1>1, <2>2
    <3> QED
      BY <1>1, <1>2, <3>2, <3>3 DEF KeepsRows
  <2>4. CASE r.day <= n
    <3>1. d = r.day
      BY SMTT(30), <2>1, <2>2, <2>4
    <3> QED
      BY <3>1 DEF HasRow
  <2>5. CASE \A e \in n..r.day : HasRow(r.series, e)'
    BY <2>5
  <2> QED
    BY <1>1, <2>3, <2>4, <2>5
<1> QED
  BY <1>1, <1>3 DEF FutureFilled

\* Neither the day nor the container changes.
LEMMA SamePhase ==
    ASSUME RecoveryAssumption, Keeps, now' = now, up' = up, up # "down",
           ServingKnows, BootingKnows
    PROVE  ServingKnows' /\ DownKnows' /\ BootingKnows'
<1>1. PICK n \in Int : n = now /\ n = now'
  BY DEF Keeps, Later
<1>2. table' = table /\ Series(table') = Series(table)
  BY DEF Keeps, Later
<1>3. ServingKnows'
  <2>1. SUFFICES ASSUME up' = "serving", table' # "v4_climatology",
                        NEW s \in Series(table), NEW d \in 1..n
                 PROVE  Known(s, d)'
    BY <1>1, <1>2 DEF ServingKnows
  <2>2. Known(s, d)
    BY <1>1, <1>2, <2>1 DEF ServingKnows
  <2> QED
    BY <2>2, KnownKept DEF Keeps
<1>4. BootingKnows'
  <2>1. SUFFICES ASSUME up' = "booting", table' # "v4_climatology",
                        NEW s \in Series(table), NEW d \in 1..(n - 1)
                 PROVE  Known(s, d)' \/ Due(s, d)'
    BY <1>1, <1>2 DEF BootingKnows
  <2>2. Known(s, d) \/ Due(s, d)
    BY <1>1, <1>2, <2>1 DEF BootingKnows
  <2>3. CASE Known(s, d)
    BY <2>3, KnownKept DEF Keeps
  <2>4. CASE Due(s, d)
    BY <2>4 DEF Keeps, DueKept
  <2> QED
    BY <2>2, <2>3, <2>4
<1>5. DownKnows'
  BY DEF DownKnows
<1> QED
  BY <1>3, <1>4, <1>5

\* The climatology knows of a day as long as its job does.
LEMMA ClimStays ==
    ASSUME RecoveryAssumption, Keeps, ClimKnows, RowsKnow', JobKnows, JobKnows',
           ~Idle' => ~Idle /\ job'.ser = job.ser /\ job'.end = job.end,
           \A r \in rows' : \/ r \in rows
                            \/ ~Idle /\ r.series = job.ser[1] /\ r.day <= job.end
    PROVE  ClimKnows'
<1>0. PICK s1 : s1 = job.ser[1]
  OBVIOUS
<1>1. SUFFICES ASSUME table = "v4_climatology"
               PROVE  /\ \A r \in rows' : \A d \in 1..r.day :
                           Known(r.series, d)' \/ Due(r.series, d)'
                      /\ ~Idle' => \A d \in 1..(job.end) : Known(s1, d)' \/ Due(s1, d)'
  BY <1>0 DEF ClimKnows, Keeps, Later
<1>2. ASSUME NEW s, NEW d \in Int, Known(s, d) \/ Due(s, d)
      PROVE  Known(s, d)' \/ Due(s, d)'
  <2>1. CASE Known(s, d)
    BY <2>1, KnownKept DEF Keeps
  <2>2. CASE Due(s, d)
    BY <2>2 DEF Keeps, DueKept
  <2> QED
    BY <1>2, <2>1, <2>2
<1>3. ASSUME ~Idle, NEW d \in 1..(job.end)
      PROVE  Known(s1, d)' \/ Due(s1, d)'
  <2>1. Known(s1, d) \/ Due(s1, d)
    BY <1>0, <1>1, <1>3 DEF ClimKnows
  <2>2. job.end \in Int
    BY <1>3, RunningJob
  <2>3. d \in Int
    BY <2>2
  <2> QED
    BY <1>2, <2>1, <2>3
<1>4. ASSUME NEW r \in rows', NEW d \in 1..r.day
      PROVE  Known(r.series, d)' \/ Due(r.series, d)'
  <2>1. r.day \in Int
    BY RowFields DEF RowsKnow, RowOk
  <2>2. d \in Int /\ 1 <= d /\ d <= r.day
    BY <2>1
  <2>3. CASE r \in rows
    <3>1. Known(r.series, d) \/ Due(r.series, d)
      BY <1>1, <2>3 DEF ClimKnows
    <3> QED
      BY <1>2, <2>2, <3>1
  <2>4. CASE ~Idle /\ r.series = job.ser[1] /\ r.day <= job.end
    <3>1. PICK e \in Int : e = job.end
      BY <2>4, RunningJob
    <3>2. d \in 1..e
      BY SMTT(30), <2>1, <2>2, <2>4, <3>1
    <3> QED
      BY <1>0, <1>3, <2>4, <3>1, <3>2
  <2> QED
    BY <2>3, <2>4
<1> QED
  BY <1>3, <1>4

\* The running job goes on.
LEMMA JobGoesOn ==
    ASSUME RecoveryAssumption, table \in Tables, JobKnows, ~Idle,
           table' = table, now' = now, up' = up, NEW j \in JobType, job' = j,
           j.ser = job.ser, j.start = job.start, j.end = job.end,
           j.phase = "deep" <=> job.phase = "deep",
           j.next \in Nat, j.next >= 1, j.next <= Tasks(job) + 1,
           j.phase = "forecasts_first" => j.next = 1
    PROVE  JobKnows' /\ ~Idle'
<1>1. ~Idle'
  BY JobIsOne DEF Idle
<1>2. job' \in JobType'
  BY DEF JobType
<1>3. Tasks(job') = Tasks(job) /\ Tasks(job) \in Nat
  BY RunningJob, SameTasks
<1>4. job'.next \in 1..(Tasks(job') + 1)
  BY <1>3
<1>5. /\ job.start <= job.end /\ job.end <= now /\ up # "down"
      /\ job.phase # "deep" => job.start < job.end
      /\ table # "v4_climatology" =>
            \A s \in Series(table) : \E i \in 1..Len(job.ser) : job.ser[i] = s
      /\ table = "v4_climatology" => Len(job.ser) = 1
  BY DEF JobKnows
<1> QED
  BY SMTT(30), <1>1, <1>2, <1>4, <1>5 DEF JobKnows

\* What was fetched is kept by an UPSERT.
LEMMA KeptStored ==
    ASSUME NEW new, rows' = Stored(new), table' = table
    PROVE  /\ \A s, d : Kept(s, d) => Kept(s, d)'
           /\ \A n \in new : (table = "forecast_runs" => n.src = Exempt) =>
                                Kept(n.series, n.day)'
<1>1. ASSUME NEW s, NEW d, Kept(s, d) PROVE Kept(s, d)'
  <2>1. PICK r \in rows : r.series = s /\ r.day = d /\ (table = "forecast_runs" => r.src = Exempt)
    BY <1>1 DEF Kept
  <2>2. PICK q \in rows' : Key(q) = Key(r)
    BY StoredKeeps
  <2> QED
    BY <2>1, <2>2 DEF Kept, Key
<1>2. ASSUME NEW n \in new, table = "forecast_runs" => n.src = Exempt
      PROVE  Kept(n.series, n.day)'
  <2>1. PICK q \in rows' : Key(q) = Key(n)
    BY StoredKeeps
  <2> QED
    BY <1>2, <2>1 DEF Kept, Key
<1> QED
  BY <1>1, <1>2

LEMMA KeptSame ==
    ASSUME rows' = rows, table' = table
    PROVE  \A s, d : Kept(s, d) => Kept(s, d)'
BY DEF Kept

\* A job that has asked for nothing yet, or none, owes nothing.
LEMMA CleanAnew ==
    ASSUME Idle' \/ job'.next = 1
    PROVE  CleanSoFar'
<1>1. SUFFICES ASSUME job'.next = 1 PROVE CleanSoFar'
  BY DEF CleanSoFar, Requested
<1>2. \A k \in 1..(job'.next - 1) : FALSE
  BY <1>1
<1> QED
  BY <1>2 DEF CleanSoFar

LEMMA CleanGoesOn ==
    ASSUME CleanSoFar, table' = table, \A s, d : Kept(s, d) => Kept(s, d)',
           job'.ser = job.ser, job'.start = job.start, job'.end = job.end,
           job'.phase = "deep" <=> job.phase = "deep",
           (Requested /\ job.clean)' => Requested /\ job.clean,
           \A k \in 1..(job'.next - 1) :
              \/ k \in 1..(job.next - 1)
              \/ \A x \in DaysOf(Task(job, k)) : Kept(x[1], x[2])'
    PROVE  CleanSoFar'
<1>1. SUFFICES ASSUME (Requested /\ job.clean)', NEW k \in 1..(job'.next - 1),
                      NEW x \in DaysOf(Task(job', k))
               PROVE  Kept(x[1], x[2])'
  BY DEF CleanSoFar
<1>2. Task(job', k) = Task(job, k)
  BY SameTasks
<1>3. CASE k \in 1..(job.next - 1)
  BY <1>1, <1>2, <1>3 DEF CleanSoFar
<1>4. CASE \A y \in DaysOf(Task(job, k)) : Kept(y[1], y[2])'
  BY <1>1, <1>2, <1>4
<1> QED
  BY <1>1, <1>3, <1>4

\* One step of the invariant that stores nothing: what a job step or a command
\* has to show.
LEMMA QuietStep ==
    ASSUME RecoveryAssumption, ArchiveInv, Keeps, LostKnows', JobKnows', CleanSoFar',
           UNCHANGED <<table, now, up, rows>>, up # "down", report' \in {"none", "current"},
           ~Idle' => ~Idle /\ job'.ser = job.ser /\ job'.end = job.end
    PROVE  ArchiveInv'
<1>1. RowsKnow'
  BY RowsStay DEF ArchiveInv, Keeps
<1>2. FutureFilled'
  BY <1>1, FutureStays DEF ArchiveInv, Keeps
<1>3. ServingKnows' /\ DownKnows' /\ BootingKnows'
  BY SamePhase DEF ArchiveInv
<1>4. ClimKnows'
  BY <1>1, ClimStays DEF ArchiveInv
<1> QED
  BY <1>1, <1>2, <1>3, <1>4 DEF ArchiveInv

LEMMA LaterSame ==
    ASSUME ArchiveInv, table' = table, now' = now
    PROVE  Later
BY DEF ArchiveInv, Later
-----------------------------------------------------------------------------
(* The steps of a job.                                                     *)

LEMMA ForecastsDoneKeeps ==
    ASSUME RecoveryAssumption, ArchiveInv, ForecastsDone
    PROVE  ArchiveInv'
<1>1. /\ ~Idle /\ job.phase = "forecasts_first" /\ job' = [job EXCEPT !.phase = "era5"]
      /\ UNCHANGED <<table, now, up, rows, report, lost, faults>>
  BY DEF ForecastsDone
<1>2. /\ job \in JobType /\ up # "down" /\ job.next \in Nat /\ job.next >= 1
      /\ job.next <= Tasks(job) + 1
  BY <1>1, RunningJob DEF ArchiveInv
<1>3. table = "observations"
  BY <1>1, <1>2, JobFields, PhaseIs DEF ArchiveInv, Tables
<1>4. PICK j : j = [job EXCEPT !.phase = "era5"]
  OBVIOUS
<1>5. "era5" \in PhasesOf(table)
  BY <1>3 DEF PhasesOf
<1>6. j \in JobType
  BY <1>2, <1>4, <1>5 DEF JobType
<1>7. /\ j.ser = job.ser /\ j.start = job.start /\ j.end = job.end /\ j.next = job.next
      /\ j.phase = "era5"
  BY <1>2, <1>4 DEF JobType
<1>8. JobKnows' /\ ~Idle'
  BY <1>1, <1>2, <1>4, <1>6, <1>7, JobGoesOn DEF ArchiveInv
<1>9. DueKept
  <2>1. Remaining(job') = Remaining(job)
    BY <1>1, <1>4, <1>7, SameRemaining
  <2> QED
    BY <1>8, <2>1 DEF DueKept, Due
<1>10. Keeps /\ LostKnows'
  BY <1>1, <1>9, LaterSame, SameRowsKeep, SameMarksKeep DEF ArchiveInv, Keeps
<1>11. CleanSoFar'
  <2>1. job.next = 1
    BY <1>1 DEF ArchiveInv, JobKnows
  <2> QED
    BY <1>1, <1>4, <1>7, <2>1, CleanAnew
<1>12. report' \in {"none", "current"}
  BY <1>1 DEF ArchiveInv
<1> QED
  BY <1>1, <1>2, <1>4, <1>7, <1>8, <1>10, <1>11, <1>12, QuietStep

\* The job of a request that is given up, and of one that is asked again.
LEMMA SkipKeeps ==
    ASSUME RecoveryAssumption, ArchiveInv, Requesting, Skip
    PROVE  ArchiveInv'
<1>1. /\ ~Idle /\ job.phase # "forecasts_first" /\ job.next <= Tasks(job)
      /\ job' = [job EXCEPT !.next = @ + 1, !.tries = 0, !.clean = FALSE]
      /\ UNCHANGED <<table, now, up, rows, report>>
      /\ GiveUp(Because("failed", DaysOf(Task(job, job.next))))
  <2>1. ~Idle /\ job.phase # "forecasts_first" /\ ~AtEnd(job)
    BY DEF Requesting, Requested
  <2>2. job.next \in Nat /\ Tasks(job) \in Nat
    BY <2>1, RunningJob DEF ArchiveInv
  <2>3. job.next <= Tasks(job)
    BY SMTT(30), <2>1, <2>2 DEF AtEnd
  <2> QED
    BY <2>1, <2>3 DEF Skip
<1>2. /\ job \in JobType /\ up # "down" /\ job.next \in Nat /\ job.next >= 1
      /\ Tasks(job) \in Nat /\ job.start <= job.end
  BY <1>1, RunningJob DEF ArchiveInv
<1>3. PICK j : j = [job EXCEPT !.next = @ + 1, !.tries = 0, !.clean = FALSE]
  OBVIOUS
<1>4. /\ j.ser = job.ser /\ j.start = job.start /\ j.end = job.end /\ j.next = job.next + 1
      /\ j.phase = job.phase /\ j.clean = FALSE
  BY <1>2, <1>3 DEF JobType
<1>5. j \in JobType
  <2>1. 0 \in 0..Retries /\ job.next + 1 \in Nat
    BY SMTT(30), <1>2, Constants
  <2> QED
    BY <1>2, <1>3, <2>1 DEF JobType
<1>6. j.next \in Nat /\ j.next >= 1 /\ j.next <= Tasks(job) + 1
  BY SMTT(30), <1>1, <1>2, <1>4
<1>7. JobKnows' /\ ~Idle'
  BY <1>1, <1>2, <1>3, <1>4, <1>5, <1>6, JobGoesOn DEF ArchiveInv
<1>8. PICK days : days = DaysOf(Task(job, job.next))
  OBVIOUS
<1>9. days \subseteq Series(table) \X Int
  <2>1. job.next \in 1..Tasks(job)
    BY <1>1, <1>2
  <2> QED
    BY <1>2, <1>8, <2>1, DaysAre
<1>10. "failed" \in Causes
  BY DEF Causes
<1>11. PICK marks : marks = Because("failed", days)
  OBVIOUS
<1>12. marks \subseteq Marks(table) /\ \A s, d : <<s, d>> \in days => <<"failed", s, d>> \in marks
  BY <1>9, <1>10, <1>11, BecauseIs
<1>13. GiveUp(marks)
  BY <1>1, <1>8, <1>11
<1>14. DueKept
  <2>1. SUFFICES ASSUME NEW s, NEW d, Due(s, d) PROVE Due(s, d)' \/ Known(s, d)'
    BY DEF DueKept
  <2>2. <<s, d>> \in Remaining(job)
    BY <2>1 DEF Due
  <2>3. <<s, d>> \in days \/ <<s, d>> \in Remaining(j)
    BY <1>2, <1>4, <1>8, <2>2, Advance
  <2>4. CASE <<s, d>> \in days
    <3>1. Noted(marks)
      BY <1>13, GiveUpNotes DEF ArchiveInv
    <3>2. Marked(s, d)' \/ HasRow(s, d)'
      BY <1>10, <1>12, <2>4, <3>1 DEF Noted
    <3> QED
      BY <3>2 DEF Known
  <2>5. CASE <<s, d>> \in Remaining(j)
    BY <1>1, <1>3, <1>7, <2>5 DEF Due
  <2> QED
    BY <2>3, <2>4, <2>5
<1>15. Keeps /\ LostKnows'
  BY <1>1, <1>12, <1>13, <1>14, LaterSame, SameRowsKeep, GiveUpKeeps DEF ArchiveInv, Keeps
<1>16. CleanSoFar'
  BY <1>1, <1>3, <1>4 DEF CleanSoFar
<1>17. report' \in {"none", "current"}
  BY <1>1 DEF ArchiveInv
<1> QED
  BY <1>1, <1>2, <1>3, <1>4, <1>7, <1>15, <1>16, <1>17, QuietStep

LEMMA EmptyKeeps ==
    ASSUME RecoveryAssumption, ArchiveInv, Empty
    PROVE  ArchiveInv'
BY SkipKeeps DEF Empty

LEMMA RefusedKeeps ==
    ASSUME RecoveryAssumption, ArchiveInv, Refused
    PROVE  ArchiveInv'
<1>1. CASE job.phase # "deep" /\ job.tries < Retries
  <2>1. /\ ~Idle /\ job.phase # "forecasts_first"
        /\ job' = [job EXCEPT !.tries = @ + 1]
        /\ UNCHANGED <<table, now, up, rows, report, lost>>
    BY <1>1 DEF Refused, Requesting, Requested
  <2>2. /\ job \in JobType /\ up # "down" /\ job.next \in Nat /\ job.next >= 1
        /\ job.next <= Tasks(job) + 1
    BY <2>1, RunningJob DEF ArchiveInv
  <2>3. PICK j : j = [job EXCEPT !.tries = @ + 1]
    OBVIOUS
  <2>4. job.tries + 1 \in 0..Retries
    BY SMTT(30), <1>1, <2>2, JobFields, Constants
  <2>5. j \in JobType
    BY <2>2, <2>3, <2>4 DEF JobType
  <2>6. /\ j.ser = job.ser /\ j.start = job.start /\ j.end = job.end /\ j.next = job.next
        /\ j.phase = job.phase /\ j.clean = job.clean
    BY <2>2, <2>3 DEF JobType
  <2>7. JobKnows' /\ ~Idle'
    BY <2>1, <2>2, <2>3, <2>5, <2>6, JobGoesOn DEF ArchiveInv
  <2>8. DueKept
    <3>1. Remaining(job') = Remaining(job)
      BY <2>1, <2>3, <2>6, SameRemaining
    <3> QED
      BY <2>7, <3>1 DEF DueKept, Due
  <2>9. Keeps /\ LostKnows'
    BY <2>1, <2>8, LaterSame, SameRowsKeep, SameMarksKeep DEF ArchiveInv, Keeps
  <2>10. CleanSoFar'
    <3>1. \A s, d : Kept(s, d) => Kept(s, d)'
      BY <2>1, KeptSame
    <3>2. (Requested /\ job.clean)' => Requested /\ job.clean
      BY <2>1, <2>3, <2>6 DEF Requested
    <3>3. \A k \in 1..(job'.next - 1) : k \in 1..(job.next - 1)
      BY <2>1, <2>3, <2>6
    <3> QED
      BY <2>1, <2>3, <2>6, <3>1, <3>2, <3>3, CleanGoesOn DEF ArchiveInv
  <2>11. report' \in {"none", "current"}
    BY <2>1 DEF ArchiveInv
  <2> QED
    BY <2>1, <2>2, <2>3, <2>6, <2>7, <2>9, <2>10, <2>11, QuietStep
<1>2. CASE ~(job.phase # "deep" /\ job.tries < Retries)
  BY <1>2, SkipKeeps DEF Refused
<1> QED
  BY <1>1, <1>2

LEMMA PhaseEndsKeeps ==
    ASSUME RecoveryAssumption, ArchiveInv, PhaseEnds
    PROVE  ArchiveInv'
<1>1. /\ ~Idle /\ AtEnd(job) /\ UNCHANGED <<table, now, up, rows, report, lost, faults>>
  BY DEF PhaseEnds, Requested
<1>2. /\ job \in JobType /\ up # "down" /\ job.next \in Nat /\ Tasks(job) \in Nat
  BY <1>1, RunningJob DEF ArchiveInv
<1>3. DueKept
  <2>1. Remaining(job) = {}
    BY <1>1, <1>2, NothingRemains
  <2> QED
    BY <2>1 DEF DueKept, Due
<1>4. Keeps /\ LostKnows'
  BY <1>1, <1>3, LaterSame, SameRowsKeep, SameMarksKeep DEF ArchiveInv, Keeps
<1>5. report' \in {"none", "current"}
  BY <1>1 DEF ArchiveInv
<1>6. CASE job.phase = "previous_runs_api" /\ job.total = 0
  <2>1. job' = [job EXCEPT !.phase = "historical_forecast_api", !.next = 1, !.clean = TRUE]
    BY <1>6 DEF PhaseEnds
  <2>2. PICK j : j = [job EXCEPT !.phase = "historical_forecast_api", !.next = 1,
                                 !.clean = TRUE]
    OBVIOUS
  <2>3. table = "forecast_runs"
    BY <1>2, <1>6, JobFields, PhaseIs DEF ArchiveInv, Tables
  <2>4. "historical_forecast_api" \in PhasesOf(table)
    BY <2>3 DEF PhasesOf
  <2>5. j \in JobType
    BY <1>2, <2>2, <2>4 DEF JobType
  <2>6. /\ j.ser = job.ser /\ j.start = job.start /\ j.end = job.end /\ j.next = 1
        /\ j.phase = "historical_forecast_api"
    BY <1>2, <2>2 DEF JobType
  <2>7. /\ j.next \in Nat /\ j.next >= 1 /\ j.next <= Tasks(job) + 1
        /\ j.phase = "deep" <=> job.phase = "deep"
        /\ j.phase # "forecasts_first"
    <3>1. PICK t \in Nat : t = Tasks(job)
      BY <1>2
    <3>2. j.next \in Nat /\ j.next >= 1 /\ j.next <= t + 1
      BY <2>6
    <3> QED
      BY <1>6, <2>6, <3>1, <3>2
  <2>8. JobKnows' /\ ~Idle'
    BY <1>1, <1>6, <2>1, <2>2, <2>5, <2>6, <2>7, JobGoesOn DEF ArchiveInv
  <2>9. CleanSoFar'
    BY <2>1, <2>2, <2>6, CleanAnew
  <2> QED
    BY <1>1, <1>2, <1>4, <1>5, <2>1, <2>2, <2>6, <2>8, <2>9, QuietStep
<1>7. CASE ~(job.phase = "previous_runs_api" /\ job.total = 0)
  <2>1. Idle'
    BY <1>7 DEF PhaseEnds, Idle
  <2>2. JobKnows' /\ CleanSoFar'
    BY <2>1, CleanAnew DEF JobKnows
  <2> QED
    BY <1>1, <1>2, <1>4, <1>5, <2>1, <2>2, QuietStep
<1> QED
  BY <1>6, <1>7

\* An answered request: its days are stored.
LEMMA AnsweredKeeps ==
    ASSUME RecoveryAssumption, ArchiveInv, Answered
    PROVE  ArchiveInv'
<1>1. /\ ~Idle /\ job.phase # "forecasts_first" /\ job.next <= Tasks(job)
      /\ rows' = Stored(Answer(job, Task(job, job.next)))
      /\ job' = [job EXCEPT !.next = @ + 1, !.tries = 0, !.total = @ + 1]
      /\ UNCHANGED <<table, now, up, report, faults>>
      /\ GiveUp({})
  <2>1. ~Idle /\ job.phase # "forecasts_first" /\ ~AtEnd(job)
    BY DEF Answered, Requesting, Requested
  <2>2. job.next \in Nat /\ Tasks(job) \in Nat
    BY <2>1, RunningJob DEF ArchiveInv
  <2>3. job.next <= Tasks(job)
    BY SMTT(30), <2>1, <2>2 DEF AtEnd
  <2> QED
    BY <2>1, <2>3 DEF Answered
<1>2. /\ job \in JobType /\ up # "down" /\ job.next \in Nat /\ job.next >= 1
      /\ Tasks(job) \in Nat /\ job.start <= job.end /\ job.end <= now
      /\ job.end \in Int
  BY <1>1, RunningJob DEF ArchiveInv
<1>3. PICK j : j = [job EXCEPT !.next = @ + 1, !.tries = 0, !.total = @ + 1]
  OBVIOUS
<1>4. /\ j.ser = job.ser /\ j.start = job.start /\ j.end = job.end /\ j.next = job.next + 1
      /\ j.phase = job.phase /\ j.clean = job.clean
  BY <1>2, <1>3 DEF JobType
<1>5. j \in JobType
  <2>1. 0 \in 0..Retries /\ job.next + 1 \in Nat /\ job.total + 1 \in Nat
    <3>1. 0 \in 0..Retries
      BY Constants
    <3>2. PICK m \in Nat, n \in Nat : m = job.next /\ n = job.total
      BY <1>2, JobFields
    <3>3. m + 1 \in Nat /\ n + 1 \in Nat
      OBVIOUS
    <3> QED
      BY <3>1, <3>2, <3>3
  <2> QED
    BY <1>2, <1>3, <2>1 DEF JobType
<1>6. j.next \in Nat /\ j.next >= 1 /\ j.next <= Tasks(job) + 1
  <2>1. job.next <= Tasks(job)
    BY <1>1
  <2>2. PICK m \in Nat, n \in Nat : m = job.next /\ n = Tasks(job) /\ m <= n
    BY <1>2, <2>1
  <2>3. m + 1 \in Nat /\ m + 1 >= 1 /\ m + 1 <= n + 1
    BY SMTT(30), <2>2
  <2>4. j.next = m + 1
    BY <1>4, <2>2
  <2> QED
    BY <2>2, <2>3, <2>4
<1>7. JobKnows' /\ ~Idle'
  BY <1>1, <1>2, <1>3, <1>4, <1>5, <1>6, JobGoesOn DEF ArchiveInv
<1>8. PICK k \in 1..Tasks(job) : k = job.next
  BY <1>1, <1>2
<1>9. PICK task : task = Task(job, k)
  OBVIOUS
<1>10. PICK new : new = Answer(job, task)
  OBVIOUS
<1>11. rows' = Stored(new)
  BY <1>1, <1>8, <1>9, <1>10
<1>12. Fills(table, now, task, new)
  BY <1>1, <1>2, <1>9, <1>10, AnswerFills DEF ArchiveInv
<1>13. RowsKnow'
  <2>1. \A r \in new : FreshRow(table, now', r)
    BY <1>1, <1>12 DEF Fills
  <2> QED
    BY <1>1, <1>11, <2>1, LaterSame, RowsStep DEF ArchiveInv
<1>14. task.to \in Int /\ task.to <= job.end
       /\ task.series \in Series(table)
       /\ \E i \in 1..Len(job.ser) : task.series = job.ser[i]
  BY <1>2, <1>9, TaskIs
<1>15. DueKept
  <2>1. SUFFICES ASSUME NEW s, NEW d, Due(s, d) PROVE Due(s, d)' \/ Known(s, d)'
    BY DEF DueKept
  <2>2. <<s, d>> \in Remaining(job)
    BY <2>1 DEF Due
  <2>3. <<s, d>> \in DaysOf(task) \/ <<s, d>> \in Remaining(j)
    BY <1>2, <1>4, <1>8, <1>9, <2>2, Advance
  <2>4. CASE <<s, d>> \in DaysOf(task)
    <3>1. PICK r \in new : r.series = s /\ r.day = d
      BY <1>12, <2>4 DEF Fills
    <3>2. HasRow(s, d)'
      BY <1>11, <3>1, StoredHas
    <3> QED
      BY <3>2 DEF Known
  <2>5. CASE <<s, d>> \in Remaining(j)
    BY <1>1, <1>3, <1>7, <2>5 DEF Due
  <2> QED
    BY <2>3, <2>4, <2>5
<1>16. Keeps /\ LostKnows'
  <2>1. {} \subseteq Marks(table)
    OBVIOUS
  <2> QED
    BY <1>1, <1>11, <1>15, <2>1, LaterSame, StoreKeeps, GiveUpKeeps DEF ArchiveInv, Keeps
<1>17. \A r \in new : r.day \in Int /\ r.series = task.series /\ r.day <= job.end
                      /\ r.day <= now'
  <2>1. SUFFICES ASSUME NEW r \in new
                 PROVE  r.day \in Int /\ r.series = task.series /\ r.day <= job.end
                        /\ r.day <= now'
    OBVIOUS
  <2>2. FreshRow(table, now, r) /\ r.series = task.series /\ r.day <= task.to
    BY <1>12 DEF Fills
  <2>3. r.day \in Int
    BY <2>2, RowFields DEF FreshRow, RowOk
  <2>4. now \in Int /\ now' = now
    BY <1>1 DEF ArchiveInv
  <2>5. PICK e \in Int : e = job.end /\ e <= now /\ task.to <= e
    BY <1>2, <1>14
  <2>6. PICK d \in Int, m \in Int, n \in Int :
           d = r.day /\ m = task.to /\ n = now /\ d <= m /\ m <= e /\ e <= n
    BY <1>14, <2>2, <2>3, <2>4, <2>5
  <2>7. d <= e /\ d <= n
    BY <2>6, InOrder
  <2> QED
    BY <2>2, <2>4, <2>5, <2>6, <2>7
<1>18. FutureFilled'
  <2>1. \A r \in rows' : r \in rows \/ r.day <= now'
    BY <1>11, <1>17, StoredKeeps
  <2> QED
    BY <1>13, <1>16, <2>1, FutureStays DEF ArchiveInv, Keeps
<1>19. ServingKnows' /\ DownKnows' /\ BootingKnows'
  BY <1>1, <1>2, <1>16, SamePhase DEF ArchiveInv
<1>20. ClimKnows'
  <2>1. CASE table = "v4_climatology"
    <3>1. task.series = job.ser[1]
      <4>1. Len(job.ser) = 1
        BY <1>1, <2>1 DEF ArchiveInv, JobKnows
      <4> QED
        BY <1>14, <4>1
    <3>2. \A r \in rows' : r \in rows \/ (~Idle /\ r.series = job.ser[1] /\ r.day <= job.end)
      BY <1>1, <1>11, <1>17, <3>1, StoredKeeps
    <3> QED
      BY <1>1, <1>3, <1>4, <1>7, <1>13, <1>16, <3>2, ClimStays DEF ArchiveInv
  <2>2. CASE table # "v4_climatology"
    BY <1>1, <2>2 DEF ClimKnows
  <2> QED
    BY <2>1, <2>2
<1>21. CleanSoFar'
  <2>1. \A s, d : Kept(s, d) => Kept(s, d)'
    BY <1>1, <1>11, KeptStored
  <2>2. (Requested /\ job.clean)' => Requested /\ job.clean
    BY <1>1, <1>3, <1>4 DEF Requested
  <2>3. \A x \in DaysOf(Task(job, job.next)) : Kept(x[1], x[2])'
    <3>1. SUFFICES ASSUME NEW x \in DaysOf(task) PROVE Kept(x[1], x[2])'
      BY <1>8, <1>9
    <3>2. PICK r \in new : /\ r.series = x[1] /\ r.day = x[2]
                           /\ table = "forecast_runs" => r.src = Exempt
      BY <1>12 DEF Fills
    <3>3. Kept(r.series, r.day)'
      BY <1>1, <1>11, <3>2, KeptStored
    <3> QED
      BY <3>2, <3>3
  <2>4. \A m \in 1..(job'.next - 1) : m \in 1..(job.next - 1) \/ m = job.next
    BY SMTT(30), <1>1, <1>2, <1>3, <1>4
  <2> QED
    BY <1>1, <1>3, <1>4, <2>1, <2>2, <2>3, <2>4, CleanGoesOn DEF ArchiveInv
<1> QED
  BY <1>1, <1>7, <1>13, <1>16, <1>18, <1>19, <1>20, <1>21 DEF ArchiveInv

-----------------------------------------------------------------------------
(* The passes of the collectors.                                           *)

\* A pass stores its day, and gives up the series that did not answer.
LEMMA CollectedDay ==
    ASSUME RecoveryAssumption, ArchiveInv, Idle, job' = job, table' = table,
           NEW n \in 0..LastDay, n = now', now <= n,
           NEW ok \in SUBSET Series(table), NEW st \in StationRows(n),
           rows' = Stored(LiveRows(ok, n) \cup st), GiveUp(Missed(ok, n))
    PROVE  /\ Keeps /\ RowsKnow' /\ LostKnows' /\ FutureFilled'
           /\ table # "v4_climatology" => \A s \in Series(table) : Known(s, n)'
           /\ table = "v4_climatology" => \A r \in rows' : r \in rows
<1>1. PICK new : new = LiveRows(ok, n) \cup st
  OBVIOUS
<1>2. rows' = Stored(new)
  BY <1>1
<1>3. Later
  BY DEF Later, ArchiveInv
<1>4. PICK marks : marks = Missed(ok, n)
  OBVIOUS
<1>5. GiveUp(marks) /\ marks \subseteq Marks(table)
  BY <1>4, MissedIs
<1>6. KeepsMarks /\ LostKnows'
  BY <1>5, GiveUpKeeps DEF ArchiveInv
<1>7. Keeps
  BY <1>2, <1>3, <1>6, StoreKeeps, DueStays DEF Keeps
<1>8. ASSUME NEW r \in new PROVE FreshRow(table, n, r) /\ Ahead(n, r, new)
  <2>1. CASE r \in st
    BY <2>1, StationRowsFresh DEF ArchiveInv, Ahead
  <2>2. CASE r \in LiveRows(ok, n)
    <3>1. FreshRow(table, n, r) /\ Ahead(n, r, LiveRows(ok, n))
      BY <2>2, LiveRowsFresh DEF ArchiveInv
    <3>2. \A s, d : HasDay(LiveRows(ok, n), s, d) => HasDay(new, s, d)
      BY <1>1 DEF HasDay
    <3> QED
      BY <3>1, <3>2 DEF Ahead
  <2> QED
    BY <1>1, <2>1, <2>2
<1>9. RowsKnow'
  BY <1>2, <1>3, <1>8, RowsStep DEF ArchiveInv
<1>10. FutureFilled'
  <2>1. ASSUME NEW r \in rows'
        PROVE  \/ r \in rows \/ r.day <= now'
               \/ \A d \in now'..r.day : HasRow(r.series, d)'
    <3>1. CASE r \in new
      <4>1. CASE r.day <= n
        BY <4>1
      <4>2. CASE \A d \in n..r.day : HasDay(new, r.series, d)
        <5>1. ASSUME NEW d \in n..r.day PROVE HasRow(r.series, d)'
          <6>1. PICK q \in new : q.series = r.series /\ q.day = d
            BY <4>2 DEF HasDay
          <6>2. HasRow(q.series, q.day)'
            BY <1>2, StoredHas
          <6> QED
            BY <6>1, <6>2
        <5> QED
          BY <5>1
      <4> QED
        BY <1>8, <3>1, <4>1, <4>2 DEF Ahead
    <3> QED
      BY <1>2, <3>1, StoredKeeps
  <2> QED
    BY <1>3, <1>7, <1>9, <2>1, FutureStays DEF ArchiveInv, Keeps
<1>11. ASSUME table # "v4_climatology", NEW s \in Series(table) PROVE Known(s, n)'
  <2>1. CASE s \in ok
    <3>0. HasDay(LiveRows(ok, n), s, n)
      BY <1>11, <2>1, LiveRowsHave DEF ArchiveInv
    <3>1. PICK r \in new : r.series = s /\ r.day = n
      BY <1>1, <3>0 DEF HasDay
    <3>2. HasRow(r.series, r.day)'
      BY <1>2, StoredHas
    <3> QED
      BY <3>1, <3>2 DEF Known
  <2>2. CASE s \notin ok
    <3>1. <<"collector", s, n>> \in marks
      BY SMTT(30), <1>4, <1>11, <2>2, MissedIs
    <3>2. Noted(marks)
      BY <1>5, GiveUpNotes DEF ArchiveInv
    <3>3. "collector" \in Causes
      BY DEF Causes
    <3>4. Marked(s, n)' \/ HasRow(s, n)'
      BY <3>1, <3>2, <3>3 DEF Noted
    <3> QED
      BY <3>4 DEF Known
  <2> QED
    BY <2>1, <2>2
<1>12. ASSUME table = "v4_climatology" PROVE \A r \in rows' : r \in rows
  <2>1. LiveRows(ok, n) = {}
    BY <1>12, LiveRowsAre DEF ArchiveInv
  <2>2. st = {}
    BY <1>12 DEF StationRows
  <2> QED
    BY <1>1, <1>2, <2>1, <2>2, StoredKeeps
<1> QED
  BY <1>6, <1>7, <1>9, <1>10, <1>11, <1>12

LEMMA CollectDayKeeps ==
    ASSUME RecoveryAssumption, ArchiveInv, CollectDay
    PROVE  ArchiveInv'
<1>1. /\ up = "serving" /\ Idle /\ now < LastDay /\ now' = now + 1 /\ report' = "none"
      /\ UNCHANGED <<table, up, job>>
  BY DEF CollectDay
<1>2. PICK m \in Int, n \in 0..LastDay : m = now /\ n = now' /\ n = m + 1
  BY <1>1, Constants DEF ArchiveInv
<1>3. PICK ok \in SUBSET Series(table), st \in StationRows(n) :
         rows' = Stored(LiveRows(ok, n) \cup st) /\ GiveUp(Missed(ok, n))
  BY <1>1, <1>2 DEF CollectDay
<1>4. m <= n
  BY <1>2
<1>5. /\ Keeps /\ RowsKnow' /\ LostKnows' /\ FutureFilled'
      /\ table # "v4_climatology" => \A s \in Series(table) : Known(s, n)'
      /\ table = "v4_climatology" => \A r \in rows' : r \in rows
  BY <1>1, <1>2, <1>3, <1>4, CollectedDay
<1>6. Idle'
  BY <1>1 DEF Idle
<1>7. JobKnows' /\ CleanSoFar'
  BY <1>6, CleanAnew DEF JobKnows
<1>8. ServingKnows'
  <2>1. SUFFICES ASSUME table # "v4_climatology", NEW s \in Series(table), NEW d \in 1..n
                 PROVE  Known(s, d)'
    BY <1>1, <1>2 DEF ServingKnows
  <2>2. CASE d = n
    BY <1>5, <2>1, <2>2
  <2>3. CASE d # n
    <3>1. d \in 1..m
      BY <1>2, <2>3
    <3>2. Known(s, d)
      BY <1>1, <1>2, <2>1, <3>1 DEF ArchiveInv, ServingKnows
    <3> QED
      BY <1>5, <3>2, KnownKept DEF Keeps
  <2> QED
    BY <2>2, <2>3
<1>9. DownKnows' /\ BootingKnows'
  BY <1>1 DEF DownKnows, BootingKnows
<1>10. ClimKnows'
  <2>1. CASE table = "v4_climatology"
    BY <1>5, <1>6, <1>7, <2>1, ClimStays DEF ArchiveInv
  <2>2. CASE table # "v4_climatology"
    BY <1>1, <2>2 DEF ClimKnows
  <2> QED
    BY <2>1, <2>2
<1> QED
  BY <1>1, <1>2, <1>5, <1>7, <1>8, <1>9, <1>10 DEF ArchiveInv

LEMMA StartServicesKeeps ==
    ASSUME RecoveryAssumption, ArchiveInv, StartServices
    PROVE  ArchiveInv'
<1>1. /\ up = "booting" /\ Idle /\ up' = "serving" /\ UNCHANGED <<table, now, job, report>>
  BY DEF StartServices
<1>2. PICK n \in 0..LastDay : n = now /\ n = now'
  BY <1>1 DEF ArchiveInv
<1>3. PICK ok \in SUBSET Series(table), st \in StationRows(n) :
         rows' = Stored(LiveRows(ok, n) \cup st) /\ GiveUp(Missed(ok, n))
  BY <1>2 DEF StartServices
<1>4. n <= n
  OBVIOUS
<1>5. /\ Keeps /\ RowsKnow' /\ LostKnows' /\ FutureFilled'
      /\ table # "v4_climatology" => \A s \in Series(table) : Known(s, n)'
      /\ table = "v4_climatology" => \A r \in rows' : r \in rows
  BY <1>1, <1>2, <1>3, <1>4, CollectedDay
<1>6. Idle'
  BY <1>1 DEF Idle
<1>7. JobKnows' /\ CleanSoFar'
  BY <1>6, CleanAnew DEF JobKnows
<1>8. ServingKnows'
  <2>1. SUFFICES ASSUME table # "v4_climatology", NEW s \in Series(table), NEW d \in 1..n
                 PROVE  Known(s, d)'
    BY <1>1, <1>2 DEF ServingKnows
  <2>2. CASE d = n
    BY <1>5, <2>1, <2>2
  <2>3. CASE d # n
    <3>1. d \in 1..(n - 1)
      BY SMTT(30), <2>3
    <3>2. Known(s, d)
      BY <1>1, <1>2, <2>1, <3>1 DEF ArchiveInv, BootingKnows, Due
    <3> QED
      BY <1>5, <3>2, KnownKept DEF Keeps
  <2> QED
    BY <2>2, <2>3
<1>9. DownKnows' /\ BootingKnows'
  BY <1>1 DEF DownKnows, BootingKnows
<1>10. ClimKnows'
  <2>1. CASE table = "v4_climatology"
    BY <1>5, <1>6, <1>7, <2>1, ClimStays DEF ArchiveInv
  <2>2. CASE table # "v4_climatology"
    BY <1>1, <2>2 DEF ClimKnows
  <2> QED
    BY <2>1, <2>2
<1> QED
  BY <1>1, <1>2, <1>5, <1>7, <1>8, <1>9, <1>10 DEF ArchiveInv

-----------------------------------------------------------------------------
(* Outages, restarts and the nightly retention.                            *)

LEMMA RetentionKeeps ==
    ASSUME RecoveryAssumption, ArchiveInv, Retention
    PROVE  ArchiveInv'
<1>1. /\ up = "serving" /\ table = "forecast_runs"
      /\ rows' = {r \in rows : r.day >= now - Retain \/ r.src = Exempt}
      /\ UNCHANGED <<table, now, up, job, report, lost, faults>>
  BY DEF Retention
<1>2. KeepsRows
  <2>1. SUFFICES ASSUME NEW s, NEW d, HasRow(s, d), ~HasRow(s, d)'
                 PROVE  d < now - Retain
    BY <1>1 DEF KeepsRows
  <2>2. PICK r \in rows : r.series = s /\ r.day = d
    BY <2>1 DEF HasRow
  <2>3. ~(d >= now - Retain)
    BY <1>1, <2>1, <2>2 DEF HasRow
  <2>4. PICK x \in Int, y \in Int : x = d /\ y = now - Retain
    BY SMTT(30), <2>2, RowFields, Constants DEF ArchiveInv, RowsKnow, RowOk
  <2>5. x < y
    BY <2>3, <2>4
  <2> QED
    BY <2>4, <2>5
<1>3. Keeps /\ LostKnows'
  BY <1>1, <1>2, LaterSame, SameMarksKeep, DueStays DEF ArchiveInv, Keeps
<1>4. RowsKnow'
  BY <1>1, <1>3, RowsStay DEF ArchiveInv, Keeps
<1>5. FutureFilled'
  BY <1>1, <1>3, <1>4, FutureStays DEF ArchiveInv, Keeps
<1>6. ServingKnows' /\ DownKnows' /\ BootingKnows'
  BY <1>1, <1>3, SamePhase DEF ArchiveInv
<1>7. JobKnows'
  BY <1>1 DEF ArchiveInv, JobKnows, Idle, JobType
<1>8. ClimKnows'
  BY <1>1 DEF ClimKnows
<1>9. CleanSoFar'
  <2>1. ASSUME NEW s, NEW d, Kept(s, d) PROVE Kept(s, d)'
    BY <1>1, <2>1 DEF Kept
  <2> QED
    BY <1>1, <2>1, CleanGoesOn DEF ArchiveInv, Requested, Idle
<1> QED
  BY <1>1, <1>3, <1>4, <1>5, <1>6, <1>7, <1>8, <1>9 DEF ArchiveInv

LEMMA DayDownKeeps ==
    ASSUME RecoveryAssumption, ArchiveInv, DayDown
    PROVE  ArchiveInv'
<1>1. /\ up = "down" /\ now < LastDay /\ now' = now + 1
      /\ UNCHANGED <<table, up, rows, job, report, lost, faults>>
  BY DEF DayDown
<1>2. now \in Int /\ now' \in 0..LastDay /\ now <= now'
  BY <1>1, Constants DEF ArchiveInv
<1>3. Keeps /\ LostKnows'
  BY <1>1, <1>2, SameRowsKeep, SameMarksKeep, DueStays DEF ArchiveInv, Keeps, Later
<1>4. RowsKnow'
  BY <1>1, <1>3, RowsStay DEF ArchiveInv, Keeps
<1>5. FutureFilled'
  BY <1>1, <1>3, <1>4, FutureStays DEF ArchiveInv, Keeps
<1>6. Idle /\ Idle'
  BY <1>1 DEF ArchiveInv, JobKnows, Idle
<1>7. JobKnows' /\ CleanSoFar'
  BY <1>6, CleanAnew DEF JobKnows
<1>8. ServingKnows' /\ BootingKnows'
  BY <1>1 DEF ServingKnows, BootingKnows
<1>9. DownKnows'
  <2>1. SUFFICES ASSUME table # "v4_climatology", NEW s \in Series(table),
                        NEW r \in rows, NEW d \in 1..r.day
                 PROVE  Known(s, d)'
    BY <1>1 DEF DownKnows
  <2>2. Known(s, d)
    BY <1>1, <2>1 DEF ArchiveInv, DownKnows
  <2>3. r.day \in Int
    BY RowFields DEF ArchiveInv, RowsKnow, RowOk
  <2>4. d \in Int
    BY <2>3
  <2> QED
    BY <1>3, <2>2, <2>4, KnownKept DEF Keeps
<1>10. ClimKnows'
  BY <1>1, <1>3, <1>4, <1>6, <1>7, ClimStays DEF ArchiveInv
<1> QED
  BY <1>1, <1>2, <1>3, <1>4, <1>5, <1>7, <1>8, <1>9, <1>10 DEF ArchiveInv

\* A job that is killed leaves a cause for every day it had not asked for.
LEMMA JobKilled ==
    ASSUME RecoveryAssumption, ArchiveInv, UNCHANGED <<table, now, rows>>, job' = NoJob,
           NEW marks, Killed \subseteq marks, marks \subseteq Marks(table), GiveUp(marks)
    PROVE  /\ Keeps /\ LostKnows' /\ Noted(marks) /\ Idle'
           /\ RowsKnow' /\ FutureFilled' /\ JobKnows' /\ ClimKnows' /\ CleanSoFar'
<1>1. Noted(marks) /\ KeepsMarks /\ LostKnows'
  BY GiveUpNotes, GiveUpKeeps DEF ArchiveInv
<1>2. DueKept
  BY <1>1, DueKilled DEF ArchiveInv
<1>3. Keeps
  BY <1>1, <1>2, LaterSame, SameRowsKeep DEF Keeps
<1>4. Idle'
  BY DEF Idle
<1>5. JobKnows' /\ CleanSoFar'
  BY <1>4, CleanAnew DEF JobKnows
<1>6. RowsKnow'
  BY <1>3, RowsStay DEF ArchiveInv, Keeps
<1>7. FutureFilled'
  BY <1>3, <1>6, FutureStays DEF ArchiveInv, Keeps
<1>8. ClimKnows'
  BY <1>3, <1>4, <1>5, <1>6, ClimStays DEF ArchiveInv
<1> QED
  BY <1>1, <1>3, <1>4, <1>5, <1>6, <1>7, <1>8

LEMMA BootTimeoutKeeps ==
    ASSUME RecoveryAssumption, ArchiveInv, BootTimeout
    PROVE  ArchiveInv'
<1>1. /\ up = "booting" /\ job' = NoJob /\ UNCHANGED <<table, now, up, rows, report>>
      /\ GiveUp(Killed)
  BY DEF BootTimeout
<1>2. Killed \subseteq Marks(table) /\ Killed \subseteq Killed
  BY KilledIs DEF ArchiveInv
<1>3. /\ Keeps /\ LostKnows' /\ Idle'
      /\ RowsKnow' /\ FutureFilled' /\ JobKnows' /\ ClimKnows' /\ CleanSoFar'
  BY <1>1, <1>2, JobKilled
<1>4. report' \in {"none", "current"}
  BY <1>1 DEF ArchiveInv
<1> QED
  BY <1>1, <1>3, <1>4, QuietStep

\* When the power goes, every day up to the newest row is stored or has a
\* cause, for a series that had fallen behind as for one that was being filled.
LEMMA PowerCutKeeps ==
    ASSUME RecoveryAssumption, ArchiveInv, PowerCut
    PROVE  ArchiveInv'
<1>1. /\ up # "down" /\ up' = "down" /\ job' = NoJob /\ report' = "none"
      /\ UNCHANGED <<table, now, rows>>
      /\ GiveUp(Behind \cup Killed)
  BY DEF PowerCut
<1>2. PICK marks : marks = Behind \cup Killed
  OBVIOUS
<1>3. GiveUp(marks) /\ Killed \subseteq marks /\ marks \subseteq Marks(table)
  BY <1>1, <1>2, KilledIs, BehindIs DEF ArchiveInv
<1>4. /\ Keeps /\ LostKnows' /\ Noted(marks) /\ Idle'
      /\ RowsKnow' /\ FutureFilled' /\ JobKnows' /\ ClimKnows' /\ CleanSoFar'
  BY <1>1, <1>3, JobKilled
<1>5. PICK n \in Int : n = now
  BY DEF ArchiveInv
<1>6. ASSUME table # "v4_climatology", NEW s \in Series(table), NEW r \in rows,
             NEW d \in 1..r.day
      PROVE  Known(s, d)'
  <2>1. r.day \in Int
    BY RowFields DEF ArchiveInv, RowsKnow, RowOk
  <2>2. d \in Int /\ d \in 0..r.day /\ d \in Nat
    BY <2>1
  <2>3. CASE d < n
    <3>1. d \in 1..n /\ d \in 1..(n - 1)
      BY <2>2, <2>3
    <3>2. Known(s, d) \/ Due(s, d)
      <4>1. CASE up = "serving"
        BY <1>5, <1>6, <3>1, <4>1 DEF ArchiveInv, ServingKnows
      <4>2. CASE up = "booting"
        BY <1>5, <1>6, <3>1, <4>2 DEF ArchiveInv, BootingKnows
      <4> QED
        BY <1>1, <4>1, <4>2 DEF ArchiveInv
    <3>3. CASE Known(s, d)
      BY <1>4, <2>2, <3>3, KnownKept DEF Keeps
    <3>4. CASE Due(s, d)
      BY <1>4, <3>4 DEF Keeps, DueKept, Due
    <3> QED
      BY <3>2, <3>3, <3>4
  <2>4. CASE ~(d < n)
    <3>1. CASE LatestOf(s) = NoDay \/ d > LatestOf(s)
      <4>1. <<"behind", s, d>> \in Behind
        BY <1>6, <2>2, <3>1, BehindIs DEF ArchiveInv
      <4>2. "behind" \in Causes
        BY DEF Causes
      <4>3. Marked(s, d)' \/ HasRow(s, d)'
        BY <1>2, <1>4, <4>1, <4>2 DEF Noted
      <4> QED
        BY <4>3 DEF Known
    <3>2. CASE ~(LatestOf(s) = NoDay \/ d > LatestOf(s))
      <4>1. PICK m \in Nat : m = LatestOf(s) /\ HasRow(s, m)
        BY <3>2, LatestOfIs DEF ArchiveInv
      <4>2. PICK q \in rows : q.series = s /\ q.day = m
        BY <4>1 DEF HasRow
      <4>3. d \in n..m
        BY <2>2, <2>4, <3>2, <4>1
      <4>4. HasRow(s, d)
        BY <1>5, <4>2, <4>3 DEF ArchiveInv, FutureFilled
      <4>5. HasRow(s, d)'
        BY <1>1, <4>4 DEF HasRow
      <4> QED
        BY <4>5 DEF Known
    <3> QED
      BY <3>1, <3>2
  <2> QED
    BY <2>3, <2>4
<1>7. DownKnows'
  BY <1>1, <1>6 DEF DownKnows
<1>8. ServingKnows' /\ BootingKnows'
  BY <1>1 DEF ServingKnows, BootingKnows
<1> QED
  BY <1>1, <1>4, <1>7, <1>8 DEF ArchiveInv

-----------------------------------------------------------------------------
(* Recoveries and backfills that start.                                    *)

\* The job that starts asks for every day from a to b.
AsksFor(a, b) ==
  \A s \in Series(table), d \in Int : a <= d /\ d <= b /\ 0 <= d => Due(s, d)'

LEMMA JobAsks ==
    ASSUME RecoveryAssumption, table \in Tables, table' = table, NEW j \in JobType, job' = j,
           NEW a \in Int, NEW b \in Int, a <= b, j.start = a, j.end = b, j.next = 1,
           j.phase # "deep" => a < b,
           NEW i \in 1..Len(j.ser), NEW d \in Int, a <= d, d <= b, 0 <= d
    PROVE  Due(j.ser[i], d)'
<1>1. PICK k \in 1..Tasks(j) : <<j.ser[i], d>> \in DaysOf(Task(j, k))
  BY WindowCovered
<1>2. k \in j.next..Tasks(j)
  BY <1>1
<1>3. <<j.ser[i], d>> \in Remaining(j)
  BY <1>1, <1>2 DEF Remaining
<1>4. ~Idle'
  BY JobIsOne DEF Idle
<1> QED
  BY <1>3, <1>4 DEF Due

LEMMA JobStarts ==
    ASSUME RecoveryAssumption, table \in Tables, table # "v4_climatology", up' # "down",
           table' = table, NEW n \in Int, n = now', NEW kind \in {"boot", "manual", "window"},
           NEW a \in Int, NEW b \in Int, a < b, b <= n,
           job' = Job(kind, FirstPhase, Order(Series(table)), a, b)
    PROVE  JobKnows' /\ ~Idle' /\ CleanSoFar' /\ AsksFor(a, b)
<1>1. PICK ser : ser = Order(Series(table))
  OBVIOUS
<1>2. ser \in Seq(Series(table)) /\ \A s \in Series(table) : \E i \in 1..Len(ser) : ser[i] = s
  BY <1>1, SeriesFinite, Ordered
<1>3. FirstPhase \in PhasesOf(table) /\ FirstPhase # "deep"
  BY DEF FirstPhase, PhasesOf, Tables
<1>4. PICK j : j = Job(kind, FirstPhase, ser, a, b)
  OBVIOUS
<1>5. job' = j
  BY <1>1, <1>4
<1>6. /\ j \in JobType /\ j # NoJob /\ j.phase = FirstPhase /\ j.ser = ser
      /\ j.start = a /\ j.end = b /\ j.next = 1
  <2>1. kind \in {"boot", "manual", "window", "deep"}
    OBVIOUS
  <2> QED
    BY SMTT(30), <1>2, <1>3, <1>4, <2>1, JobMade
<1>7. a <= b
  OBVIOUS
<1>8. JobKnows'
  <2>1. job' \in JobType'
    BY <1>5, <1>6 DEF JobType
  <2>2. job'.next \in 1..(Tasks(job') + 1)
    <3>1. PICK t \in Nat : t = Tasks(j)
      BY <1>6, <1>7, TasksAreMany
    <3>2. 1 \in 1..(t + 1)
      OBVIOUS
    <3> QED
      BY <1>5, <1>6, <3>1, <3>2
  <2>3. job'.start <= job'.end /\ job'.end <= now' /\ job'.start < job'.end
    BY <1>5, <1>6, <1>7
  <2> QED
    BY <1>2, <1>5, <1>6, <2>1, <2>2, <2>3 DEF JobKnows
<1>9. ~Idle'
  BY <1>5, <1>6 DEF Idle
<1>10. CleanSoFar'
  BY <1>5, <1>6, CleanAnew
<1>11. AsksFor(a, b)
  <2>1. ASSUME NEW s \in Series(table), NEW d \in Int, a <= d, d <= b, 0 <= d
        PROVE  Due(s, d)'
    <3>1. PICK i \in 1..Len(ser) : ser[i] = s
      BY <1>2
    <3>2. Due(j.ser[i], d)'
      BY <1>5, <1>6, <1>7, <2>1, JobAsks
    <3> QED
      BY <1>6, <3>1, <3>2
  <2> QED
    BY <2>1 DEF AsksFor
<1> QED
  BY <1>8, <1>9, <1>10, <1>11

\* recover(): from the newest stored day, or the cap, to today.
LEMMA RecoverMakes ==
    ASSUME RecoveryAssumption, ArchiveInv, Idle, table # "v4_climatology", up' # "down",
           UNCHANGED <<table, now, rows>>,
           NEW kind \in {"boot", "manual"}, NEW latest, latest = NoDay \/ latest \in Int,
           NEW force, NEW cap \in Nat, Recover(kind, latest, force, cap),
           NEW n \in Int, n = now
    PROVE  /\ Keeps /\ LostKnows' /\ RowsKnow' /\ FutureFilled'
           /\ JobKnows' /\ CleanSoFar' /\ ClimKnows' /\ report' \in {"none", "current"}
           /\ (NeedsRecovery(latest) \/ force) /\ WindowStart(latest, cap) < n =>
                 AsksFor(WindowStart(latest, cap), n) /\ Noted(CutOff(latest, cap))
<1>1. PICK a \in Int : a = WindowStart(latest, cap)
  BY SMTT(30) DEF WindowStart, Larger
<1>2. DueKept
  BY DEF DueKept, Due
<1>3. Later /\ KeepsRows
  BY LaterSame, SameRowsKeep
<1>4. ClimKnows'
  BY DEF ClimKnows
<1>5. RowsKnow'
  BY <1>3, RowsStay DEF ArchiveInv
<1>6. FutureFilled'
  BY <1>3, <1>5, FutureStays DEF ArchiveInv
<1>7. CASE (NeedsRecovery(latest) \/ force) /\ WindowStart(latest, cap) < now
  <2>1. /\ job' = Job(kind, FirstPhase, Order(Series(table)), a, n)
        /\ GiveUp(CutOff(latest, cap)) /\ report' = "none" /\ a < n
    BY <1>1, <1>7 DEF Recover
  <2>2. CutOff(latest, cap) \subseteq Marks(table)
    BY CutOffIs
  <2>3. KeepsMarks /\ LostKnows' /\ Noted(CutOff(latest, cap))
    BY <2>1, <2>2, GiveUpKeeps, GiveUpNotes DEF ArchiveInv
  <2>4. n <= n /\ kind \in {"boot", "manual", "window"}
    OBVIOUS
  <2>5. JobKnows' /\ CleanSoFar' /\ AsksFor(a, n)
    BY <2>1, <2>4, JobStarts DEF ArchiveInv
  <2> QED
    BY <1>1, <1>2, <1>3, <1>4, <1>5, <1>6, <2>1, <2>3, <2>5 DEF Keeps
<1>8. CASE ~((NeedsRecovery(latest) \/ force) /\ WindowStart(latest, cap) < now)
  <2>1. UNCHANGED <<job, lost>> /\ report' = (IF kind = "manual" THEN "current" ELSE report)
    BY <1>8 DEF Recover
  <2>2. KeepsMarks /\ LostKnows'
    BY <2>1, SameMarksKeep DEF ArchiveInv
  <2>3. Idle'
    BY <2>1 DEF Idle
  <2>4. JobKnows' /\ CleanSoFar'
    BY <2>3, CleanAnew DEF JobKnows
  <2>5. report' \in {"none", "current"}
    BY <2>1 DEF ArchiveInv
  <2> QED
    BY <1>2, <1>3, <1>4, <1>5, <1>6, <1>8, <2>2, <2>4, <2>5 DEF Keeps
<1> QED
  BY <1>7, <1>8

LEMMA RecoverByHandKeeps ==
    ASSUME RecoveryAssumption, ArchiveInv, RecoverByHand
    PROVE  ArchiveInv'
<1>1. /\ up = "serving" /\ Idle /\ table # "v4_climatology"
      /\ UNCHANGED <<table, now, up, rows, faults>>
  BY DEF RecoverByHand
<1>2. PICK force \in BOOLEAN : Recover("manual", Latest, force, MaxDays)
  BY DEF RecoverByHand
<1>3. PICK n \in Int : n = now
  BY DEF ArchiveInv
<1>4. Latest = NoDay \/ Latest \in Int
  BY LatestIs DEF ArchiveInv
<1>5. /\ Keeps /\ LostKnows' /\ RowsKnow' /\ FutureFilled'
      /\ JobKnows' /\ CleanSoFar' /\ ClimKnows' /\ report' \in {"none", "current"}
  <2>1. MaxDays \in Nat
    BY Constants
  <2> QED
    BY <1>1, <1>2, <1>3, <1>4, <2>1, RecoverMakes
<1>6. ServingKnows' /\ DownKnows' /\ BootingKnows'
  BY <1>1, <1>5, SamePhase DEF ArchiveInv
<1> QED
  BY <1>1, <1>5, <1>6 DEF ArchiveInv

\* What an outage left out is asked for at the boot, or cut off by its cap.
LEMMA BootKeeps ==
    ASSUME RecoveryAssumption, ArchiveInv, Boot
    PROVE  ArchiveInv'
<1>1. up = "down" /\ up' = "booting" /\ UNCHANGED <<table, now, rows>>
  BY DEF Boot
<1>2. PICK n \in Int : n = now
  BY DEF ArchiveInv
<1>3. Idle
  BY <1>1 DEF ArchiveInv, JobKnows
<1>4. ServingKnows' /\ DownKnows'
  BY <1>1 DEF ServingKnows, DownKnows
<1>5. CASE table = "v4_climatology"
  <2>1. UNCHANGED <<job, report, lost, faults>>
    BY <1>5 DEF Boot
  <2>2. Keeps /\ LostKnows'
    BY <1>1, <2>1, LaterSame, SameRowsKeep, SameMarksKeep, DueStays DEF ArchiveInv, Keeps
  <2>3. RowsKnow'
    BY <1>1, <2>2, RowsStay DEF ArchiveInv, Keeps
  <2>4. FutureFilled'
    BY <1>1, <2>2, <2>3, FutureStays DEF ArchiveInv, Keeps
  <2>5. Idle'
    BY <1>3, <2>1 DEF Idle
  <2>6. JobKnows' /\ CleanSoFar'
    BY <2>5, CleanAnew DEF JobKnows
  <2>7. ClimKnows'
    BY <1>1, <2>2, <2>3, <2>5, <2>6, ClimStays DEF ArchiveInv
  <2>8. BootingKnows'
    BY <1>1, <1>5 DEF BootingKnows
  <2> QED
    BY <1>1, <1>4, <2>1, <2>2, <2>3, <2>4, <2>6, <2>7, <2>8 DEF ArchiveInv
<1>6. CASE table # "v4_climatology"
  <2>1. PICK readable \in BOOLEAN, other \in BOOLEAN, latest \in {Latest, NoDay} :
          /\ latest = (IF readable THEN Latest ELSE NoDay)
          /\ IF NeedsRecovery(latest) \/ other
             THEN Recover("boot", latest, TRUE, BootDays)
             ELSE UNCHANGED <<job, report, lost>>
    BY <1>6 DEF Boot
  <2>2. /\ latest = NoDay \/ latest \in Nat
        /\ latest # NoDay => \E r \in rows : r.day = latest
    BY <2>1, LatestIs DEF ArchiveInv
  <2>3. PICK cap \in Nat : cap = BootDays /\ cap > 0
    BY Constants
  <2>4. ASSUME Keeps, NEW s \in Series(table), NEW d \in 1..(n - 1),
               latest # NoDay, d <= latest
        PROVE  Known(s, d)'
    <3>1. PICK r \in rows : r.day = latest
      BY <2>2, <2>4
    <3>2. d \in 1..r.day
      BY <2>2, <2>4, <3>1
    <3>3. Known(s, d)
      BY <1>1, <1>6, <3>2 DEF ArchiveInv, DownKnows
    <3> QED
      BY <2>4, <3>3, KnownKept DEF Keeps
  <2>5. CASE NeedsRecovery(latest) \/ other
    <3>1. /\ Keeps /\ LostKnows' /\ RowsKnow' /\ FutureFilled'
          /\ JobKnows' /\ CleanSoFar' /\ ClimKnows' /\ report' \in {"none", "current"}
          /\ WindowStart(latest, cap) < n =>
                AsksFor(WindowStart(latest, cap), n) /\ Noted(CutOff(latest, cap))
      <4>1. latest = NoDay \/ latest \in Int
        BY <2>2
      <4>2. Recover("boot", latest, TRUE, cap)
        BY <2>1, <2>3, <2>5
      <4>3. up' # "down"
        BY <1>1
      <4> QED
        BY <1>1, <1>2, <1>3, <1>6, <4>1, <4>2, <4>3, RecoverMakes
    <3>2. ASSUME NEW s \in Series(table), NEW d \in 1..(n - 1)
          PROVE  Known(s, d)' \/ Due(s, d)'
      <4>1. CASE latest # NoDay /\ d <= latest
        BY <2>4, <3>1, <4>1
      <4>2. CASE ~(latest # NoDay /\ d <= latest)
        <5>1. WindowStart(latest, cap) \in Int /\ WindowStart(latest, cap) < n
          BY SMTT(30), <1>2, <2>2, <2>3, <4>2 DEF WindowStart, Larger
        <5>2. CASE d < n - cap
          <6>1. <<"capped", s, d>> \in CutOff(latest, cap)
            BY SMTT(30), <1>2, <2>2, <4>2, <5>2, CutOffIs
          <6>2. "capped" \in Causes
            BY DEF Causes
          <6>3. Marked(s, d)' \/ HasRow(s, d)'
            BY <3>1, <5>1, <6>1, <6>2 DEF Noted
          <6> QED
            BY <6>3 DEF Known
        <5>3. CASE ~(d < n - cap)
          <6>1. WindowStart(latest, cap) <= d
            BY SMTT(30), <1>2, <2>2, <4>2, <5>3 DEF WindowStart, Larger
          <6>2. d \in Int /\ d <= n /\ 0 <= d
            OBVIOUS
          <6>3. AsksFor(WindowStart(latest, cap), n)
            BY <3>1, <5>1
          <6>4. Due(s, d)'
            BY <6>1, <6>2, <6>3 DEF AsksFor
          <6> QED
            BY <6>4
        <5> QED
          BY <5>2, <5>3
      <4> QED
        BY <4>1, <4>2
    <3>3. BootingKnows'
      BY <1>1, <1>2, <3>2 DEF BootingKnows
    <3> QED
      BY <1>1, <1>4, <3>1, <3>3 DEF ArchiveInv
  <2>6. CASE ~(NeedsRecovery(latest) \/ other)
    <3>1. UNCHANGED <<job, report, lost>>
      BY <2>1, <2>6
    <3>2. latest \in Nat /\ n - latest < 2
      BY SMTT(30), <1>2, <2>2, <2>6 DEF NeedsRecovery
    <3>3. Keeps /\ LostKnows'
      BY <1>1, <3>1, LaterSame, SameRowsKeep, SameMarksKeep, DueStays DEF ArchiveInv, Keeps
    <3>4. RowsKnow'
      BY <1>1, <3>3, RowsStay DEF ArchiveInv, Keeps
    <3>5. FutureFilled'
      BY <1>1, <3>3, <3>4, FutureStays DEF ArchiveInv, Keeps
    <3>6. Idle'
      BY <1>3, <3>1 DEF Idle
    <3>7. JobKnows' /\ CleanSoFar'
      BY <3>6, CleanAnew DEF JobKnows
    <3>8. ClimKnows'
      BY <1>1, <1>6 DEF ClimKnows
    <3>9. ASSUME NEW s \in Series(table), NEW d \in 1..(n - 1) PROVE Known(s, d)'
      <4>1. d <= latest /\ latest # NoDay
        BY <3>2, Constants
      <4> QED
        BY <2>4, <3>3, <4>1
    <3>10. BootingKnows'
      BY <1>1, <1>2, <3>9 DEF BootingKnows
    <3> QED
      BY <1>1, <1>4, <3>1, <3>3, <3>4, <3>5, <3>7, <3>8, <3>10 DEF ArchiveInv
  <2> QED
    BY <2>5, <2>6
<1> QED
  BY <1>5, <1>6

\* A window the scan reported lies within the days before today.
LEMMA WindowIs ==
    ASSUME RecoveryAssumption, NEW n \in Int, n = now, NEW g \in Gaps
    PROVE  g[2] \in Int /\ g[3] \in Int /\ g[2] < g[3] /\ g[3] <= n
<1>1. PICK b \in Nat : b = Lookback
  BY Constants
<1>2. PICK p \in OpPoints : g \in {<<p, h[1], h[2]>> : h \in GapsOf(p)}
  BY DEF Gaps
<1>3. PICK h \in GapsOf(p) : g = <<p, h[1], h[2]>>
  BY <1>2
<1>4. \A d \in StoredDays(p) : d \in (n - b)..(n - 1)
  BY <1>1 DEF StoredDays
<1>5. h[1] \in StoredDays(p) /\ h[2] \in StoredDays(p) /\ h[2] > h[1] + 1
  BY DEF GapsOf
<1>6. PICK x \in (n - b)..(n - 1), y \in (n - b)..(n - 1) : x = h[1] /\ y = h[2]
  BY <1>4, <1>5
<1>7. y > x + 1
  BY <1>5, <1>6
<1>8. x \in Int /\ y \in Int /\ x < y /\ y <= n
  BY <1>7
<1>9. g[2] = x /\ g[3] = y
  BY <1>3, <1>6
<1> QED
  BY <1>8, <1>9

LEMMA RecoverWindowKeeps ==
    ASSUME RecoveryAssumption, ArchiveInv, RecoverWindow
    PROVE  ArchiveInv'
<1>1. /\ up = "serving" /\ Idle /\ table # "v4_climatology"
      /\ UNCHANGED <<table, now, up, rows, report, lost, faults>>
  BY DEF RecoverWindow
<1>2. PICK n \in Int : n = now
  BY DEF ArchiveInv
<1>3. \E a \in Int, b \in Int :
         a < b /\ b <= n /\ job' = Job("window", FirstPhase, Order(Series(table)), a, b)
  <2>1. CASE table = "forecast_runs"
    <3>1. PICK g \in Gaps : job' = Job("window", FirstPhase, Order(Series(table)), g[2], g[3])
      BY <2>1 DEF RecoverWindow
    <3>2. g[2] \in Int /\ g[3] \in Int /\ g[2] < g[3] /\ g[3] <= n
      BY <1>2, WindowIs
    <3> QED
      BY <3>1, <3>2
  <2>2. CASE table = "observations"
    <3>1. job' = Job("window", FirstPhase, Order(Series(table)), n - Lookback, n - 1)
      BY <1>2, <2>2 DEF RecoverWindow
    <3>2. n - Lookback \in Int /\ n - 1 \in Int /\ n - Lookback < n - 1 /\ n - 1 <= n
      BY SMTT(30), Constants
    <3> QED
      BY <3>1, <3>2
  <2> QED
    BY <1>1, <2>1, <2>2 DEF ArchiveInv, Tables
<1>4. PICK a \in Int, b \in Int :
         a < b /\ b <= n /\ job' = Job("window", FirstPhase, Order(Series(table)), a, b)
  BY <1>3
<1>5. JobKnows' /\ CleanSoFar'
  BY <1>1, <1>2, <1>4, JobStarts DEF ArchiveInv
<1>6. Keeps /\ LostKnows'
  BY <1>1, LaterSame, SameRowsKeep, SameMarksKeep DEF ArchiveInv, Keeps, DueKept, Due
<1>7. RowsKnow'
  BY <1>1, <1>6, RowsStay DEF ArchiveInv, Keeps
<1>8. FutureFilled'
  BY <1>1, <1>6, <1>7, FutureStays DEF ArchiveInv, Keeps
<1>9. ServingKnows' /\ DownKnows' /\ BootingKnows'
  BY <1>1, <1>6, SamePhase DEF ArchiveInv
<1>10. ClimKnows'
  BY <1>1 DEF ClimKnows
<1> QED
  BY <1>1, <1>5, <1>6, <1>7, <1>8, <1>9, <1>10 DEF ArchiveInv

\* From the day after its newest row, or from three years ago: what is older
\* was stored before, or is not kept.
LEMMA IncrementalBackfillKeeps ==
    ASSUME RecoveryAssumption, ArchiveInv, IncrementalBackfill
    PROVE  ArchiveInv'
<1>1. /\ up = "serving" /\ Idle /\ table = "v4_climatology"
      /\ UNCHANGED <<table, now, up, rows, report, lost, faults>>
  BY DEF IncrementalBackfill
<1>0. PICK s \in Series(table) :
        \E start : /\ start = (IF LatestOf(s) = NoDay THEN now - ClimDays ELSE LatestOf(s) + 1)
                   /\ job' = (IF start <= now THEN Job("deep", "deep", <<s>>, start, now)
                              ELSE NoJob)
  BY <1>1 DEF IncrementalBackfill
<1>2. PICK start :
        /\ start = (IF LatestOf(s) = NoDay THEN now - ClimDays ELSE LatestOf(s) + 1)
        /\ job' = (IF start <= now THEN Job("deep", "deep", <<s>>, start, now) ELSE NoJob)
  BY <1>0
<1>3. PICK n \in Int, a \in Nat : n = now /\ a = ClimDays
  BY Constants DEF ArchiveInv
<1>4. start \in Int
  <2>1. LatestOf(s) # NoDay => LatestOf(s) \in Nat
    BY LatestOfIs DEF ArchiveInv
  <2> QED
    BY SMTT(30), <1>2, <1>3, <2>1
<1>5. Keeps /\ LostKnows'
  BY <1>1, LaterSame, SameRowsKeep, SameMarksKeep DEF ArchiveInv, Keeps, DueKept, Due
<1>6. report' \in {"none", "current"} /\ up # "down"
  BY <1>1 DEF ArchiveInv
<1>7. CASE ~(start <= now)
  <2>1. Idle'
    BY <1>2, <1>7 DEF Idle
  <2>2. JobKnows' /\ CleanSoFar'
    BY <2>1, CleanAnew DEF JobKnows
  <2> QED
    BY <1>1, <1>5, <1>6, <2>1, <2>2, QuietStep
<1>8. CASE start <= now
  <2>1. PICK j : j = Job("deep", "deep", <<s>>, start, n)
    OBVIOUS
  <2>2. job' = j
    BY <1>2, <1>3, <1>8, <2>1
  <2>3. /\ j \in JobType /\ j # NoJob /\ j.phase = "deep" /\ j.ser = <<s>>
        /\ j.start = start /\ j.end = n /\ j.next = 1
    <3>1. "deep" \in PhasesOf(table) /\ <<s>> \in Seq(Series(table))
      BY <1>1 DEF PhasesOf
    <3>2. "deep" \in {"boot", "manual", "window", "deep"} /\ table \in Tables
      BY DEF ArchiveInv
    <3>3. PICK ser \in Seq(Series(table)) : ser = <<s>>
      BY <3>1
    <3>4. j = Job("deep", "deep", ser, start, n)
      BY <2>1, <3>3
    <3>5. /\ Job("deep", "deep", ser, start, n) \in JobType
          /\ Job("deep", "deep", ser, start, n) # NoJob
          /\ Job("deep", "deep", ser, start, n).phase = "deep"
          /\ Job("deep", "deep", ser, start, n).ser = ser
          /\ Job("deep", "deep", ser, start, n).start = start
          /\ Job("deep", "deep", ser, start, n).end = n
          /\ Job("deep", "deep", ser, start, n).next = 1
      BY SMTT(30), <1>4, <3>1, <3>2, JobMade
    <3> QED
      BY <3>3, <3>4, <3>5
  <2>4. start <= n
    BY <1>3, <1>8
  <2>5. ~Idle' /\ CleanSoFar'
    BY <2>2, <2>3, CleanAnew DEF Idle
  <2>6. JobKnows'
    <3>1. job' \in JobType'
      BY <1>1, <2>2, <2>3 DEF JobType
    <3>2. job'.next \in 1..(Tasks(job') + 1)
      <4>1. PICK t \in Nat : t = Tasks(j)
        BY <2>3, <2>4, TasksAreMany
      <4>2. 1 \in 1..(t + 1)
        OBVIOUS
      <4> QED
        BY <2>2, <2>3, <4>1, <4>2
    <3>3. job'.start <= job'.end /\ job'.end <= now'
      BY <1>1, <1>3, <2>2, <2>3, <2>4
    <3>4. Len(job'.ser) = 1
      BY <2>2, <2>3
    <3> QED
      BY <1>1, <2>2, <2>3, <3>1, <3>2, <3>3, <3>4 DEF JobKnows
  <2>7. RowsKnow'
    BY <1>1, <1>5, RowsStay DEF ArchiveInv, Keeps
  <2>8. FutureFilled'
    BY <1>1, <1>5, <2>7, FutureStays DEF ArchiveInv, Keeps
  <2>9. ServingKnows' /\ DownKnows' /\ BootingKnows'
    BY <1>1, <1>5, <1>6, SamePhase DEF ArchiveInv
  <2>10. ASSUME NEW r \in rows, NEW d \in 1..r.day PROVE Known(r.series, d)'
    <3>1. Known(r.series, d)
      BY <1>1 DEF ArchiveInv, ClimKnows, Due
    <3>2. r.day \in Int
      BY RowFields DEF ArchiveInv, RowsKnow, RowOk
    <3>3. d \in Int
      BY <3>2
    <3> QED
      BY <1>5, <3>1, <3>3, KnownKept DEF Keeps
  <2>11. ASSUME NEW d \in 1..n PROVE Known(s, d)' \/ Due(s, d)'
    <3>1. CASE start <= d
      <4>1. 1 \in 1..Len(j.ser) /\ j.ser[1] = s
        BY <2>3
      <4>2. d \in Int /\ d <= n /\ 0 <= d
        OBVIOUS
      <4>3. Due(j.ser[1], d)'
        BY <1>1, <1>4, <2>2, <2>3, <2>4, <3>1, <4>1, <4>2, JobAsks DEF ArchiveInv
      <4> QED
        BY <4>1, <4>3
    <3>2. CASE ~(start <= d)
      <4>1. CASE LatestOf(s) = NoDay
        <5>1. d < n - a
          BY SMTT(30), <1>2, <1>3, <3>2, <4>1
        <5> QED
          BY <1>1, <1>3, <5>1 DEF Known
      <4>2. CASE LatestOf(s) # NoDay
        <5>1. PICK m \in Nat : m = LatestOf(s) /\ HasRow(s, m)
          BY <4>2, LatestOfIs DEF ArchiveInv
        <5>2. PICK q \in rows : q.series = s /\ q.day = m
          BY <5>1 DEF HasRow
        <5>3. d \in 1..m
          BY <1>2, <3>2, <4>2, <5>1
        <5> QED
          BY <2>10, <5>2, <5>3
      <4> QED
        BY <4>1, <4>2
    <3> QED
      BY <3>1, <3>2
  <2>12. ClimKnows'
    <3>1. job'.end = n /\ job'.ser[1] = s
      BY <2>2, <2>3
    <3> QED
      BY <1>1, <2>10, <2>11, <3>1 DEF ClimKnows
  <2> QED
    BY <1>1, <1>5, <1>6, <2>5, <2>6, <2>7, <2>8, <2>9, <2>12 DEF ArchiveInv
<1> QED
  BY <1>7, <1>8

-----------------------------------------------------------------------------
(* The theorems.                                                           *)

LEMMA ArchiveStart ==
    ASSUME RecoveryAssumption, Init
    PROVE  ArchiveInv
<1>1. /\ table \in Tables /\ now = 0 /\ up = "serving" /\ rows = {} /\ job = NoJob
      /\ report = "none" /\ lost = {}
  BY DEF Init
<1>2. now \in 0..LastDay
  BY <1>1, Constants
<1>3. RowsKnow /\ LostKnows /\ FutureFilled /\ DownKnows /\ BootingKnows
  BY <1>1 DEF RowsKnow, LostKnows, FutureFilled, DownKnows, BootingKnows
<1>4. JobKnows /\ CleanSoFar /\ ClimKnows
  BY <1>1 DEF JobKnows, CleanSoFar, Requested, ClimKnows, Idle
<1>5. ServingKnows
  BY <1>1 DEF ServingKnows
<1> QED
  BY <1>1, <1>2, <1>3, <1>4, <1>5 DEF ArchiveInv

LEMMA ArchiveStep ==
    ASSUME RecoveryAssumption, ArchiveInv, [Next]_vars
    PROVE  ArchiveInv'
<1>1. CASE CollectDay \/ PowerCut \/ DayDown
  BY <1>1, CollectDayKeeps, PowerCutKeeps, DayDownKeeps
<1>2. CASE Boot \/ StartServices \/ BootTimeout
  BY <1>2, BootKeeps, StartServicesKeeps, BootTimeoutKeeps
<1>3. CASE RecoverByHand \/ RecoverWindow \/ IncrementalBackfill
  BY <1>3, RecoverByHandKeeps, RecoverWindowKeeps, IncrementalBackfillKeeps
<1>4. CASE JobStep
  BY <1>4, ForecastsDoneKeeps, AnsweredKeeps, EmptyKeeps, RefusedKeeps, PhaseEndsKeeps
     DEF JobStep
<1>5. CASE Retention
  BY <1>5, RetentionKeeps
<1>6. CASE UNCHANGED vars
  <2>1. UNCHANGED <<table, now, up, rows, job, report, lost, faults>>
    BY <1>6 DEF vars
  <2>2. RowsKnow' /\ LostKnows' /\ FutureFilled'
    BY <2>1 DEF ArchiveInv, RowsKnow, LostKnows, FutureFilled, HasRow
  <2>3. JobKnows'
    BY <2>1 DEF ArchiveInv, JobKnows, JobType, Idle
  <2>4. Keeps
    BY <2>1, LaterSame, SameRowsKeep, SameMarksKeep, DueStays DEF ArchiveInv, Keeps
  <2>5. /\ \A s, d : Known(s, d)' <=> Known(s, d)
        /\ \A s, d : Due(s, d)' <=> Due(s, d)
    BY <2>1 DEF Known, HasRow, Marked, Due, Idle
  <2>6. ServingKnows' /\ DownKnows' /\ BootingKnows'
    BY <2>1, <2>5 DEF ArchiveInv, ServingKnows, DownKnows, BootingKnows
  <2>7. ClimKnows'
    BY <2>1, <2>2, <2>3, <2>4, ClimStays DEF ArchiveInv, Idle
  <2>8. CleanSoFar'
    BY <2>1 DEF ArchiveInv, CleanSoFar, Requested, Idle, Kept
  <2> QED
    BY <2>1, <2>2, <2>3, <2>6, <2>7, <2>8 DEF ArchiveInv
<1> QED
  BY <1>1, <1>2, <1>3, <1>4, <1>5, <1>6 DEF Next

\* Collectors, outages, boots, recoveries and the retention keep what is known of
\* the archive: every day of a series is stored, has a cause for being
\* missing, is still asked for by the running job or is out of what is kept.
THEOREM ArchiveInvariant == Spec => []ArchiveInv
<1>1. Init => ArchiveInv
  BY RecoveryAssumption, ArchiveStart
<1>2. ArchiveInv /\ [Next]_vars => ArchiveInv'
  BY RecoveryAssumption, ArchiveStep
<1> QED
  BY <1>1, <1>2, PTL DEF Spec

\* A row lies between the first day and the forecast horizon, a job never asks
\* past its last request, and a request is tried at most _HTTP_RETRIES times
\* again.
THEOREM TypeCorrect == Spec => []TypeOK
<1>1. ArchiveInv => TypeOK
  <2>1. SUFFICES ASSUME ArchiveInv PROVE TypeOK
    OBVIOUS
  <2>2. \A r \in rows : r.day \in 0..(LastDay + Horizon) /\ r.val \in BOOLEAN
    BY <2>1, RowFields DEF ArchiveInv, RowsKnow, RowOk
  <2>3. ~Idle => job.next \in 1..(Tasks(job) + 1) /\ job.tries \in 0..Retries
    BY <2>1, JobFields DEF ArchiveInv, JobKnows
  <2> QED
    BY <2>1, <2>2, <2>3 DEF ArchiveInv, TypeOK, Idle
<1> QED
  BY <1>1, ArchiveInvariant, PTL

LEMMA HolesHaveACause ==
    ASSUME RecoveryAssumption, ArchiveInv
    PROVE  HolesExplained
<1>1. SUFFICES ASSUME up = "serving", Idle, NEW h \in Holes
               PROVE  \/ table = "forecast_runs" /\ h[2] < now - Retain
                      \/ /\ table = "v4_climatology"
                         /\ \/ ~(\E r \in rows : r.series = h[1] /\ r.day >= h[2])
                            \/ h[2] < now - ClimDays
                      \/ NullRow(h)
                      \/ \E c \in Causes : <<c, h[1], h[2]>> \in lost
  BY DEF HolesExplained
<1>2. PICK s \in Series(table), d \in 1..now :
         h = <<s, d>> /\ h[1] = s /\ h[2] = d /\ ~Covered(s, d)
  BY DEF Holes
<1>3. SUFFICES ASSUME table = "v4_climatology" => \E r \in rows : r.series = s /\ r.day >= d
               PROVE  \/ table = "forecast_runs" /\ d < now - Retain
                      \/ table = "v4_climatology" /\ d < now - ClimDays
                      \/ NullRow(h)
                      \/ \E c \in Causes : <<c, s, d>> \in lost
  BY <1>2
<1>4. Known(s, d)
  <2>1. CASE table = "v4_climatology"
    <3>1. PICK r \in rows : r.series = s /\ r.day >= d
      BY <1>3, <2>1
    <3>2. r.day \in Int /\ now \in Int
      BY SMTT(30), RowFields DEF ArchiveInv, RowsKnow, RowOk
    <3>3. d \in 1..r.day
      BY <3>1, <3>2
    <3> QED
      BY <1>1, <2>1, <3>1, <3>3 DEF ArchiveInv, ClimKnows, Due
  <2>2. CASE table # "v4_climatology"
    BY <1>1, <2>2 DEF ArchiveInv, ServingKnows
  <2> QED
    BY <2>1, <2>2
<1>5. CASE HasRow(s, d)
  <2>1. PICK r \in rows : r.series = s /\ r.day = d
    BY <1>5 DEF HasRow
  <2>2. ~r.val
    BY <1>2, <2>1 DEF Covered
  <2>3. NullRow(h)
    BY <1>2, <2>1, <2>2 DEF NullRow
  <2> QED
    BY <2>3
<1> QED
  BY <1>4, <1>5 DEF Known, Marked

LEMMA WindowIsFilled ==
    ASSUME RecoveryAssumption, ArchiveInv
    PROVE  CleanWindowFilled
<1>1. SUFFICES ASSUME Requested, AtEnd(job), job.clean,
                      NEW i \in 1..Len(job.ser), NEW d \in Larger(job.start, 0)..job.end
               PROVE  \E r \in rows : r.series = job.ser[i] /\ r.day = d
  BY DEF CleanWindowFilled
<1>2. /\ job \in JobType /\ job.start <= job.end /\ (job.phase # "deep" => job.start < job.end)
      /\ job.next \in Nat /\ Tasks(job) \in Nat /\ job.start \in Int /\ job.end \in Int
  BY <1>1, RunningJob DEF ArchiveInv, Requested
<1>3. PICK a \in Int, b \in Int : a = job.start /\ b = job.end
  BY <1>2
<1>4. d \in Int /\ a <= d /\ d <= b /\ 0 <= d
  BY SMTT(30), <1>3 DEF Larger
<1>5. PICK k \in 1..Tasks(job) : <<job.ser[i], d>> \in DaysOf(Task(job, k))
  BY <1>2, <1>3, <1>4, WindowCovered
<1>6. k \in 1..(job.next - 1)
  <2>1. job.next > Tasks(job)
    BY <1>1 DEF AtEnd
  <2>2. PICK n \in Nat, t \in Nat : n = job.next /\ t = Tasks(job)
    BY <1>2
  <2>3. PICK m \in Int : m = k /\ 1 <= m /\ m <= t
    BY SMTT(30), <2>2
  <2>4. n > t
    BY <2>1, <2>2
  <2>5. m \in 1..(n - 1)
    BY SMTT(30), <2>3, <2>4
  <2> QED
    BY <2>2, <2>3, <2>5
<1>7. PICK x \in DaysOf(Task(job, k)) : x = <<job.ser[i], d>>
  BY <1>5
<1>8. Kept(x[1], x[2])
  BY <1>1, <1>6 DEF ArchiveInv, CleanSoFar
<1> QED
  BY <1>7, <1>8 DEF Kept

\* No outage, restart, recovery, UPSERT or retention makes a day disappear
\* without one of the known causes once the services run, and a backfill whose
\* requests were all answered has filled its window (lakewind/recovery.py).
THEOREM ArchiveWindowsFilled == Spec => []WindowsFilled
<1>1. ArchiveInv => WindowsFilled
  BY RecoveryAssumption, HolesHaveACause, WindowIsFilled DEF WindowsFilled
<1> QED
  BY <1>1, ArchiveInvariant, PTL

\* An UPSERT of fresh rows loses no value.
LEMMA UpsertKeepsValues ==
    ASSUME RecoveryAssumption, ArchiveInv, table' = table,
           NEW n \in Int, n = now', now <= n, NEW new, rows' = Stored(new),
           \A q \in new : FreshRow(table, n, q), NEW r \in rows, r.val
    PROVE  Covered(r.series, r.day)'
<1>1. PICK m \in Int : m = now /\ m <= n
  BY DEF ArchiveInv
<1>2. RowOk(table, m, r)
  BY <1>1 DEF ArchiveInv, RowsKnow
<1>3. PICK q \in rows' : Key(q) = Key(r) /\ (q = r \/ q \in new)
  BY StoredKeeps
<1>4. q.series = r.series /\ q.day = r.day /\ q.val
  BY <1>1, <1>2, <1>3, ValueKept
<1> QED
  BY <1>3, <1>4 DEF Covered

LEMMA CollectedFresh ==
    ASSUME RecoveryAssumption, table \in Tables, NEW n \in 0..LastDay,
           NEW ok \in SUBSET Series(table), NEW st \in StationRows(n),
           NEW q \in LiveRows(ok, n) \cup st
    PROVE  FreshRow(table, n, q)
BY LiveRowsFresh, StationRowsFresh

\* A value leaves the archive by the nightly retention only, which deletes live
\* rows past the window: neither a boot nor a late answer full of nulls
\* takes one away (apply_retention_policy(), ON CONFLICT DO UPDATE).
THEOREM ValuesExpireOnly == Spec => OnlyLiveRowsExpire
<1>1. ASSUME ArchiveInv, Next, NEW r \in rows, r.val, ~Covered(r.series, r.day)'
      PROVE  r.src = Live /\ r.day < now - Retain
  <2> USE RecoveryAssumption
  <2>0. ~(rows' = rows)
    BY <1>1 DEF Covered
  <2>1. CASE CollectDay \/ StartServices
    <3>1. table' = table /\ now' \in 0..LastDay /\ now <= now'
      BY SMTT(30), <1>1, <2>1, Constants DEF ArchiveInv, CollectDay, StartServices
    <3>2. PICK n \in 0..LastDay : n = now' /\ now <= n
      BY <3>1
    <3>3. PICK ok \in SUBSET Series(table), st \in StationRows(n) :
             rows' = Stored(LiveRows(ok, n) \cup st)
      BY <2>1, <3>2 DEF CollectDay, StartServices
    <3>4. PICK new : new = LiveRows(ok, n) \cup st
      OBVIOUS
    <3>5. \A q \in new : FreshRow(table, n, q)
      BY <1>1, <3>4, CollectedFresh DEF ArchiveInv
    <3>6. n \in Int /\ rows' = Stored(new)
      BY <3>3, <3>4
    <3> QED
      BY <1>1, <3>1, <3>2, <3>5, <3>6, UpsertKeepsValues
  <2>2. CASE Answered
    <3>1. /\ ~Idle /\ job.phase # "forecasts_first" /\ ~AtEnd(job)
          /\ rows' = Stored(Answer(job, Task(job, job.next)))
          /\ table' = table /\ now' = now
      BY <2>2 DEF Answered, Requesting, Requested
    <3>2. /\ job \in JobType /\ job.next \in Nat /\ job.next >= 1
          /\ Tasks(job) \in Nat /\ job.start <= job.end /\ job.end <= now
      BY <1>1, <3>1, RunningJob DEF ArchiveInv
    <3>3. PICK k \in 1..Tasks(job) : k = job.next
      BY <3>1, <3>2 DEF AtEnd
    <3>4. PICK new : new = Answer(job, Task(job, k))
      OBVIOUS
    <3>5. Fills(table, now, Task(job, k), new)
      BY <1>1, <3>1, <3>2, <3>4, AnswerFills DEF ArchiveInv
    <3>6. PICK n \in Int : n = now /\ n = now' /\ now <= n
      BY <1>1, <3>1 DEF ArchiveInv
    <3>7. \A q \in new : FreshRow(table, n, q)
      BY <3>5, <3>6 DEF Fills
    <3>8. rows' = Stored(new)
      BY <3>1, <3>3, <3>4
    <3> QED
      BY <1>1, <3>1, <3>6, <3>7, <3>8, UpsertKeepsValues
  <2>3. CASE Retention
    <3>1. /\ table = "forecast_runs"
          /\ rows' = {q \in rows : q.day >= now - Retain \/ q.src = Exempt}
      BY <2>3 DEF Retention
    <3>2. ~(r.day >= now - Retain) /\ r.src # Exempt
      BY <1>1, <3>1 DEF Covered
    <3>3. r \in RowType(table) /\ r.src # "era5"
      BY <1>1, <3>1 DEF ArchiveInv, RowsKnow, RowOk
    <3>4. r.src = Live
      BY <3>2, <3>3, RowFields
    <3>5. PICK d \in Int, e \in Int : d = r.day /\ e = now - Retain
      BY SMTT(30), <1>1, <3>3, RowFields, Constants DEF ArchiveInv
    <3>6. d < e
      BY SMTT(30), <3>2, <3>5
    <3> QED
      BY <3>4, <3>5, <3>6
  <2>4. CASE PowerCut \/ DayDown \/ Boot \/ BootTimeout
    BY <2>0, <2>4 DEF PowerCut, DayDown, Boot, BootTimeout
  <2>5. CASE RecoverByHand \/ RecoverWindow \/ IncrementalBackfill
    BY <2>0, <2>5 DEF RecoverByHand, RecoverWindow, IncrementalBackfill
  <2>6. CASE ForecastsDone \/ Empty \/ Refused \/ PhaseEnds
    BY <2>0, <2>6 DEF ForecastsDone, Empty, Refused, PhaseEnds, Skip
  <2> QED
    BY <1>1, <2>1, <2>2, <2>3, <2>4, <2>5, <2>6 DEF Next, JobStep
<1>2. ArchiveInv /\ [Next]_vars => [\A r \in rows : r.val /\ ~Covered(r.series, r.day)' =>
                                     r.src = Live /\ r.day < now - Retain]_vars
  BY <1>1
<1> QED
  BY <1>2, ArchiveInvariant, PTL DEF OnlyLiveRowsExpire, Spec
=============================================================================
