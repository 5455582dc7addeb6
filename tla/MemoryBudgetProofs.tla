------------------------- MODULE MemoryBudgetProofs -------------------------
(***************************************************************************)
(* What holds of MemoryBudget for every set of jobs and all sizes. The     *)
(* argument: the counter is the sum of the reservations because every step *)
(* changes the counter by what it changes the reservations of one job by,  *)
(* and the reservation of a job is determined by where its code is (Shape).*)
(***************************************************************************)
EXTENDS MemoryBudget, FiniteSetTheorems, TLAPS

(* The response of a job is reserved exactly.                              *)
Exact(j) == held[j] = Uid + body[j] /\ length[j] <= body[j]
NoText(j) == extra[j] = 0 /\ text[j] = 0

(* What a job has reserved and allocated where its code is.                *)
Shape(j) ==
    /\ phase[j] # "panicked"
    /\ phase[j] \in {"idle", "lost"} =>
        held[j] = 0 /\ body[j] = 0 /\ length[j] = 0 /\ NoText(j)
    /\ phase[j] \in {"calling", "downgraded"} =>
        Exact(j) /\ NoText(j) /\ body[j] = 0
    /\ phase[j] = "allocating" =>
        held[j] >= Uid /\ body[j] = 0 /\ length[j] = 0 /\ NoText(j)
    /\ phase[j] = "growing" =>
        held[j] = Uid + length[j] /\ body[j] <= length[j] /\ NoText(j)
    /\ phase[j] = "checking" =>
        /\ Uid <= held[j]
        /\ held[j] <= Uid + body[j]
        /\ Uid + body[j] <= held[j] + Slack
        /\ length[j] <= body[j]
        /\ NoText(j)
    /\ phase[j] \in {"streaming", "response", "fallback"} => Exact(j) /\ NoText(j)
    /\ phase[j] \in {"forming", "encoding"} => Exact(j) /\ text[j] = 0
    /\ phase[j] \in {"formed", "encoded"} =>
        Exact(j) /\ extra[j] <= text[j] /\ text[j] <= extra[j] + Slack
    /\ phase[j] \in {"posting", "queueing"} => Exact(j) /\ extra[j] = text[j]
    /\ phase[j] = "queued" =>
        held[j] = 0 /\ body[j] = 0 /\ length[j] = 0 /\ extra[j] = text[j]

IInv ==
    /\ TypeOK
    /\ IsFiniteSet(Reserved(held, extra))
    /\ Accounted
    /\ \A j \in Jobs : Shape(j)

USE SizeAssumption

-----------------------------------------------------------------------------
(* A step changes one job, and the counter by what it changes of the       *)
(* reservations of that job.                                               *)
Changed(j) ==
    /\ TypeOK'
    /\ \A k \in Jobs \ {j} :
        /\ phase'[k] = phase[k]
        /\ held'[k] = held[k]
        /\ body'[k] = body[k]
        /\ length'[k] = length[k]
        /\ extra'[k] = extra[k]
        /\ text'[k] = text[k]
    /\ used' + (held[j] + extra[j]) = used + (held'[j] + extra'[j])

(* The reservations of the other jobs.                                     *)
Others(f, g, j) == UNION {{k} \X (1..(f[k] + g[k])) : k \in Jobs \ {j}}

(* One to n are n numbers.                                                 *)
LEMMA CountTo ==
    ASSUME NEW n \in Nat
    PROVE  IsFiniteSet(1..n) /\ Cardinality(1..n) = n
<1>1. IsFiniteSet(1..n) /\ Cardinality(1..n) = IF 1 > n THEN 0 ELSE n - 1 + 1
  <2>1. 1 \in Int /\ n \in Int
    OBVIOUS
  <2> QED
    BY <2>1, FS_Interval, Zenon
<1>2. n = IF 1 > n THEN 0 ELSE n - 1 + 1
  OBVIOUS
<1> QED
  BY <1>1, <1>2

(* The reservations of one job are as many bytes as it reserved, and apart *)
(* from those of the others.                                               *)
LEMMA ReservedSplit ==
    ASSUME NEW f \in [Jobs -> Nat], NEW g \in [Jobs -> Nat], NEW j \in Jobs,
           IsFiniteSet(Others(f, g, j))
    PROVE  /\ IsFiniteSet(Reserved(f, g))
           /\ Cardinality(Reserved(f, g)) = Cardinality(Others(f, g, j)) + (f[j] + g[j])
<1> DEFINE rest == Others(f, g, j)
           own == {j} \X (1..(f[j] + g[j]))
<1>1. f[j] + g[j] \in Nat
  OBVIOUS
<1>2. IsFiniteSet(own) /\ Cardinality(own) = f[j] + g[j]
  <2>1. IsFiniteSet({j}) /\ Cardinality({j}) = 1
    BY FS_Singleton
  <2>2. IsFiniteSet(1..(f[j] + g[j])) /\ Cardinality(1..(f[j] + g[j])) = f[j] + g[j]
    BY <1>1, CountTo
  <2>3. /\ IsFiniteSet(own)
        /\ Cardinality(own) = Cardinality({j}) * Cardinality(1..(f[j] + g[j]))
    BY <2>1, <2>2, FS_Product
  <2> QED
    BY <1>1, <2>1, <2>2, <2>3
<1>3. Reserved(f, g) = rest \cup own
  BY DEF Reserved, Others
<1>4. rest \cap own = {}
  BY DEF Others
<1> HIDE DEF own, rest
<1>5. /\ IsFiniteSet(rest \cup own)
      /\ Cardinality(rest \cup own)
            = Cardinality(rest) + Cardinality(own) - Cardinality(rest \cap own)
  BY <1>2, FS_Union DEF rest
<1>6. Cardinality(rest \cap own) = 0
  BY <1>4, FS_EmptySet
<1>7. Cardinality(rest) \in Nat
  BY FS_CardinalityType DEF rest
<1> QED
  BY <1>1, <1>2, <1>3, <1>5, <1>6, <1>7 DEF rest

LEMMA OthersFinite ==
    ASSUME NEW f, NEW g, NEW j \in Jobs, IsFiniteSet(Reserved(f, g))
    PROVE  /\ IsFiniteSet(Others(f, g, j))
           /\ Cardinality(Others(f, g, j)) \in Nat
<1>1. Others(f, g, j) \subseteq Reserved(f, g)
  BY DEF Others, Reserved
<1> QED
  BY <1>1, FS_Subset, FS_CardinalityType

(* No job has reserved more than the counter says.                         *)
LEMMA OwnsBounded ==
    ASSUME IInv, NEW j \in Jobs
    PROVE  held[j] + extra[j] <= used
<1>1. IsFiniteSet(Others(held, extra, j)) /\ Cardinality(Others(held, extra, j)) \in Nat
  BY OthersFinite DEF IInv
<1>2. Cardinality(Reserved(held, extra))
         = Cardinality(Others(held, extra, j)) + (held[j] + extra[j])
  BY <1>1, ReservedSplit DEF IInv, TypeOK
<1> QED
  BY <1>1, <1>2 DEF IInv, Accounted, TypeOK

(* A step of one job keeps the sum and the shape of the others.            *)
LEMMA OneJob ==
    ASSUME IInv, NEW j \in Jobs, Changed(j), Shape(j)'
    PROVE  IInv'
<1>1. IsFiniteSet(Others(held, extra, j)) /\ Cardinality(Others(held, extra, j)) \in Nat
  BY OthersFinite DEF IInv
<1>2. Cardinality(Reserved(held, extra))
         = Cardinality(Others(held, extra, j)) + (held[j] + extra[j])
  BY <1>1, ReservedSplit DEF IInv, TypeOK
<1>3. Others(held', extra', j) = Others(held, extra, j)
  <2>1. \A k \in Jobs \ {j} : held'[k] + extra'[k] = held[k] + extra[k]
    BY DEF Changed
  <2> QED
    BY <2>1 DEF Others
<1>4. /\ IsFiniteSet(Reserved(held', extra'))
      /\ Cardinality(Reserved(held', extra'))
            = Cardinality(Others(held, extra, j)) + (held'[j] + extra'[j])
  BY <1>1, <1>3, ReservedSplit DEF Changed, TypeOK
<1>5. Cardinality(Reserved(held', extra')) = used'
  BY <1>1, <1>2, <1>4 DEF IInv, Accounted, Changed, TypeOK
<1>6. \A k \in Jobs : Shape(k)'
  <2>1. ASSUME NEW k \in Jobs \ {j} PROVE Shape(k)'
    BY <2>1 DEF IInv, Changed, Shape, Exact, NoText
  <2> QED
    BY <2>1
<1> QED
  BY <1>4, <1>5, <1>6 DEF IInv, Changed, Accounted

-----------------------------------------------------------------------------
(* The lengths of an encoding are numbers.                                 *)
LEMMA EncodedLengthsNat ==
    ASSUME NEW n \in Nat
    PROVE  EncodedLengths(n) \subseteq Nat
<1>1. Expansion * n \in Nat
  OBVIOUS
<1>2. n..(Expansion * n) \subseteq Nat
  BY <1>1
<1> QED
  BY <1>2 DEF EncodedLengths

(* A request reserves its uid or is lost.                                  *)
LEMMA BeginStep ==
    ASSUME IInv, NEW j \in Jobs, Begin(j)
    PROVE  Changed(j) /\ Shape(j)'
<1>1. held[j] + extra[j] <= used
  BY OwnsBounded
<1>2. TypeOK /\ Shape(j)
  BY DEF IInv
<1> USE <1>1, <1>2 DEF Begin, GrowHeld, Acquire, Fits, Goto, Put
<1>4. used' \in 0..Limit
  BY DEF TypeOK, Shape, Exact, NoText
<1>5. TypeOK'
  BY <1>4 DEF TypeOK, Shape, Exact, NoText,
     Phases, Awaiting, Computing
<1>6. used' + (held[j] + extra[j]) = used + (held'[j] + extra'[j])
  BY DEF TypeOK, Shape, Exact, NoText
<1>7. Shape(j)'
  BY DEF TypeOK, Shape, Exact, NoText
<1> QED
  BY <1>5, <1>6, <1>7 DEF Changed, TypeOK

(* The body of a 404 is reserved with what it occupies.                    *)
LEMMA UnknownResourceStep ==
    ASSUME IInv, NEW j \in Jobs, UnknownResource(j)
    PROVE  Changed(j) /\ Shape(j)'
<1>1. held[j] + extra[j] <= used
  BY OwnsBounded
<1>2. TypeOK /\ Shape(j)
  BY DEF IInv
<1> USE <1>1, <1>2 DEF UnknownResource, GrowHeld, Acquire, Fits, Goto, Put
<1>4. used' \in 0..Limit
  BY DEF TypeOK, Shape, Exact, NoText
<1>5. TypeOK'
  BY <1>4 DEF TypeOK, Shape, Exact, NoText,
     Phases, Awaiting, Computing
<1>6. used' + (held[j] + extra[j]) = used + (held'[j] + extra'[j])
  BY DEF TypeOK, Shape, Exact, NoText
<1>7. Shape(j)'
  BY DEF TypeOK, Shape, Exact, NoText
<1> QED
  BY <1>5, <1>6, <1>7 DEF Changed, TypeOK

(* A failed fetch leaves the uid reserved.                                 *)
LEMMA FetchFailsStep ==
    ASSUME IInv, NEW j \in Jobs, FetchFails(j)
    PROVE  Changed(j) /\ Shape(j)'
<1>1. held[j] + extra[j] <= used
  BY OwnsBounded
<1>2. TypeOK /\ Shape(j)
  BY DEF IInv
<1> USE <1>1, <1>2 DEF FetchFails, GiveUpFetch, ShrinkHeld, Goto, Put
<1>4. used' \in 0..Limit
  BY DEF TypeOK, Shape, Exact, NoText
<1>5. TypeOK'
  BY <1>4 DEF TypeOK, Shape, Exact, NoText,
     Phases, Awaiting, Computing
<1>6. used' + (held[j] + extra[j]) = used + (held'[j] + extra'[j])
  BY DEF TypeOK, Shape, Exact, NoText
<1>7. Shape(j)'
  BY DEF TypeOK, Shape, Exact, NoText
<1> QED
  BY <1>5, <1>6, <1>7 DEF Changed, TypeOK

(* The declared length is reserved before the vector exists.               *)
LEMMA HeadArrivesStep ==
    ASSUME IInv, NEW j \in Jobs, HeadArrives(j)
    PROVE  Changed(j) /\ Shape(j)'
<1>1. held[j] + extra[j] <= used
  BY OwnsBounded
<1>2. TypeOK /\ Shape(j)
  BY DEF IInv
<1> USE <1>1, <1>2 DEF HeadArrives, GrowHeld, Acquire, Fits, GiveUpFetch,
          ShrinkHeld, Goto, Put
<1>4. used' \in 0..Limit
  BY DEF TypeOK, Shape, Exact, NoText
<1>5. TypeOK'
  BY <1>4 DEF TypeOK, Shape, Exact, NoText,
     Phases, Awaiting, Computing
<1>6. used' + (held[j] + extra[j]) = used + (held'[j] + extra'[j])
  BY DEF TypeOK, Shape, Exact, NoText
<1>7. Shape(j)'
  BY DEF TypeOK, Shape, Exact, NoText
<1> QED
  BY <1>5, <1>6, <1>7 DEF Changed, TypeOK

(* The vector exceeds its reservation by what the allocator added.         *)
LEMMA AllocateStep ==
    ASSUME IInv, NEW j \in Jobs, Allocate(j)
    PROVE  Changed(j) /\ Shape(j)'
<1>1. held[j] + extra[j] <= used
  BY OwnsBounded
<1>2. TypeOK /\ Shape(j)
  BY DEF IInv
<1> USE <1>1, <1>2 DEF Allocate, Goto, Put
<1>4. used' \in 0..Limit
  BY DEF TypeOK, Shape, Exact, NoText
<1>5. TypeOK'
  BY <1>4 DEF TypeOK, Shape, Exact, NoText,
     Phases, Awaiting, Computing
<1>6. used' + (held[j] + extra[j]) = used + (held'[j] + extra'[j])
  BY DEF TypeOK, Shape, Exact, NoText
<1>7. Shape(j)'
  BY DEF TypeOK, Shape, Exact, NoText
<1> QED
  BY <1>5, <1>6, <1>7 DEF Changed, TypeOK

(* So does a vector that grew.                                             *)
LEMMA GrowStep ==
    ASSUME IInv, NEW j \in Jobs, Grow(j)
    PROVE  Changed(j) /\ Shape(j)'
<1>1. held[j] + extra[j] <= used
  BY OwnsBounded
<1>2. TypeOK /\ Shape(j)
  BY DEF IInv
<1> USE <1>1, <1>2 DEF Grow, Goto, Put
<1>4. used' \in 0..Limit
  BY DEF TypeOK, Shape, Exact, NoText
<1>5. TypeOK'
  BY <1>4 DEF TypeOK, Shape, Exact, NoText,
     Phases, Awaiting, Computing
<1>6. used' + (held[j] + extra[j]) = used + (held'[j] + extra'[j])
  BY DEF TypeOK, Shape, Exact, NoText
<1>7. Shape(j)'
  BY DEF TypeOK, Shape, Exact, NoText
<1> QED
  BY <1>5, <1>6, <1>7 DEF Changed, TypeOK

(* The check makes the reservation exact, or gives the body up.            *)
LEMMA CheckCapacityStep ==
    ASSUME IInv, NEW j \in Jobs, CheckCapacity(j)
    PROVE  Changed(j) /\ Shape(j)'
<1>1. held[j] + extra[j] <= used
  BY OwnsBounded
<1>2. TypeOK /\ Shape(j)
  BY DEF IInv
<1> USE <1>1, <1>2 DEF CheckCapacity, Excess, GrowHeld, Acquire, Fits,
          GiveUpFetch, ShrinkHeld, Goto, Put
<1>4. used' \in 0..Limit
  BY DEF TypeOK, Shape, Exact, NoText
<1>5. TypeOK'
  BY <1>4 DEF TypeOK, Shape, Exact, NoText,
     Phases, Awaiting, Computing
<1>6. used' + (held[j] + extra[j]) = used + (held'[j] + extra'[j])
  BY DEF TypeOK, Shape, Exact, NoText
<1>7. Shape(j)'
  BY DEF TypeOK, Shape, Exact, NoText
<1> QED
  BY <1>5, <1>6, <1>7 DEF Changed, TypeOK

(* A chunk that fits changes no reservation.                               *)
LEMMA ChunkArrivesStep ==
    ASSUME IInv, NEW j \in Jobs, ChunkArrives(j)
    PROVE  Changed(j) /\ Shape(j)'
<1>1. held[j] + extra[j] <= used
  BY OwnsBounded
<1>2. TypeOK /\ Shape(j)
  BY DEF IInv
<1> USE <1>1, <1>2 DEF ChunkArrives, GrowHeld, Acquire, Fits, GiveUpFetch,
          ShrinkHeld, Goto, Put
<1>4. used' \in 0..Limit
  BY DEF TypeOK, Shape, Exact, NoText
<1>5. TypeOK'
  BY <1>4 DEF TypeOK, Shape, Exact, NoText,
     Phases, Awaiting, Computing
<1>6. used' + (held[j] + extra[j]) = used + (held'[j] + extra'[j])
  BY DEF TypeOK, Shape, Exact, NoText
<1>7. Shape(j)'
  BY DEF TypeOK, Shape, Exact, NoText
<1> QED
  BY <1>5, <1>6, <1>7 DEF Changed, TypeOK

(* from_reserved finds an exact reservation.                               *)
LEMMA FetchEndsStep ==
    ASSUME IInv, NEW j \in Jobs, FetchEnds(j)
    PROVE  Changed(j) /\ Shape(j)'
<1>1. TypeOK /\ Shape(j)
  BY DEF IInv
<1>2. /\ phase[j] = "streaming"
      /\ held[j] = Uid + body[j]
      /\ length[j] <= body[j]
      /\ NoText(j)
  BY <1>1 DEF Shape, Exact, FetchEnds
<1>3. /\ used' = used - (held[j] - (Uid + body[j]))
      /\ held' = [held EXCEPT ![j] = Uid + body[j]]
      /\ phase' = [phase EXCEPT ![j] = "response"]
  <2>1. Uid + body[j] <= held[j]
    BY <1>1, <1>2 DEF TypeOK
  <2> QED
    BY <2>1 DEF FetchEnds, ShrinkHeld, Goto, Put
<1>4. used' = used /\ held' = held
  BY <1>1, <1>2, <1>3 DEF TypeOK
<1>5. UNCHANGED <<body, length, extra, text>>
  BY DEF FetchEnds
<1>6. TypeOK'
  BY <1>1, <1>3, <1>4, <1>5 DEF TypeOK, Phases, Awaiting
<1>7. Shape(j)'
  BY <1>1, <1>2, <1>3, <1>4, <1>5 DEF TypeOK, Shape, Exact, NoText
<1> QED
  BY <1>1, <1>3, <1>4, <1>5, <1>6, <1>7 DEF Changed, TypeOK

(* A form is reserved before it exists.                                    *)
LEMMA ReserveFormStep ==
    ASSUME IInv, NEW j \in Jobs, ReserveForm(j)
    PROVE  Changed(j) /\ Shape(j)'
<1>1. held[j] + extra[j] <= used
  BY OwnsBounded
<1>2. TypeOK /\ Shape(j)
  BY DEF IInv
<1>3. EncodedLengths(length[j]) \subseteq Nat
  BY <1>2, EncodedLengthsNat DEF TypeOK
<1> USE <1>1, <1>2, <1>3 DEF ReserveForm, GrowExtra, Acquire, Fits, Goto, Put
<1>4. used' \in 0..Limit
  BY DEF TypeOK, Shape, Exact, NoText
<1>5. TypeOK'
  BY <1>4 DEF TypeOK, Shape, Exact, NoText,
     Phases, Awaiting, Computing
<1>6. used' + (held[j] + extra[j]) = used + (held'[j] + extra'[j])
  BY DEF TypeOK, Shape, Exact, NoText
<1>7. Shape(j)'
  BY DEF TypeOK, Shape, Exact, NoText
<1> QED
  BY <1>5, <1>6, <1>7 DEF Changed, TypeOK

(* A form exceeds its reservation by what the allocator added.             *)
LEMMA EncodeFormStep ==
    ASSUME IInv, NEW j \in Jobs, EncodeForm(j)
    PROVE  Changed(j) /\ Shape(j)'
<1>1. held[j] + extra[j] <= used
  BY OwnsBounded
<1>2. TypeOK /\ Shape(j)
  BY DEF IInv
<1> USE <1>1, <1>2 DEF EncodeForm, EncodeAs, Goto, Put
<1>4. used' \in 0..Limit
  BY DEF TypeOK, Shape, Exact, NoText
<1>5. TypeOK'
  BY <1>4 DEF TypeOK, Shape, Exact, NoText,
     Phases, Awaiting, Computing
<1>6. used' + (held[j] + extra[j]) = used + (held'[j] + extra'[j])
  BY DEF TypeOK, Shape, Exact, NoText
<1>7. Shape(j)'
  BY DEF TypeOK, Shape, Exact, NoText
<1> QED
  BY <1>5, <1>6, <1>7 DEF Changed, TypeOK

(* The form is covered when it is sent.                                    *)
LEMMA SendFormStep ==
    ASSUME IInv, NEW j \in Jobs, SendForm(j)
    PROVE  Changed(j) /\ Shape(j)'
<1>1. held[j] + extra[j] <= used
  BY OwnsBounded
<1>2. TypeOK /\ Shape(j)
  BY DEF IInv
<1> USE <1>1, <1>2 DEF SendForm, Excess, GrowExtra, Acquire, Fits,
          DropText, Goto, Put
<1>4. used' \in 0..Limit
  BY DEF TypeOK, Shape, Exact, NoText
<1>5. TypeOK'
  BY <1>4 DEF TypeOK, Shape, Exact, NoText,
     Phases, Awaiting, Computing
<1>6. used' + (held[j] + extra[j]) = used + (held'[j] + extra'[j])
  BY DEF TypeOK, Shape, Exact, NoText
<1>7. Shape(j)'
  BY DEF TypeOK, Shape, Exact, NoText
<1> QED
  BY <1>5, <1>6, <1>7 DEF Changed, TypeOK

(* A delivered response gives everything back.                             *)
LEMMA PostEndsStep ==
    ASSUME IInv, NEW j \in Jobs, PostEnds(j)
    PROVE  Changed(j) /\ Shape(j)'
<1>1. held[j] + extra[j] <= used
  BY OwnsBounded
<1>2. TypeOK /\ Shape(j)
  BY DEF IInv
<1> USE <1>1, <1>2 DEF PostEnds, DropAll, Goto, Put
<1>4. used' \in 0..Limit
  BY DEF TypeOK, Shape, Exact, NoText
<1>5. TypeOK'
  BY <1>4 DEF TypeOK, Shape, Exact, NoText,
     Phases, Awaiting, Computing
<1>6. used' + (held[j] + extra[j]) = used + (held'[j] + extra'[j])
  BY DEF TypeOK, Shape, Exact, NoText
<1>7. Shape(j)'
  BY DEF TypeOK, Shape, Exact, NoText
<1> QED
  BY <1>5, <1>6, <1>7 DEF Changed, TypeOK

(* A failed POST gives its form back.                                      *)
LEMMA PostFailsStep ==
    ASSUME IInv, NEW j \in Jobs, PostFails(j)
    PROVE  Changed(j) /\ Shape(j)'
<1>1. held[j] + extra[j] <= used
  BY OwnsBounded
<1>2. TypeOK /\ Shape(j)
  BY DEF IInv
<1> USE <1>1, <1>2 DEF PostFails, DropText, Goto, Put
<1>4. used' \in 0..Limit
  BY DEF TypeOK, Shape, Exact, NoText
<1>5. TypeOK'
  BY <1>4 DEF TypeOK, Shape, Exact, NoText,
     Phases, Awaiting, Computing
<1>6. used' + (held[j] + extra[j]) = used + (held'[j] + extra'[j])
  BY DEF TypeOK, Shape, Exact, NoText
<1>7. Shape(j)'
  BY DEF TypeOK, Shape, Exact, NoText
<1> QED
  BY <1>5, <1>6, <1>7 DEF Changed, TypeOK

(* A body without room is dropped before its reservation shrinks.          *)
LEMMA ReserveJsonStep ==
    ASSUME IInv, NEW j \in Jobs, ReserveJson(j)
    PROVE  Changed(j) /\ Shape(j)'
<1>1. held[j] + extra[j] <= used
  BY OwnsBounded
<1>2. TypeOK /\ Shape(j)
  BY DEF IInv
<1>3. EncodedLengths(Uid + length[j]) \subseteq Nat
  BY <1>2, EncodedLengthsNat DEF TypeOK
<1> USE <1>1, <1>2, <1>3 DEF ReserveJson, GrowExtra, Acquire, Fits, ShrinkHeld,
          Goto, Put
<1>4. Exact(j) /\ NoText(j) /\ phase[j] \in {"response", "fallback"}
  BY DEF Shape
<1>5. used' \in 0..Limit
  BY <1>4 DEF TypeOK, Exact, NoText
<1>6. TypeOK'
  BY <1>4, <1>5 DEF TypeOK, Exact, NoText, Phases, Awaiting, Computing
<1>7. used' + (held[j] + extra[j]) = used + (held'[j] + extra'[j])
  BY DEF TypeOK, Shape, Exact, NoText
<1>8. Shape(j)'
  BY DEF TypeOK, Shape, Exact, NoText
<1> QED
  BY <1>6, <1>7, <1>8 DEF Changed, TypeOK

(* An empty 500 is reserved, or everything is given back.                  *)
LEMMA ReserveErrorStep ==
    ASSUME IInv, NEW j \in Jobs, ReserveError(j)
    PROVE  Changed(j) /\ Shape(j)'
<1>1. held[j] + extra[j] <= used
  BY OwnsBounded
<1>2. TypeOK /\ Shape(j)
  BY DEF IInv
<1>3. EncodedLengths(Uid) \subseteq Nat
  BY <1>2, EncodedLengthsNat DEF TypeOK
<1> USE <1>1, <1>2, <1>3 DEF ReserveError, GrowExtra, Acquire, Fits, DropAll,
          Goto, Put
<1>4. used' \in 0..Limit
  BY DEF TypeOK, Shape, Exact, NoText
<1>5. TypeOK'
  BY <1>4 DEF TypeOK, Shape, Exact, NoText,
     Phases, Awaiting, Computing
<1>6. used' + (held[j] + extra[j]) = used + (held'[j] + extra'[j])
  BY DEF TypeOK, Shape, Exact, NoText
<1>7. Shape(j)'
  BY DEF TypeOK, Shape, Exact, NoText
<1> QED
  BY <1>5, <1>6, <1>7 DEF Changed, TypeOK

(* JSON exceeds its reservation by what the allocator added.               *)
LEMMA EncodeJsonStep ==
    ASSUME IInv, NEW j \in Jobs, EncodeJson(j)
    PROVE  Changed(j) /\ Shape(j)'
<1>1. held[j] + extra[j] <= used
  BY OwnsBounded
<1>2. TypeOK /\ Shape(j)
  BY DEF IInv
<1> USE <1>1, <1>2 DEF EncodeJson, EncodeAs, Goto, Put
<1>4. used' \in 0..Limit
  BY DEF TypeOK, Shape, Exact, NoText
<1>5. TypeOK'
  BY <1>4 DEF TypeOK, Shape, Exact, NoText,
     Phases, Awaiting, Computing
<1>6. used' + (held[j] + extra[j]) = used + (held'[j] + extra'[j])
  BY DEF TypeOK, Shape, Exact, NoText
<1>7. Shape(j)'
  BY DEF TypeOK, Shape, Exact, NoText
<1> QED
  BY <1>5, <1>6, <1>7 DEF Changed, TypeOK

(* JSON is covered before it is queued.                                    *)
LEMMA CheckJsonStep ==
    ASSUME IInv, NEW j \in Jobs, CheckJson(j)
    PROVE  Changed(j) /\ Shape(j)'
<1>1. held[j] + extra[j] <= used
  BY OwnsBounded
<1>2. TypeOK /\ Shape(j)
  BY DEF IInv
<1> USE <1>1, <1>2 DEF CheckJson, Excess, GrowExtra, Acquire, Fits,
          DropAll, Goto, Put
<1>4. used' \in 0..Limit
  BY DEF TypeOK, Shape, Exact, NoText
<1>5. TypeOK'
  BY <1>4 DEF TypeOK, Shape, Exact, NoText,
     Phases, Awaiting, Computing
<1>6. used' + (held[j] + extra[j]) = used + (held'[j] + extra'[j])
  BY DEF TypeOK, Shape, Exact, NoText
<1>7. Shape(j)'
  BY DEF TypeOK, Shape, Exact, NoText
<1> QED
  BY <1>5, <1>6, <1>7 DEF Changed, TypeOK

(* A queued response is reserved by its JSON alone.                        *)
LEMMA QueueJsonStep ==
    ASSUME IInv, NEW j \in Jobs, QueueJson(j)
    PROVE  Changed(j) /\ Shape(j)'
<1>1. held[j] + extra[j] <= used
  BY OwnsBounded
<1>2. TypeOK /\ Shape(j)
  BY DEF IInv
<1> USE <1>1, <1>2 DEF QueueJson, ShrinkHeld, Goto, Put
<1>4. used' \in 0..Limit
  BY DEF TypeOK, Shape, Exact, NoText
<1>5. TypeOK'
  BY <1>4 DEF TypeOK, Shape, Exact, NoText,
     Phases, Awaiting, Computing
<1>6. used' + (held[j] + extra[j]) = used + (held'[j] + extra'[j])
  BY DEF TypeOK, Shape, Exact, NoText
<1>7. Shape(j)'
  BY DEF TypeOK, Shape, Exact, NoText
<1> QED
  BY <1>5, <1>6, <1>7 DEF Changed, TypeOK

(* A written response gives everything back.                               *)
LEMMA WrittenStep ==
    ASSUME IInv, NEW j \in Jobs, Written(j)
    PROVE  Changed(j) /\ Shape(j)'
<1>1. held[j] + extra[j] <= used
  BY OwnsBounded
<1>2. TypeOK /\ Shape(j)
  BY DEF IInv
<1> USE <1>1, <1>2 DEF Written, DropAll, Goto, Put
<1>4. used' \in 0..Limit
  BY DEF TypeOK, Shape, Exact, NoText
<1>5. TypeOK'
  BY <1>4 DEF TypeOK, Shape, Exact, NoText,
     Phases, Awaiting, Computing
<1>6. used' + (held[j] + extra[j]) = used + (held'[j] + extra'[j])
  BY DEF TypeOK, Shape, Exact, NoText
<1>7. Shape(j)'
  BY DEF TypeOK, Shape, Exact, NoText
<1> QED
  BY <1>5, <1>6, <1>7 DEF Changed, TypeOK

(* An aborted job gives everything back, whatever it awaited.              *)
LEMMA AbortStep ==
    ASSUME IInv, NEW j \in Jobs, Abort(j)
    PROVE  Changed(j) /\ Shape(j)'
<1>1. held[j] + extra[j] <= used
  BY OwnsBounded
<1>2. TypeOK /\ Shape(j)
  BY DEF IInv
<1> USE <1>1, <1>2 DEF Abort, DropAll, Goto, Put
<1>4. used' \in 0..Limit
  BY DEF TypeOK, Shape, Exact, NoText, Awaiting
<1>5. TypeOK'
  BY <1>4 DEF TypeOK, Shape, Exact, NoText,
     Phases, Awaiting, Computing
<1>6. used' + (held[j] + extra[j]) = used + (held'[j] + extra'[j])
  BY DEF TypeOK, Shape, Exact, NoText, Awaiting
<1>7. Shape(j)'
  BY DEF TypeOK, Shape, Exact, NoText, Awaiting
<1> QED
  BY <1>5, <1>6, <1>7 DEF Changed, TypeOK

-----------------------------------------------------------------------------
(* Init establishes the invariant.                                         *)
LEMMA InitInv == Init => IInv
<1> SUFFICES ASSUME Init PROVE IInv
  OBVIOUS
<1>1. TypeOK
  BY DEF Init, TypeOK, Phases
<1>2. Reserved(held, extra) = {}
  <2>1. \A j \in Jobs : 1..(held[j] + extra[j]) = {}
    BY DEF Init
  <2> QED
    BY <2>1 DEF Reserved
<1>3. IsFiniteSet(Reserved(held, extra)) /\ Accounted
  BY <1>2, FS_EmptySet DEF Accounted, Init
<1>4. \A j \in Jobs : Shape(j)
  BY DEF Init, Shape, NoText
<1> QED
  BY <1>1, <1>3, <1>4 DEF IInv

(* Every step preserves the invariant.                                     *)
LEMMA NextInv == IInv /\ [Next]_vars => IInv'
<1> SUFFICES ASSUME IInv, [Next]_vars PROVE IInv'
  OBVIOUS
<1>1. CASE UNCHANGED vars
  BY <1>1 DEF vars, IInv, TypeOK, Accounted, Reserved, Shape, Exact, NoText
<1>2. ASSUME NEW j \in Jobs, Step(j) PROVE IInv'
  <2>1. Changed(j) /\ Shape(j)'
    BY <1>2, BeginStep, UnknownResourceStep, FetchFailsStep, HeadArrivesStep,
       AllocateStep, GrowStep, CheckCapacityStep, ChunkArrivesStep,
       FetchEndsStep, ReserveFormStep, EncodeFormStep, SendFormStep,
       PostEndsStep, PostFailsStep, ReserveJsonStep, ReserveErrorStep,
       EncodeJsonStep, CheckJsonStep, QueueJsonStep, WrittenStep,
       AbortStep
       DEF Step
  <2> QED
    BY <2>1, OneJob
<1> QED
  BY <1>1, <1>2 DEF Next

LEMMA Invariant == Spec => []IInv
BY InitInv, NextInv, PTL DEF Spec

(* The types of the variables, and the limit: however many jobs race on    *)
(* the counter, it stays between zero and the limit (try_acquire).         *)
THEOREM BudgetTypeCorrect == Spec => []TypeOK
<1>1. IInv => TypeOK
  BY DEF IInv
<1> QED
  BY <1>1, Invariant, PTL

(* The counter of the budget is the sum of the reservations of all jobs.   *)
THEOREM BudgetIsAccounted == Spec => []Accounted
<1>1. IInv => Accounted
  BY DEF IInv
<1> QED
  BY <1>1, Invariant, PTL

(* The assertion of shrink_to never fails.                                 *)
THEOREM ShrinkNeverPanics == Spec => []NeverPanics
<1>1. IInv => NeverPanics
  BY DEF IInv, Shape, NeverPanics
<1> QED
  BY <1>1, Invariant, PTL

(* A job that waits owns exactly the memory that it reserved, and one that *)
(* computes exceeds it by what one allocation added.                       *)
THEOREM MemoryIsCovered == Spec => []Covered
<1>1. IInv => Covered
  BY DEF IInv, Shape, Covered, Exact, NoText, Awaiting, TypeOK
<1> QED
  BY <1>1, Invariant, PTL

-----------------------------------------------------------------------------
(* A job takes no more than it reserved, and if it has just allocated, no  *)
(* more than Slack bytes besides.                                          *)
LEMMA MemoryOfOne ==
    ASSUME IInv, NEW j \in Jobs
    PROVE  /\ ResponseMemory[j] + text[j] \in Nat
           /\ held[j] + extra[j] \in Nat
           /\ ResponseMemory[j] + text[j]
                <= held[j] + extra[j] + (IF j \in Unchecked THEN Slack ELSE 0)
<1>1. TypeOK /\ Shape(j)
  BY DEF IInv
<1>2. /\ held[j] \in Nat /\ body[j] \in Nat /\ length[j] \in Nat
      /\ extra[j] \in Nat /\ text[j] \in Nat /\ phase[j] \in Phases
  BY <1>1 DEF TypeOK
<1>3. ResponseMemory[j]
         = (IF phase[j] \in {"idle", "lost", "queued"} THEN 0 ELSE Uid) + body[j]
  BY DEF ResponseMemory
<1>4. j \in Unchecked <=> phase[j] \in {"checking", "formed", "encoded"}
  BY DEF Unchecked
<1>5. CASE phase[j] \in {"idle", "lost", "queued"}
  BY <1>1, <1>2, <1>3, <1>4, <1>5 DEF Shape, NoText
<1>6. CASE phase[j] \in {"calling", "downgraded", "allocating", "growing"}
  BY <1>1, <1>2, <1>3, <1>4, <1>6 DEF Shape, Exact, NoText
<1>7. CASE phase[j] = "checking"
  BY <1>1, <1>2, <1>3, <1>4, <1>7 DEF Shape, NoText
<1>8. CASE phase[j] \in {"streaming", "response", "fallback", "forming", "encoding",
                        "posting", "queueing"}
  BY <1>1, <1>2, <1>3, <1>4, <1>8 DEF Shape, Exact, NoText
<1>9. CASE phase[j] \in {"formed", "encoded"}
  BY <1>1, <1>2, <1>3, <1>4, <1>9 DEF Shape, Exact
<1> QED
  BY <1>1, <1>2, <1>5, <1>6, <1>7, <1>8, <1>9 DEF Shape, Phases, Awaiting, Computing

(* The memory of all jobs is at most what they reserved and, for each job  *)
(* that has not checked its allocation, Slack bytes more: the bytes beyond *)
(* a reservation are numbered from one to Slack.                           *)
THEOREM MemoryIsCounted == Spec => []MemoryCounted
<1>1. IInv => MemoryCounted
  <2> SUFFICES ASSUME IInv PROVE MemoryCounted
    OBVIOUS
  <2> DEFINE M == Reserved(ResponseMemory, text)
             R == Reserved(held, extra)
             X == M \ R
             S == Unchecked \X (1..Slack)
             f == [x \in X |-> <<x[1], x[2] - (held[x[1]] + extra[x[1]])>>]
  <2>1. ASSUME NEW x \in X
        PROVE  /\ x = <<x[1], x[2]>> /\ x[1] \in Unchecked /\ x[2] \in Int
               /\ x[2] - (held[x[1]] + extra[x[1]]) \in 1..Slack
    <3>1. PICK j \in Jobs : x \in {j} \X (1..(ResponseMemory[j] + text[j]))
      BY <2>1 DEF Reserved
    <3>2. PICK n \in 1..(ResponseMemory[j] + text[j]) : x = <<j, n>>
      BY <3>1
    <3>3. n \notin 1..(held[j] + extra[j])
      <4>1. n \in 1..(held[j] + extra[j]) => x \in {j} \X (1..(held[j] + extra[j]))
        BY <3>2
      <4> QED
        BY <2>1, <4>1 DEF Reserved
    <3>4. /\ ResponseMemory[j] + text[j] \in Nat
          /\ held[j] + extra[j] \in Nat
          /\ ResponseMemory[j] + text[j]
               <= held[j] + extra[j] + (IF j \in Unchecked THEN Slack ELSE 0)
      BY MemoryOfOne
    <3>5. j \in Unchecked /\ n \in Int /\ n - (held[j] + extra[j]) \in 1..Slack
      BY <3>3, <3>4
    <3>6. x[1] = j /\ x[2] = n
      BY <3>2
    <3> QED
      BY <3>2, <3>5, <3>6
  <2>2. f \in Injection(X, S)
    <3>1. f \in [X -> S]
      BY <2>1
    <3>2. ASSUME NEW x \in X, NEW y \in X, f[x] = f[y] PROVE x = y
      <4>1. /\ x[1] = y[1]
            /\ x[2] - (held[x[1]] + extra[x[1]]) = y[2] - (held[y[1]] + extra[y[1]])
        BY <3>2
      <4>2. x[1] \in Jobs /\ y[1] \in Jobs
        BY <2>1 DEF Unchecked
      <4>3. held[x[1]] + extra[x[1]] \in Nat
        BY <4>2, MemoryOfOne
      <4>4. x[2] = y[2]
        BY <2>1, <4>1, <4>3
      <4> QED
        BY <2>1, <4>1, <4>4
    <3> QED
      BY <3>1, <3>2 DEF Injection, IsInjective
  <2>3. /\ IsFiniteSet(S)
        /\ Cardinality(S) = Cardinality(Unchecked) * Slack
        /\ Cardinality(Unchecked) \in Nat
    <3>1. IsFiniteSet(Unchecked)
      BY JobsAssumption, FS_Subset DEF Unchecked
    <3>2. IsFiniteSet(1..Slack) /\ Cardinality(1..Slack) = Slack
      BY CountTo
    <3> QED
      BY <3>1, <3>2, FS_Product, FS_CardinalityType
  <2>4. IsFiniteSet(R) /\ Cardinality(R) = used /\ used \in Nat
    BY DEF IInv, Accounted, TypeOK
  <2> HIDE DEF M, R, X, S, f
  <2>5. IsFiniteSet(X) /\ Cardinality(X) <= Cardinality(S)
    BY <2>2, <2>3, FS_Injection
  <2>6. /\ IsFiniteSet(R \cup X)
        /\ Cardinality(R \cup X) = Cardinality(R) + Cardinality(X) - Cardinality(R \cap X)
    BY <2>4, <2>5, FS_Union
  <2>7. R \cap X = {} /\ M \subseteq R \cup X
    BY DEF X
  <2>8. Cardinality(R \cap X) = 0
    BY <2>7, FS_EmptySet
  <2>9. Cardinality(M) <= Cardinality(R \cup X)
    BY <2>6, <2>7, FS_Subset
  <2>10. /\ Cardinality(X) \in Nat /\ Cardinality(R \cup X) \in Nat
         /\ IsFiniteSet(M) /\ Cardinality(M) \in Nat
    BY <2>5, <2>6, <2>7, FS_Subset, FS_CardinalityType
  <2>11. Cardinality(Unchecked) * Slack = Slack * Cardinality(Unchecked)
         /\ Slack * Cardinality(Unchecked) \in Nat
    BY <2>3
  <2>12. Cardinality(M) <= used + Slack * Cardinality(Unchecked)
    BY <2>3, <2>4, <2>5, <2>6, <2>8, <2>9, <2>10, <2>11
  <2> QED
    BY <2>12 DEF M, MemoryCounted
<1> QED
  BY <1>1, Invariant, PTL

-----------------------------------------------------------------------------
(* A job that is alone has reserved what the counter says.                 *)
LEMMA AloneOwnsUsed ==
    ASSUME IInv, NEW j \in Jobs, \A k \in Jobs \ {j} : ~(Owns(k) > 0)
    PROVE  used = held[j] + extra[j]
<1>1. \A k \in Jobs \ {j} : 1..(held[k] + extra[k]) = {}
  BY DEF Owns, IInv, TypeOK
<1>2. Others(held, extra, j) = {}
  BY <1>1 DEF Others
<1>3. Cardinality(Reserved(held, extra)) = 0 + (held[j] + extra[j])
  <2>1. /\ IsFiniteSet(Others(held, extra, j))
        /\ Cardinality(Others(held, extra, j)) = 0
    BY <1>2, FS_EmptySet
  <2>2. held \in [Jobs -> Nat] /\ extra \in [Jobs -> Nat]
    BY DEF IInv, TypeOK
  <2> QED
    BY <2>1, <2>2, ReservedSplit
<1> QED
  BY <1>3 DEF IInv, TypeOK, Accounted

(* The steps by which a request is lost.                                   *)
LEMMA Lost ==
    ASSUME TypeOK, NeverPanics, NEW j \in Jobs, Step(j),
           phase[j] # "lost", phase'[j] = "lost"
    PROVE  \/ Begin(j) /\ ~Fits(Uid)
           \/ ReserveError(j)
           \/ CheckJson(j)
<1>1. DOMAIN phase = Jobs
  BY DEF TypeOK
<1>2. CASE Begin(j)
  BY <1>1, <1>2 DEF Begin, Goto
<1>3. CASE UnknownResource(j) \/ FetchFails(j) \/ HeadArrives(j) \/ CheckCapacity(j)
  BY <1>1, <1>3 DEF UnknownResource, FetchFails, HeadArrives, CheckCapacity,
     GiveUpFetch, ShrinkHeld, Goto
<1>4. CASE Allocate(j) \/ Grow(j) \/ EncodeForm(j) \/ EncodeJson(j)
  BY <1>1, <1>4 DEF Allocate, Grow, EncodeForm, EncodeJson, EncodeAs, Goto
<1>5. CASE ChunkArrives(j) \/ FetchEnds(j) \/ QueueJson(j)
  BY <1>1, <1>5 DEF ChunkArrives, FetchEnds, QueueJson, GiveUpFetch, ShrinkHeld, Goto
<1>6. CASE ReserveForm(j) \/ SendForm(j) \/ PostFails(j) \/ ReserveJson(j)
  BY <1>1, <1>6 DEF ReserveForm, SendForm, PostFails, ReserveJson, ShrinkHeld, Goto
<1>7. CASE PostEnds(j) \/ Written(j) \/ Abort(j)
  BY <1>1, <1>7 DEF PostEnds, Written, Abort, DropAll, Goto
<1> QED
  BY <1>2, <1>3, <1>4, <1>5, <1>6, <1>7 DEF Step

(* With room for a uid and the longest empty answer a request is lost only *)
(* while another one holds memory, or because its JSON is larger than what *)
(* was reserved for it (downgrade_to_error, bounded_response_json).        *)
THEOREM LossNeedsAnotherJob ==
    ASSUME Uid + Envelope + Expansion * Uid <= Limit,
           Envelope + Expansion * Uid <= MaxMessage
    PROVE  Spec => LostOnlyWhenShared
<1>1. ASSUME IInv, [Next]_vars, NEW j \in Jobs,
             phase[j] # "lost", phase'[j] = "lost"
      PROVE  (\E k \in Jobs \ {j} : Owns(k) > 0) \/ text[j] > extra[j]
  <2> SUFFICES ASSUME \A k \in Jobs \ {j} : ~(Owns(k) > 0), ~(text[j] > extra[j])
               PROVE  FALSE
    OBVIOUS
  <2>1. used = held[j] + extra[j]
    BY <1>1, AloneOwnsUsed
  <2>2. TypeOK /\ Shape(j) /\ j \in DOMAIN phase
    BY <1>1 DEF IInv, TypeOK
  <2>3. Expansion * Uid \in Nat
    OBVIOUS
  <2>4. Step(j)
    <3>1. PICK k \in Jobs : Step(k)
      BY <1>1 DEF vars, Next
    <3>2. k # j => phase'[j] = phase[j]
      BY <1>1, <3>1, BeginStep, UnknownResourceStep, FetchFailsStep, HeadArrivesStep,
       AllocateStep, GrowStep, CheckCapacityStep, ChunkArrivesStep,
       FetchEndsStep, ReserveFormStep, EncodeFormStep, SendFormStep,
       PostEndsStep, PostFailsStep, ReserveJsonStep, ReserveErrorStep,
       EncodeJsonStep, CheckJsonStep, QueueJsonStep, WrittenStep,
       AbortStep DEF Step, Changed
    <3> QED
      BY <1>1, <3>1, <3>2
  <2>5. \/ Begin(j) /\ ~Fits(Uid)
        \/ ReserveError(j)
        \/ CheckJson(j)
    BY <1>1, <2>2, <2>4, Lost DEF IInv, Shape, NeverPanics
  <2>6. CASE Begin(j) /\ ~Fits(Uid)
    BY <1>1, <2>1, <2>2, <2>3, <2>6 DEF Begin, Fits, Shape, NoText, TypeOK
  <2>7. CASE ReserveError(j)
    <3>1. phase[j] = "downgraded" /\ used = Uid
      BY <2>1, <2>2, <2>7 DEF ReserveError, Shape, Exact, NoText, TypeOK
    <3>2. \A n \in EncodedLengths(Uid) : ~(n > MaxMessage \/ ~Fits(n))
      BY <2>3, <3>1 DEF EncodedLengths, Fits
    <3>3. Goto(j, "encoding")
      BY <2>7, <3>2 DEF ReserveError
    <3> QED
      BY <1>1, <2>2, <3>3 DEF Goto
  <2>8. CASE CheckJson(j)
    <3>1. phase[j] = "encoded" /\ Excess(text[j], extra[j]) = 0
      BY <2>2, <2>8 DEF CheckJson, Excess, TypeOK
    <3>2. Fits(0)
      BY <2>2 DEF Fits, TypeOK
    <3> QED
      BY <1>1, <2>2, <2>8, <3>1, <3>2 DEF CheckJson, Goto, TypeOK
  <2> QED
    BY <2>5, <2>6, <2>7, <2>8
<1>2. IInv /\ [Next]_vars
        => [\A j \in Jobs :
               phase[j] # "lost" /\ phase'[j] = "lost"
                   => (\E k \in Jobs \ {j} : Owns(k) > 0) \/ text[j] > extra[j]]_vars
  BY <1>1
<1> QED
  BY <1>2, Invariant, PTL DEF Spec, LostOnlyWhenShared
=============================================================================
