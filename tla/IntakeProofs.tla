----------------------------- MODULE IntakeProofs -----------------------------
(***************************************************************************)
(* Type correctness, clean-up and the order-free acceptance of Intake, for *)
(* every set of requests and every limit.  The invariant says what is      *)
(* known of the body at each stage; since a limit of the parser that is    *)
(* exceeded stays exceeded, how the body is cut does not matter.           *)
(***************************************************************************)
EXTENDS Intake, FiniteSetTheorems, WellFoundedInduction, TLAPS

AfterForm  == {"copy", "detect", "archive", "image", "stored", "done"}
AfterCopy  == {"detect", "archive", "image", "stored", "done"}

\* Length and limits of the body, as far as it has been received.
BodyInv ==
    /\ pc = "stream" =>
          request.length # "invalid" /\ received <= MaxBody /\ ~Exceeds(received)
    /\ pc \in {"form"} \union AfterForm =>
          request.length # "invalid" /\ request.body <= MaxBody /\ ~Exceeds(request.body)

\* The form has been found good, and how much of its file has been copied.
CopyInv ==
    /\ pc \in AfterForm => FormVerdict = "good"
    /\ pc = "copy" => copied <= Upload.size /\ copied <= MaxUpload
    /\ pc \in AfterCopy => copied = Upload.size /\ copied <= MaxUpload /\ copied # 0

\* Which files exist.
FileInv ==
    /\ pc = "length" => form = "none" /\ temp = "none"
    /\ pc = "stream" => form = "parsing" /\ temp = "none"
    /\ pc = "form" => form = "open" /\ temp = "none"
    /\ pc \in AfterForm \ {"done"} => form = "open" /\ temp = "present"
    /\ pc \in {"rejected", "failed", "done"} =>
          form \in {"none", "closed"} /\ temp \in {"none", "removed"}

\* A rejection before the copy was complete has its cause.
CauseInv == pc = "rejected" /\ WellFormed => copied = Upload.size

CountInv ==
    /\ pc = "length" => received = 0
    /\ pc \in {"length", "stream", "form"} => copied = 0

IInv == /\ request \in Requests /\ TypeOK
        /\ BodyInv /\ CopyInv /\ FileInv /\ CauseInv /\ CountInv

-------------------------------------------------------------------------------
(* Requests and their parts.                                                *)

\* The sizes and places of a request's parts are numbers.
LEMMA PartTypes ==
    ASSUME request \in Requests
    PROVE  /\ request.body \in Nat /\ Len(parts) \in Nat
           /\ request.length \in {"absent", "invalid", "exact"}
           /\ \A i \in 1..Len(parts) :
                  /\ parts[i] \in Parts
                  /\ parts[i].at \in Nat /\ parts[i].size \in Nat
                  /\ parts[i].file \in BOOLEAN
                  /\ parts[i].at + 1 + parts[i].size < request.body
<1>1. /\ parts \in Seq(Parts)
      /\ request.body \in Nat /\ request.length \in {"absent", "invalid", "exact"}
      /\ \A i \in 1..Len(parts) : parts[i].at + 1 + parts[i].size < request.body
  BY RequestsAssumption DEF parts
<1>2. \A i \in 1..Len(parts) : parts[i] \in Parts
  BY <1>1
<1>3. \A p \in Parts : p.at \in Nat /\ p.size \in Nat /\ p.file \in BOOLEAN
  BY DEF Parts
<1> QED
  BY <1>1, <1>2, <1>3

\* The parts of a request can be counted.
LEMMA PartsAreFinite ==
    ASSUME request \in Requests
    PROVE  \A T : T \subseteq 1..Len(parts) => IsFiniteSet(T) /\ Cardinality(T) \in Nat
<1> DEFINE n == Len(parts)
<1>1. n \in Int /\ 1 \in Int
  BY PartTypes
<1> HIDE DEF n
<1>2. IsFiniteSet(1..n)
  BY <1>1, FS_Interval
<1>3. ASSUME NEW T, T \subseteq 1..n
      PROVE  IsFiniteSet(T) /\ Cardinality(T) \in Nat
  BY <1>2, <1>3, FS_Subset, FS_CardinalityType
<1> QED
  BY <1>3 DEF n

\* More of the body shows more parts.
LEMMA SeenGrows ==
    ASSUME request \in Requests, NEW m \in Nat, NEW n \in Nat, m <= n
    PROVE  /\ SeenFields(m) \subseteq SeenFields(n)
           /\ Cardinality(SeenFiles(m)) <= Cardinality(SeenFiles(n))
           /\ Cardinality(SeenFiles(m)) \in Nat /\ Cardinality(SeenFiles(n)) \in Nat
           /\ Cardinality(SeenFields(m)) <= Cardinality(SeenFields(n))
           /\ Cardinality(SeenFields(m)) \in Nat /\ Cardinality(SeenFields(n)) \in Nat
<1>1. SeenFields(m) \subseteq SeenFields(n) /\ SeenFiles(m) \subseteq SeenFiles(n)
  BY PartTypes DEF SeenFields, SeenFiles
<1>2. SeenFields(n) \subseteq 1..Len(parts) /\ SeenFiles(n) \subseteq 1..Len(parts)
  BY DEF SeenFields, SeenFiles
<1>3. IsFiniteSet(SeenFields(n)) /\ IsFiniteSet(SeenFiles(n))
  BY <1>2, PartsAreFinite
<1>4. /\ IsFiniteSet(SeenFields(m)) /\ IsFiniteSet(SeenFiles(m))
      /\ Cardinality(SeenFiles(m)) <= Cardinality(SeenFiles(n))
      /\ Cardinality(SeenFields(m)) <= Cardinality(SeenFields(n))
  BY <1>1, <1>3, FS_Subset
<1> QED
  BY <1>1, <1>3, <1>4, FS_CardinalityType

\* All of the body shows all of the parts.
LEMMA SeenWhole ==
    ASSUME request \in Requests
    PROVE  /\ SeenFiles(request.body) = {i \in 1..Len(parts) : parts[i].file}
           /\ SeenFields(request.body) = {i \in 1..Len(parts) : ~parts[i].file}
<1>1. \A i \in 1..Len(parts) : parts[i].at < request.body
  BY PartTypes
<1> QED
  BY <1>1 DEF SeenFiles, SeenFields

\* A limit of the parser that is exceeded stays exceeded.
LEMMA ExceedsGrows ==
    ASSUME request \in Requests, NEW m \in Nat, NEW n \in Nat, m <= n, Exceeds(m)
    PROVE  Exceeds(n)
<1>1. CASE Cardinality(SeenFiles(m)) > 1
  <2>1. /\ Cardinality(SeenFiles(m)) <= Cardinality(SeenFiles(n))
        /\ Cardinality(SeenFiles(m)) \in Nat /\ Cardinality(SeenFiles(n)) \in Nat
    BY SeenGrows
  <2> QED
    BY <1>1, <2>1 DEF Exceeds
<1>2. CASE Cardinality(SeenFields(m)) > MaxFields
  <2>1. /\ Cardinality(SeenFields(m)) <= Cardinality(SeenFields(n))
        /\ Cardinality(SeenFields(m)) \in Nat /\ Cardinality(SeenFields(n)) \in Nat
    BY SeenGrows
  <2> QED
    BY <1>2, <2>1, LimitsAssumption DEF Exceeds
<1>3. CASE \E i \in SeenFields(m) : DataSeen(m, i) > FieldLimit
  <2>1. PICK i \in SeenFields(m) : DataSeen(m, i) > FieldLimit
    BY <1>3
  <2>2. i \in SeenFields(n)
    BY <2>1, SeenGrows
  <2>3. i \in 1..Len(parts) /\ parts[i].at < m
    BY <2>1 DEF SeenFields
  <2>4. DataSeen(m, i) <= DataSeen(n, i) /\ DataSeen(m, i) \in Nat /\ DataSeen(n, i) \in Nat
    <3> DEFINE a == parts[i].at
               z == parts[i].size
    <3>1. a \in Nat /\ z \in Nat /\ a < m
      BY <2>3, PartTypes
    <3>2. /\ DataSeen(m, i) = IF a + 1 + z <= m THEN z ELSE m - a - 1
          /\ DataSeen(n, i) = IF a + 1 + z <= n THEN z ELSE n - a - 1
      BY DEF DataSeen
    <3> HIDE DEF a, z
    <3> QED
      BY <3>1, <3>2
  <2>5. DataSeen(n, i) > FieldLimit
    BY <2>1, <2>4, LimitsAssumption
  <2> QED
    BY <2>2, <2>5 DEF Exceeds
<1> QED
  BY <1>1, <1>2, <1>3 DEF Exceeds

\* The parser's limits, of the whole body.
LEMMA ExceedsWhole ==
    ASSUME request \in Requests
    PROVE  Exceeds(request.body) <=>
              \/ Cardinality({i \in 1..Len(parts) : parts[i].file}) > 1
              \/ Cardinality({i \in 1..Len(parts) : ~parts[i].file}) > MaxFields
              \/ \E i \in 1..Len(parts) : ~parts[i].file /\ parts[i].size > FieldLimit
<1>2. /\ SeenFiles(request.body) = {i \in 1..Len(parts) : parts[i].file}
      /\ SeenFields(request.body) = {i \in 1..Len(parts) : ~parts[i].file}
  BY SeenWhole
<1>3. \A i \in 1..Len(parts) : DataSeen(request.body, i) = parts[i].size
  BY PartTypes DEF DataSeen
<1>4. (\E i \in SeenFields(request.body) : DataSeen(request.body, i) > FieldLimit)
         <=> \E i \in 1..Len(parts) : ~parts[i].file /\ parts[i].size > FieldLimit
  BY <1>2, <1>3
<1> QED
  BY <1>2, <1>4 DEF Exceeds

\* Nothing is exceeded before the body begins.
LEMMA NothingExceeded == ASSUME request \in Requests PROVE ~Exceeds(0)
<1>1. SeenFiles(0) = {} /\ SeenFields(0) = {}
  BY PartTypes DEF SeenFiles, SeenFields
<1>2. Cardinality({}) = 0
  BY FS_EmptySet
<1> QED
  BY <1>1, <1>2, LimitsAssumption DEF Exceeds

\* Of a well-formed request the parser finds no limit exceeded.
LEMMA WellFormedFits ==
    ASSUME request \in Requests, WellFormed
    PROVE  request.body <= MaxBody /\ ~Exceeds(request.body) /\ request.length # "invalid"
<1> DEFINE Files == {i \in 1..Len(parts) : parts[i].file}
           Fields == {i \in 1..Len(parts) : ~parts[i].file}
<1>1. /\ Cardinality(Uploads) = 1
      /\ \A i \in 1..Len(parts) : parts[i].file => i \in Uploads
      /\ Cardinality(Fields) <= MaxFields
      /\ \A i \in 1..Len(parts) : ~parts[i].file => parts[i].size <= FieldLimit
  BY DEF WellFormed
<1>2. Files = Uploads
  BY <1>1 DEF Uploads
<1>3. Cardinality(Fields) \in Nat
  BY PartsAreFinite
<1>4. \A i \in 1..Len(parts) : parts[i].size \in Nat
  BY PartTypes
<1>5. ~\E i \in 1..Len(parts) : ~parts[i].file /\ parts[i].size > FieldLimit
  BY <1>1, <1>4, LimitsAssumption
<1>6. Exceeds(request.body) => Cardinality(Files) > 1 \/ Cardinality(Fields) > MaxFields
  BY <1>5, ExceedsWhole
<1>7. ~Exceeds(request.body)
  <2> HIDE DEF Files, Fields
  <2> QED
    BY <1>1, <1>2, <1>3, <1>6, LimitsAssumption
<1> QED
  BY <1>7 DEF WellFormed

\* The upload is the only part that counts as one.
LEMMA UploadIsTheOne ==
    ASSUME request \in Requests, Cardinality(Uploads) = 1
    PROVE  \E i \in 1..Len(parts) : Uploads = {i} /\ Upload = parts[i] /\ Upload.size \in Nat
<1>1. IsFiniteSet(Uploads)
  BY PartsAreFinite DEF Uploads
<1>2. PICK i : Uploads = {i}
  BY <1>1, FS_Singleton
<1>3. i \in 1..Len(parts)
  BY <1>2 DEF Uploads
<1> QED
  BY <1>2, <1>3, PartTypes DEF Upload

\* At most one item of a name is the latest.
LEMMA LatestIsUnique ==
    ASSUME request \in Requests, NEW name, NEW i, NEW j, Latest(name, i), Latest(name, j)
    PROVE  i = j
<1>1. i \in Nat /\ j \in Nat /\ i <= j /\ j <= i
  BY PartTypes DEF Latest, Named
<1> QED
  BY <1>1

\* What ReadForm finds good is what a well-formed request asks of its fields.
LEMMA VerdictIsOrderFree ==
    ASSUME request \in Requests, ~Exceeds(request.body)
    PROVE  FormVerdict = "good" <=>
              /\ Cardinality(Uploads) = 1
              /\ \A i \in 1..Len(parts) : parts[i].file => i \in Uploads
              /\ \A name \in {"schema", "models", "checks"} :
                    \A i \in Named(name) : Latest(name, i) => parts[i].value \in {"good", "blank"}
              /\ \E i \in Named("schema") : Latest("schema", i) /\ parts[i].value = "good"
<1> DEFINE Files == {i \in 1..Len(parts) : parts[i].file}
           Fine(name) == \A i \in Named(name) : Latest(name, i) =>
                             ~parts[i].file /\ parts[i].value \in {"good", "blank"}
<1>1. FormVerdict = "good" <=>
         Cardinality(Uploads) = 1 /\ Verdict("schema") = "good" /\ Verdict("models") = "good"
         /\ Verdict("checks") = "good"
  BY DEF FormVerdict
<1>2. ASSUME NEW name \in {"schema", "models", "checks"}
      PROVE  Verdict(name) = "good" <=>
                Fine(name) /\ (name = "schema" => Says(name, "good"))
  <2>1. \A i \in Named(name) : parts[i].value \in Values /\ parts[i].file \in BOOLEAN
    BY PartTypes DEF Named, Parts
  <2>2. Verdict(name) = "good" <=>
           ~Says(name, "raises") /\ ~Says(name, "bad") /\ (name = "schema" => Says(name, "good"))
    BY DEF Verdict
  <2>3. Fine(name) <=> ~Says(name, "raises") /\ ~Says(name, "bad")
    BY <2>1 DEF Says, Values
  <2> QED
    BY <2>2, <2>3
<1>3. ASSUME Cardinality(Uploads) = 1
      PROVE  Files = Uploads
  <2>1. PICK u : u \in 1..Len(parts) /\ Uploads = {u}
    BY <1>3, UploadIsTheOne
  <2>2. Uploads \subseteq Files
    BY DEF Uploads
  <2>3. IsFiniteSet(Files) /\ Cardinality(Files) \in Nat
    BY PartsAreFinite
  <2>4. Cardinality(Files) <= 1
    BY <2>3, ExceedsWhole
  <2> HIDE DEF Files
  <2>5. Cardinality(Files) = 1
    BY <2>2, <2>3, <2>4, <1>3, FS_Subset
  <2>6. PICK v : Files = {v}
    BY <2>3, <2>5, FS_Singleton
  <2> QED
    BY <2>1, <2>2, <2>6
<1>4. ASSUME Cardinality(Uploads) = 1
      PROVE  /\ \A i \in 1..Len(parts) : parts[i].file => i \in Uploads
             /\ \A name \in {"schema", "models", "checks"} :
                   \A i \in Named(name) : ~parts[i].file
  <2>1. Files = Uploads
    BY <1>3, <1>4
  <2>2. \A i \in Uploads : parts[i].name = "file"
    BY DEF Uploads
  <2> QED
    BY <2>1, <2>2, PartTypes DEF Named
<1>5. Cardinality(Uploads) = 1 =>
         (Says("schema", "good") <=>
            \E i \in Named("schema") : Latest("schema", i) /\ parts[i].value = "good")
  BY <1>4 DEF Says
<1> HIDE DEF Files
<1> QED
  BY <1>1, <1>2, <1>4, <1>5

-------------------------------------------------------------------------------
(* The invariant.                                                           *)

\* The parts of a request, and what follows from them, never change.
LEMMA RequestIsFixed ==
    ASSUME request' = request
    PROVE  /\ WellFormed' = WellFormed /\ FormVerdict' = FormVerdict
           /\ Upload' = Upload
           /\ \A n : Exceeds(n)' = Exceeds(n)
BY DEF WellFormed, FormVerdict, Verdict, Says, Latest, Named, Upload, Uploads, parts,
       Exceeds, SeenFiles, SeenFields, DataSeen

\* A form is good exactly if the request is well-formed but for the size of
\* its file.
LEMMA GoodMeansWellFormed ==
    ASSUME request \in Requests, request.body <= MaxBody, ~Exceeds(request.body),
           request.length # "invalid"
    PROVE  /\ WellFormed => FormVerdict = "good"
           /\ FormVerdict = "good" =>
                 /\ Cardinality(Uploads) = 1 /\ Upload.size \in Nat
                 /\ WellFormed <=> Upload.size \in 1..MaxUpload
<1>1. FormVerdict = "good" => Cardinality(Uploads) = 1
  BY VerdictIsOrderFree
<1>2. Cardinality(Uploads) = 1 =>
         /\ Upload.size \in Nat
         /\ (\A i \in Uploads : parts[i].size \in 1..MaxUpload) <=> Upload.size \in 1..MaxUpload
  BY UploadIsTheOne
<1>3. /\ Cardinality({i \in 1..Len(parts) : ~parts[i].file}) <= MaxFields
      /\ \A i \in 1..Len(parts) : ~parts[i].file => parts[i].size <= FieldLimit
  <2> DEFINE Fields == {i \in 1..Len(parts) : ~parts[i].file}
  <2>1. Cardinality(Fields) \in Nat /\ ~(Cardinality(Fields) > MaxFields)
    BY PartsAreFinite, ExceedsWhole
  <2>2. \A i \in 1..Len(parts) : parts[i].size \in Nat
    BY PartTypes
  <2>3. ~\E i \in 1..Len(parts) : ~parts[i].file /\ parts[i].size > FieldLimit
    BY ExceedsWhole
  <2>4. \A i \in 1..Len(parts) : ~parts[i].file => parts[i].size <= FieldLimit
    BY <2>2, <2>3, LimitsAssumption
  <2> HIDE DEF Fields
  <2>5. Cardinality(Fields) <= MaxFields
    BY <2>1, LimitsAssumption
  <2> QED
    BY <2>4, <2>5 DEF Fields
<1> QED
  BY <1>1, <1>2, <1>3, VerdictIsOrderFree DEF WellFormed

LEMMA InitIInv == Init => IInv
<1> SUFFICES ASSUME Init PROVE IInv
  OBVIOUS
<1>1. request \in Requests /\ TypeOK
  BY PartTypes DEF Init, TypeOK
<1>2. BodyInv /\ CopyInv /\ FileInv /\ CauseInv /\ CountInv
  BY DEF Init, BodyInv, CopyInv, FileInv, CauseInv, CountInv, AfterForm, AfterCopy
<1> QED
  BY <1>1, <1>2 DEF IInv

LEMMA NextIInv == IInv /\ [Next]_vars => IInv'
<1> SUFFICES ASSUME IInv, [Next]_vars PROVE IInv'
  OBVIOUS
<1> USE DEF AfterForm, AfterCopy
<1>1. request' = request
  BY DEF Next, vars, CheckLength, Receive, EndOfBody, StreamBreaks, ReadForm, Copy,
         CopyEnds, StoreFails, Detect, CheckEntry, NameArchive, CheckImage, LeaveContext,
         GiveUpForm
<1>2. /\ request \in Requests /\ request' \in Requests
      /\ request.body \in Nat /\ request.length \in {"absent", "invalid", "exact"}
      /\ WellFormed' = WellFormed /\ FormVerdict' = FormVerdict /\ Upload' = Upload
      /\ \A n : Exceeds(n)' = Exceeds(n)
  BY <1>1, RequestIsFixed, PartTypes DEF IInv
<1>3. CASE CheckLength
  <2>1. ~Exceeds(0) /\ MaxBody \in Nat
    BY <1>2, NothingExceeded, LimitsAssumption DEF MaxBody
  <2>2. TypeOK'
    BY <1>1, <1>3 DEF CheckLength, GiveUpForm, IInv, TypeOK
  <2>3. WellFormed => request.body <= MaxBody /\ request.length # "invalid"
    BY DEF WellFormed
  <2>4. received = 0 /\ received' = 0
    BY <1>3 DEF CheckLength, IInv, CountInv
  <2>5. BodyInv'
    BY <1>1, <1>2, <1>3, <2>1, <2>4 DEF CheckLength, GiveUpForm, BodyInv
  <2>6. CauseInv'
    BY <1>2, <1>3, <2>1, <2>3 DEF CheckLength, GiveUpForm, CauseInv
  <2> QED
    BY <1>2, <1>3, <2>2, <2>5, <2>6
    DEF CheckLength, GiveUpForm, IInv, CopyInv, FileInv, CountInv
<1>4. CASE Receive
  <2>1. PICK n \in received + 1 .. request.body :
           /\ received' = n
           /\ IF n > MaxBody \/ Exceeds(n) THEN GiveUpForm("rejected")
              ELSE UNCHANGED <<request, pc, form, temp, copied, entry, total, kind>>
    BY <1>4 DEF Receive
  <2>2. n \in Nat /\ n <= request.body /\ MaxBody \in Nat
    BY <1>2, <2>1, LimitsAssumption DEF IInv, TypeOK, MaxBody
  <2>3. pc = "stream"
    BY <1>4 DEF Receive
  <2>4. TypeOK'
    BY <1>1, <1>2, <2>1, <2>2 DEF GiveUpForm, IInv, TypeOK
  <2>5. CASE n > MaxBody \/ Exceeds(n)
    <3>1. ~WellFormed
      BY <1>2, <2>2, <2>5, WellFormedFits, ExceedsGrows
    <3> QED
      BY <1>2, <2>1, <2>3, <2>4, <2>5, <3>1
      DEF GiveUpForm, IInv, BodyInv, CopyInv, FileInv, CauseInv, CountInv
  <2>6. CASE ~(n > MaxBody \/ Exceeds(n))
    <3>1. pc' = pc /\ form' = form /\ temp' = temp /\ copied' = copied
      BY <2>1, <2>6
    <3>2. BodyInv'
      BY <1>1, <1>2, <2>1, <2>2, <2>3, <2>6, <3>1 DEF IInv, BodyInv
    <3> QED
      BY <1>2, <2>3, <2>4, <3>1, <3>2 DEF IInv, CopyInv, FileInv, CauseInv, CountInv
  <2> QED
    BY <2>5, <2>6
<1>5. CASE EndOfBody
  <2>1. BodyInv'
    BY <1>1, <1>2, <1>5 DEF EndOfBody, IInv, BodyInv
  <2> QED
    BY <1>1, <1>2, <1>5, <2>1
    DEF EndOfBody, IInv, TypeOK, CopyInv, FileInv, CauseInv, CountInv
<1>6. CASE StreamBreaks
  BY <1>1, <1>2, <1>6
  DEF StreamBreaks, IInv, TypeOK, BodyInv, CopyInv, FileInv, CauseInv, CountInv
<1>7. CASE ReadForm
  <2>1. pc = "form" /\ received' = received /\ copied' = copied /\ copied = 0
    BY <1>7 DEF ReadForm, GiveUpForm, IInv, CountInv
  <2>2. WellFormed => FormVerdict = "good"
    BY <1>2, <2>1, GoodMeansWellFormed DEF IInv, BodyInv
  <2>3. FormVerdict = "good" => Upload.size \in Nat
    BY <1>2, <2>1, GoodMeansWellFormed DEF IInv, BodyInv
  <2>4. TypeOK'
    BY <1>1, <1>7 DEF ReadForm, GiveUpForm, IInv, TypeOK
  <2>5. BodyInv'
    BY <1>1, <1>2, <1>7 DEF ReadForm, GiveUpForm, IInv, BodyInv
  <2>6. CopyInv'
    BY <1>2, <1>7, <2>1, <2>3, LimitsAssumption DEF ReadForm, GiveUpForm, CopyInv
  <2>7. FileInv' /\ CountInv'
    BY <1>7 DEF ReadForm, GiveUpForm, IInv, FileInv, CountInv
  <2>8. CauseInv'
    BY <1>2, <1>7, <2>2 DEF ReadForm, GiveUpForm, CauseInv
  <2> QED
    BY <1>2, <2>4, <2>5, <2>6, <2>7, <2>8 DEF IInv
<1>8. CASE Copy
  <2>1. /\ pc = "copy" /\ copied \in Nat /\ copied <= Upload.size /\ Rest > 0
        /\ copied' = IF Rest < ReadSize THEN Upload.size ELSE copied + ReadSize
    BY <1>8 DEF Copy, IInv, TypeOK, CopyInv
  <2>2. FormVerdict = "good" /\ Upload.size \in Nat
        /\ (WellFormed <=> Upload.size \in 1..MaxUpload)
    BY <1>2, <2>1, GoodMeansWellFormed DEF IInv, BodyInv, CopyInv
  <2>3. copied' \in Nat /\ copied' <= Upload.size
    BY <2>1, <2>2, LimitsAssumption DEF Rest
  <2>4. TypeOK'
    BY <1>1, <1>8, <2>3 DEF Copy, Leave, IInv, TypeOK
  <2>5. BodyInv' /\ FileInv' /\ CountInv'
    BY <1>1, <1>2, <1>8 DEF Copy, Leave, IInv, BodyInv, FileInv, CountInv
  <2>6. CopyInv'
    BY <1>2, <1>8, <2>1, <2>2, <2>3, LimitsAssumption DEF Copy, Leave, CopyInv
  <2>7. CauseInv'
    <3>1. copied' > MaxUpload => ~WellFormed
      BY <2>2, <2>3, LimitsAssumption
    <3> QED
      BY <1>2, <1>8, <3>1 DEF Copy, Leave, CauseInv
  <2> QED
    BY <1>2, <2>4, <2>5, <2>6, <2>7 DEF IInv
<1>9. CASE CopyEnds
  <2>1. pc = "copy" /\ copied \in Nat /\ copied' = copied /\ Rest = 0
    BY <1>9 DEF CopyEnds, IInv, TypeOK
  <2>2. FormVerdict = "good" /\ Upload.size \in Nat
    BY <1>2, <2>1, GoodMeansWellFormed DEF IInv, BodyInv, CopyInv
  <2>3. copied = Upload.size
    BY <2>1, <2>2 DEF Rest
  <2>4. TypeOK'
    BY <1>1, <1>9 DEF CopyEnds, Leave, IInv, TypeOK
  <2>5. BodyInv' /\ FileInv' /\ CountInv'
    BY <1>1, <1>2, <1>9 DEF CopyEnds, Leave, IInv, BodyInv, FileInv, CountInv
  <2>6. CopyInv' /\ CauseInv'
    BY <1>2, <1>9, <2>1, <2>2, <2>3 DEF CopyEnds, Leave, IInv, CopyInv, CauseInv
  <2> QED
    BY <1>2, <2>4, <2>5, <2>6 DEF IInv
<1>10. CASE StoreFails
  <2>1. TypeOK'
    BY <1>1, <1>2, <1>10 DEF StoreFails, Leave, IInv, TypeOK, Kinds
  <2>2. BodyInv' /\ FileInv' /\ CountInv'
    BY <1>1, <1>2, <1>10 DEF StoreFails, Leave, IInv, BodyInv, FileInv, CountInv
  <2>3. CopyInv' /\ CauseInv'
    BY <1>1, <1>2, <1>10 DEF StoreFails, Leave, IInv, CopyInv, CauseInv
  <2> QED
    BY <1>2, <2>1, <2>2, <2>3 DEF IInv
<1>11. CASE Detect
  <2>1. Detected # "unknown" => Detected \in Kinds
    BY DEF Detected, LegacyKind, Kinds
  <2>2. TypeOK'
    BY <1>1, <1>11, <2>1 DEF Detect, Leave, IInv, TypeOK
  <2>3. BodyInv' /\ FileInv' /\ CountInv'
    BY <1>1, <1>2, <1>11 DEF Detect, Leave, IInv, BodyInv, FileInv, CountInv
  <2>4. CopyInv' /\ CauseInv'
    BY <1>1, <1>2, <1>11 DEF Detect, Leave, IInv, CopyInv, CauseInv
  <2> QED
    BY <1>2, <2>2, <2>3, <2>4 DEF IInv
<1>12. CASE CheckEntry
  <2>1. /\ pc = "archive" /\ entry \in Nat /\ entry < Len(document.entries)
        /\ total \in Nat /\ entry' = entry + 1
        /\ total' = total + document.entries[entry + 1].size
        /\ received' = received /\ copied' = copied /\ kind' = kind
        /\ (pc' = pc /\ form' = form /\ temp' = temp) \/ Leave("rejected")
    BY <1>12 DEF CheckEntry, IInv, TypeOK
  <2>2. document.entries[entry + 1].size \in Nat
    <3>1. document.entries \in Seq(Entries)
      BY <1>2, RequestsAssumption DEF document, Documents
    <3>2. document.entries[entry + 1] \in Entries
      BY <2>1, <3>1
    <3> QED
      BY <3>2 DEF Entries
  <2>3. TypeOK'
    BY <1>1, <2>1, <2>2 DEF Leave, IInv, TypeOK
  <2>4. BodyInv' /\ FileInv' /\ CountInv'
    BY <1>1, <1>2, <2>1 DEF Leave, IInv, BodyInv, FileInv, CountInv
  <2>5. CopyInv' /\ CauseInv'
    BY <1>1, <1>2, <2>1 DEF Leave, IInv, CopyInv, CauseInv
  <2> QED
    BY <1>2, <2>3, <2>4, <2>5 DEF IInv
<1>13. CASE NameArchive
  <2>1. TypeOK'
    BY <1>1, <1>2, <1>13 DEF NameArchive, Leave, IInv, TypeOK, Kinds
  <2>2. BodyInv' /\ FileInv' /\ CountInv'
    BY <1>1, <1>2, <1>13 DEF NameArchive, Leave, IInv, BodyInv, FileInv, CountInv
  <2>3. CopyInv' /\ CauseInv'
    BY <1>1, <1>2, <1>13 DEF NameArchive, Leave, IInv, CopyInv, CauseInv
  <2> QED
    BY <1>2, <2>1, <2>2, <2>3 DEF IInv
<1>14. CASE CheckImage
  <2>1. TypeOK'
    BY <1>1, <1>2, <1>14 DEF CheckImage, Leave, IInv, TypeOK, Kinds
  <2>2. BodyInv' /\ FileInv' /\ CountInv'
    BY <1>1, <1>2, <1>14 DEF CheckImage, Leave, IInv, BodyInv, FileInv, CountInv
  <2>3. CopyInv' /\ CauseInv'
    BY <1>1, <1>2, <1>14 DEF CheckImage, Leave, IInv, CopyInv, CauseInv
  <2> QED
    BY <1>2, <2>1, <2>2, <2>3 DEF IInv
<1>15. CASE LeaveContext
  <2>1. TypeOK'
    BY <1>1, <1>2, <1>15 DEF LeaveContext, Leave, IInv, TypeOK, Kinds
  <2>2. BodyInv' /\ FileInv' /\ CountInv'
    BY <1>1, <1>2, <1>15 DEF LeaveContext, Leave, IInv, BodyInv, FileInv, CountInv
  <2>3. CopyInv' /\ CauseInv'
    BY <1>1, <1>2, <1>15 DEF LeaveContext, Leave, IInv, CopyInv, CauseInv
  <2> QED
    BY <1>2, <2>1, <2>2, <2>3 DEF IInv
<1>16. CASE UNCHANGED vars
  BY <1>1, <1>2, <1>16
  DEF vars, IInv, TypeOK, BodyInv, CopyInv, FileInv, CauseInv, CountInv
<1> QED
  BY <1>3, <1>4, <1>5, <1>6, <1>7, <1>8, <1>9, <1>10, <1>11, <1>12, <1>13, <1>14,
     <1>15, <1>16 DEF Next

LEMMA SpecIInv == Spec => []IInv
BY InitIInv, NextIInv, PTL DEF Spec

-------------------------------------------------------------------------------

\* Every variable keeps its type.
THEOREM TypeCorrect == Spec => []TypeOK
BY SpecIInv, PTL DEF IInv

\* No rejected upload leaves a file, for any limits and any request.
THEOREM NothingIsEverLeft == Spec => []NothingIsLeft
<1>1. IInv => NothingIsLeft
  BY DEF IInv, FileInv, NothingIsLeft, AfterForm
<1> QED
  BY <1>1, SpecIInv, PTL

\* However a body is cut, the same uploads are accepted, and stored whole.
THEOREM AcceptanceIsAlwaysOrderFree == Spec => []AcceptanceIsOrderFree
<1>1. IInv => AcceptanceIsOrderFree
  <2> SUFFICES ASSUME IInv PROVE AcceptanceIsOrderFree
    OBVIOUS
  <2>1. ASSUME pc \in AfterCopy
        PROVE  WellFormed /\ copied = Upload.size
    <3>1. /\ FormVerdict = "good" /\ copied = Upload.size /\ copied \in 1..MaxUpload
          /\ request \in Requests
      BY <2>1, LimitsAssumption DEF IInv, TypeOK, CopyInv, AfterForm, AfterCopy
    <3>2. request.body <= MaxBody /\ ~Exceeds(request.body) /\ request.length # "invalid"
      BY <2>1 DEF IInv, BodyInv, AfterForm, AfterCopy
    <3> QED
      BY <3>1, <3>2, GoodMeansWellFormed
  <2> QED
    BY <2>1 DEF IInv, CauseInv, AcceptanceIsOrderFree, AfterCopy
<1> QED
  BY <1>1, SpecIInv, PTL

-------------------------------------------------------------------------------
(* Induction over the entries of an archive.                                *)

\* A set of numbers that is not empty has a least one.
LEMMA LeastNumber ==
    ASSUME NEW S \in SUBSET Nat, S # {}
    PROVE  \E m \in S : \A k \in S : m <= k
<1>1. \E m \in S : \A k \in S : ~(<<k, m>> \in OpToRel(<, Nat))
  BY NatLessThanWellFounded, WFMin
<1>2. OpToRel(<, Nat) = {ss \in Nat \X Nat : ss[1] < ss[2]}
  BY Zenon DEF OpToRel
<1>3. \A k, m \in Nat : k < m => <<k, m>> \in {ss \in Nat \X Nat : ss[1] < ss[2]}
  OBVIOUS
<1>4. PICK m \in S : \A k \in S : ~(<<k, m>> \in OpToRel(<, Nat))
  BY <1>1
<1>5. \A k \in S : ~(k < m)
  BY <1>2, <1>3, <1>4, Zenon
<1>6. \A k \in S : k \in Nat
  OBVIOUS
<1>7. \A k \in S : m <= k
  <2> TAKE k \in S
  <2>1. m \in Nat /\ k \in Nat /\ ~(k < m)
    BY <1>5, <1>6
  <2> QED
    BY <2>1
<1> QED
  BY <1>7

\* Induction, for a set of numbers.
LEMMA NumberInduction ==
    ASSUME NEW S \in SUBSET Nat, 0 \in S, \A n \in S : n + 1 \in S
    PROVE  S = Nat
<1> SUFFICES ASSUME S # Nat PROVE FALSE
  OBVIOUS
<1>1. PICK m \in Nat \ S : \A k \in Nat \ S : m <= k
  BY LeastNumber
<1>2. m # 0 /\ m - 1 \in Nat /\ ~(m <= m - 1)
  BY <1>1
<1>3. m - 1 \in S
  BY <1>1, <1>2
<1>4. (m - 1) + 1 = m
  BY <1>1
<1> QED
  BY <1>1, <1>3, <1>4

\* The runs of a loop of N passes over a value of V: step[v][i] is what pass i
\* makes of v.
Steps(V) == [V -> [Nat -> V]]
Runs(V, N) == [0..N -> V]
IsRun(g, base, step, N) == g[0] = base /\ \A i \in 1..N : g[i] = step[g[i-1]][i]

\* Every loop has a run, so what a recursive function over 0..N says of itself
\* is true of it.
LEMMA RunExists ==
    ASSUME NEW V, NEW base \in V, NEW step \in Steps(V), NEW N \in Nat
    PROVE  \E g \in Runs(V, N) : IsRun(g, base, step, N)
<1>0. step \in [V -> [Nat -> V]]
  BY DEF Steps
<1> DEFINE Good(n, g) == /\ g \in [0..n -> V] /\ g[0] = base
                         /\ \A i \in 1..n : g[i] = step[g[i-1]][i]
           S == {n \in Nat : \E g \in [0..n -> V] : Good(n, g)}
<1>1. 0 \in S
  <2>1. Good(0, [i \in 0..0 |-> base])
    OBVIOUS
  <2> QED
    BY <2>1
<1>2. ASSUME NEW n \in S PROVE n + 1 \in S
  <2>1. PICK g \in [0..n -> V] : Good(n, g)
    BY <1>2
  <2> DEFINE h == [i \in 0..n+1 |-> IF i = n + 1 THEN step[g[n]][n + 1] ELSE g[i]]
  <2>2. n \in Nat /\ n \in 0..n /\ n + 1 \in Nat
    BY <1>2
  <2>3. g[n] \in V
    BY <2>1, <2>2
  <2>4. step[g[n]][n + 1] \in V
    BY <1>0, <2>2, <2>3
  <2>5. h \in [0..n+1 -> V]
    BY <2>1, <2>2, <2>4
  <2>6. h[0] = base
    BY <2>1, <2>2
  <2>7. ASSUME NEW i \in 1..n+1 PROVE h[i] = step[h[i-1]][i]
    <3>1. CASE i = n + 1
      <4>1. i \in 0..n+1 /\ i - 1 = n /\ n \in 0..n+1 /\ n # n + 1
        BY <2>2, <3>1
      <4> QED
        BY <3>1, <4>1
    <3>2. CASE i \in 1..n
      <4>1. i - 1 \in 0..n+1 /\ i - 1 # n + 1 /\ i # n + 1 /\ i \in 0..n+1
        BY <2>2, <3>2
      <4>2. h[i] = g[i] /\ h[i-1] = g[i-1]
        BY <4>1
      <4> QED
        BY <2>1, <3>2, <4>2
    <3> QED
      BY <2>2, <3>1, <3>2
  <2>8. Good(n + 1, h)
    BY <2>5, <2>6, <2>7
  <2> HIDE DEF h
  <2> QED
    BY <2>2, <2>5, <2>8
<1>3. S = Nat
  <2>1. S \in SUBSET Nat
    OBVIOUS
  <2> HIDE DEF S
  <2> QED
    BY <1>1, <1>2, <2>1, NumberInduction
<1>4. PICK g \in [0..N -> V] : Good(N, g)
  BY <1>3
<1> QED
  BY <1>4 DEF Runs, IsRun

\* The sums of the sizes, entry by entry.
LEMMA SumsOfSizes ==
    ASSUME NEW s \in Seq(Entries)
    PROVE  /\ SizeOf(s) \in [0..Len(s) -> Nat]
           /\ SizeOf(s)[0] = 0
           /\ \A n \in 1..Len(s) : SizeOf(s)[n] = SizeOf(s)[n - 1] + s[n].size
<1> DEFINE N == Len(s)
           step == [v \in Nat |-> [i \in Nat |-> IF i \in 1..N THEN v + s[i].size ELSE 0]]
<1>1. \A i \in 1..N : s[i].size \in Nat
  <2>1. \A i \in 1..N : s[i] \in Entries
    OBVIOUS
  <2> QED
    BY <2>1 DEF Entries
<1>2. N \in Nat /\ step \in [Nat -> [Nat -> Nat]]
  BY <1>1
<1>3. \A v \in Nat, i \in 1..N : step[v][i] = v + s[i].size
  OBVIOUS
<1> HIDE DEF step, N
<1>4. PICK g \in [0..N -> Nat] : g[0] = 0 /\ \A i \in 1..N : g[i] = step[g[i - 1]][i]
  <2>1. 0 \in Nat /\ step \in Steps(Nat)
    BY <1>2 DEF Steps
  <2>2. \E g \in Runs(Nat, N) : IsRun(g, 0, step, N)
    BY <1>2, <2>1, RunExists
  <2> QED
    BY <2>2 DEF Runs, IsRun
<1>5. \A i \in 1..N : g[i] = g[i - 1] + s[i].size
  <2> TAKE i \in 1..N
  <2>1. i - 1 \in 0..N
    BY <1>2
  <2> QED
    BY <1>3, <1>4, <2>1
<1>6. g = [i \in 0..N |-> IF i = 0 THEN 0 ELSE g[i - 1] + s[i].size]
  <2>1. g = [i \in 0..N |-> g[i]]
    OBVIOUS
  <2>2. \A i \in 0..N : g[i] = IF i = 0 THEN 0 ELSE g[i - 1] + s[i].size
    BY <1>2, <1>4, <1>5
  <2> QED
    BY <2>1, <2>2
<1>7. \E f : f = [i \in 0..N |-> IF i = 0 THEN 0 ELSE f[i - 1] + s[i].size]
  BY <1>6
<1>8. SizeOf(s) = [i \in 0..N |-> IF i = 0 THEN 0 ELSE SizeOf(s)[i - 1] + s[i].size]
  BY <1>7 DEF SizeOf, N
<1>9. /\ SizeOf(s)[0] = 0
      /\ \A i \in 1..N : SizeOf(s)[i] = SizeOf(s)[i - 1] + s[i].size
  <2> DEFINE sum == SizeOf(s)
  <2> HIDE DEF sum
  <2>1. \A i \in 0..N : sum[i] = IF i = 0 THEN 0 ELSE sum[i - 1] + s[i].size
    BY <1>8, Zenon DEF sum
  <2>2. 0 \in 0..N /\ \A i \in 1..N : i \in 0..N /\ i # 0
    BY <1>2
  <2> QED
    BY <2>1, <2>2 DEF sum
<1> DEFINE S == {n \in Nat : n \in 0..N => SizeOf(s)[n] \in Nat}
<1>10. S = Nat
  <2>1. 0 \in S
    BY <1>9
  <2>2. ASSUME NEW n \in S PROVE n + 1 \in S
    <3>1. SUFFICES ASSUME n + 1 \in 0..N PROVE SizeOf(s)[n + 1] \in Nat
      OBVIOUS
    <3>2. n + 1 \in 1..N /\ n \in 0..N /\ (n + 1) - 1 = n
      BY <1>2, <3>1
    <3>3. SizeOf(s)[n] \in Nat /\ s[n + 1].size \in Nat
      BY <1>1, <3>2 DEF N
    <3>4. SizeOf(s)[n + 1] = SizeOf(s)[n] + s[n + 1].size
      BY <1>9, <3>2
    <3> QED
      BY <3>3, <3>4
  <2>3. S \in SUBSET Nat
    OBVIOUS
  <2> HIDE DEF S
  <2> QED
    BY <2>1, <2>2, <2>3, NumberInduction
<1>11. \A n \in 0..N : SizeOf(s)[n] \in Nat
  <2> TAKE n \in 0..N
  <2>1. n \in Nat
    BY <1>2
  <2>2. n \in S
    BY <1>10, <2>1
  <2> QED
    BY <2>2
<1>12. SizeOf(s) \in [0..N -> Nat]
  BY <1>8, <1>11
<1> QED
  BY <1>9, <1>12 DEF N

\* More entries are not smaller together than fewer.
LEMMA SumsGrow ==
    ASSUME NEW s \in Seq(Entries), NEW m \in 0..Len(s)
    PROVE  SizeOf(s)[m] <= SizeOf(s)[Len(s)]
<1> DEFINE N == Len(s)
           sum == SizeOf(s)
           S == {k \in Nat : m + k \in 0..N => sum[m] <= sum[m + k]}
<1>1. /\ N \in Nat /\ m \in Nat /\ m <= N
      /\ sum \in [0..N -> Nat]
      /\ \A n \in 1..N : sum[n] = sum[n - 1] + s[n].size
  BY SumsOfSizes
<1>2. \A n \in 1..N : s[n].size \in Nat
  <2>1. \A n \in 1..N : s[n] \in Entries
    OBVIOUS
  <2> QED
    BY <2>1 DEF Entries
<1> HIDE DEF N, sum
<1>3. S = Nat
  <2>1. 0 \in S
    <3>1. m + 0 = m /\ m \in 0..N /\ sum[m] \in Nat
      BY <1>1
    <3> QED
      BY <3>1
  <2>2. ASSUME NEW k \in S PROVE k + 1 \in S
    <3>1. SUFFICES ASSUME m + (k + 1) \in 0..N PROVE sum[m] <= sum[m + (k + 1)]
      OBVIOUS
    <3>2. /\ m + k \in 0..N /\ m + (k + 1) \in 1..N /\ (m + (k + 1)) - 1 = m + k
          /\ m \in 0..N
      BY <1>1, <3>1
    <3>3. sum[m] <= sum[m + k]
      BY <3>2
    <3>4. sum[m + (k + 1)] = sum[m + k] + s[m + (k + 1)].size
      BY <1>1, <3>2
    <3>5. /\ sum[m] \in Nat /\ sum[m + k] \in Nat /\ s[m + (k + 1)].size \in Nat
      BY <1>1, <1>2, <3>2
    <3> QED
      BY <3>3, <3>4, <3>5
  <2>3. S \in SUBSET Nat
    OBVIOUS
  <2> HIDE DEF S
  <2> QED
    BY <2>1, <2>2, <2>3, NumberInduction
<1>4. N - m \in S /\ m + (N - m) = N /\ N \in 0..N
  BY <1>1, <1>3
<1> QED
  BY <1>4 DEF N, sum

-------------------------------------------------------------------------------
(* The limits of documents.                                                 *)

\* The part of UnsafeEntry that looks at one entry alone.
Harmless(e) == ~e.unsafe /\ e.size <= MaxRatio * e.packed

\* Where the checks of a document are, and what they have found so far.
CheckInv ==
    /\ pc \in {"length", "stream", "form", "copy", "detect"} => entry = 0 /\ total = 0
    /\ pc = "archive" =>
          /\ IsArchive /\ Len(document.entries) <= MaxEntries
          /\ entry <= Len(document.entries)
          /\ total = SizeOf(document.entries)[entry] /\ total <= MaxUncompressed
          /\ \A n \in 1..entry : Harmless(document.entries[n])
    /\ pc = "image" =>
          ~IsArchive /\ kind # "unknown" /\ document.magic \in {"png", "jpeg"}

LEMMA DocumentTypes ==
    ASSUME request \in Requests
    PROVE  /\ document.entries \in Seq(Entries) /\ Len(document.entries) \in Nat
           /\ \A n \in 1..Len(document.entries) :
                  /\ document.entries[n] \in Entries
                  /\ document.entries[n].size \in Nat /\ document.entries[n].packed \in Nat
                  /\ document.entries[n].unsafe \in BOOLEAN
           /\ document.pixels \in Nat \union {Unreadable}
<1>1. document.entries \in Seq(Entries) /\ document.pixels \in Nat \union {Unreadable}
  BY RequestsAssumption DEF document, Documents
<1>2. \A n \in 1..Len(document.entries) : document.entries[n] \in Entries
  BY <1>1
<1>3. \A e \in Entries : e.size \in Nat /\ e.packed \in Nat /\ e.unsafe \in BOOLEAN
  BY DEF Entries
<1> QED
  BY <1>1, <1>2, <1>3

\* The test of an entry is the test of the entry and that of the sum.
LEMMA UnsafeEntryMeans ==
    ASSUME NEW e \in Entries, NEW sum \in Nat
    PROVE  UnsafeEntry(e, sum) <=> ~Harmless(e) \/ sum > MaxUncompressed
<1>1. e.size \in Nat /\ e.packed \in Nat /\ MaxRatio \in Nat
  BY LimitsAssumption DEF Entries
<1>2. MaxRatio * e.packed \in Nat
  BY <1>1
<1>3. CASE e.packed = 0
  <2>1. MaxRatio * e.packed = 0
    BY <1>1, <1>3
  <2> QED
    BY <1>1, <1>3, <2>1 DEF UnsafeEntry, Harmless
<1>4. CASE e.packed # 0
  BY <1>1, <1>2, <1>4 DEF UnsafeEntry, Harmless
<1> QED
  BY <1>3, <1>4

\* What WithinLimits says of an archive.
LEMMA ArchiveWithinLimits ==
    ASSUME IsArchive
    PROVE  WithinLimits <=>
              /\ Len(document.entries) <= MaxEntries
              /\ SizeOf(document.entries)[Len(document.entries)] <= MaxUncompressed
              /\ \A n \in 1..Len(document.entries) : Harmless(document.entries[n])
BY DEF IsArchive, WithinLimits, Harmless

\* A rejection before the type is detected is not for the document's sake.
LEMMA EarlyRejections ==
    ASSUME IInv, IInv', WellFormed,
           CheckLength \/ Receive \/ ReadForm \/ Copy \/ CopyEnds
    PROVE  pc' # "rejected"
<1> SUFFICES ASSUME pc' = "rejected" PROVE FALSE
  OBVIOUS
<1>1. request' = request
  BY DEF CheckLength, Receive, ReadForm, Copy, CopyEnds, GiveUpForm
<1>2. WellFormed' = WellFormed /\ Upload' = Upload
  BY <1>1, RequestIsFixed
<1>3. copied' = Upload.size
  BY <1>2 DEF IInv, CauseInv
<1>4. Upload.size \in 1..MaxUpload /\ MaxUpload \in Nat
  <2>1. Cardinality(Uploads) = 1 /\ \A i \in Uploads : parts[i].size \in 1..MaxUpload
    BY DEF WellFormed
  <2> QED
    BY <2>1, UploadIsTheOne, LimitsAssumption DEF IInv
<1>5. CASE CheckLength \/ Receive \/ ReadForm
  <2>1. copied' = 0
    BY <1>5 DEF CheckLength, Receive, ReadForm, GiveUpForm, IInv, CountInv
  <2> QED
    BY <1>3, <1>4, <2>1
<1>6. CASE Copy
  <2>1. copied' > MaxUpload
    BY <1>6 DEF Copy
  <2> QED
    BY <1>3, <1>4, <2>1
<1>7. CASE CopyEnds
  <2>1. copied' = 0
    BY <1>7 DEF CopyEnds
  <2> QED
    BY <1>3, <1>4, <2>1
<1> QED
  BY <1>5, <1>6, <1>7

LEMMA InitLimits == Init => CheckInv /\ DocumentsAreWithinLimits
BY DEF Init, CheckInv, DocumentsAreWithinLimits

LEMMA NextLimits ==
    IInv /\ IInv' /\ CheckInv /\ DocumentsAreWithinLimits /\ [Next]_vars
        => (CheckInv /\ DocumentsAreWithinLimits)'
<1> SUFFICES ASSUME IInv, IInv', CheckInv, DocumentsAreWithinLimits, [Next]_vars
             PROVE  CheckInv' /\ DocumentsAreWithinLimits'
  BY Zenon
<1> USE DEF Leave
<1> DEFINE Told == Has("types") /\ (Has("word") \/ Has("xl"))
           sum == SizeOf(document.entries)
           N == Len(document.entries)
<1>1. request' = request
  BY DEF Next, vars, CheckLength, Receive, EndOfBody, StreamBreaks, ReadForm, Copy,
         CopyEnds, StoreFails, Detect, CheckEntry, NameArchive, CheckImage, LeaveContext,
         GiveUpForm
<1>2. /\ WellFormed' = WellFormed /\ document' = document
      /\ IsArchive' = IsArchive /\ Detected' = Detected /\ Told' = Told
      /\ WithinLimits' = WithinLimits
  BY <1>1, RequestIsFixed
  DEF document, IsArchive, Detected, LegacyKind, Has, WithinLimits
<1>3. /\ document.entries \in Seq(Entries) /\ N \in Nat
      /\ \A n \in 1..N : document.entries[n] \in Entries /\ document.entries[n].size \in Nat
      /\ document.pixels \in Nat \union {Unreadable}
      /\ sum \in [0..N -> Nat] /\ sum[0] = 0
      /\ \A n \in 1..N : sum[n] = sum[n - 1] + document.entries[n].size
      /\ \A n \in 0..N : sum[n] <= sum[N]
      /\ MaxUncompressed \in Nat /\ MaxEntries \in Nat /\ MaxPixels \in Nat
  BY DocumentTypes, SumsOfSizes, SumsGrow, LimitsAssumption DEF IInv
<1>4. /\ Len(document'.entries) = N /\ SizeOf(document'.entries) = sum
      /\ document'.entries = document.entries
  BY <1>2
<1>5. /\ entry \in Nat /\ total \in Nat
  BY DEF IInv, TypeOK
<1> HIDE DEF Told, sum, N
<1>6. IsArchive => (WithinLimits <=>
          /\ N <= MaxEntries /\ sum[N] <= MaxUncompressed
          /\ \A n \in 1..N : Harmless(document.entries[n]))
  BY ArchiveWithinLimits DEF N, sum
<1>7. DocumentsAreWithinLimits' <=>
         /\ pc' \in {"stored", "done"} => WithinLimits /\ kind' # "unknown"
         /\ pc' = "rejected" /\ WellFormed /\ WithinLimits =>
               IF IsArchive THEN ~Told ELSE Detected = "unknown"
  BY <1>2 DEF DocumentsAreWithinLimits, Told
<1>8. CheckInv' <=>
         /\ pc' \in {"length", "stream", "form", "copy", "detect"} => entry' = 0 /\ total' = 0
         /\ pc' = "archive" =>
               /\ IsArchive /\ N <= MaxEntries /\ entry' <= N
               /\ total' = sum[entry'] /\ total' <= MaxUncompressed
               /\ \A n \in 1..entry' : Harmless(document.entries[n])
         /\ pc' = "image" =>
               ~IsArchive /\ kind' # "unknown" /\ document.magic \in {"png", "jpeg"}
  BY <1>2, <1>4 DEF CheckInv, N, sum, Harmless
<1>9. CASE CheckLength \/ Receive \/ EndOfBody \/ StreamBreaks \/ ReadForm \/ Copy \/ CopyEnds
  <2>1. /\ pc \in {"length", "stream", "form", "copy"}
        /\ entry' = entry /\ total' = total
        /\ pc' \in {"stream", "form", "copy", "detect", "rejected", "failed", "broken"}
    BY <1>9 DEF CheckLength, Receive, EndOfBody, StreamBreaks, ReadForm, Copy, CopyEnds,
                GiveUpForm
  <2>2. entry' = 0 /\ total' = 0
    BY <2>1 DEF CheckInv
  <2>3. pc' = "rejected" => ~WellFormed
    BY <1>9, EarlyRejections DEF EndOfBody, StreamBreaks
  <2> QED
    BY <1>7, <1>8, <2>1, <2>2, <2>3
<1>10. CASE StoreFails
  BY <1>7, <1>8, <1>10 DEF StoreFails
<1>11. CASE Detect
  <2>1. pc = "detect" /\ entry' = 0 /\ total' = 0
    BY <1>11 DEF Detect, CheckInv
  <2>2. CASE IsArchive /\ N <= MaxEntries /\ pc' = "archive"
    BY <1>3, <1>7, <1>8, <2>1, <2>2
  <2>3. CASE /\ ~IsArchive /\ Detected # "unknown" /\ kind' = Detected
             /\ pc' = IF Detected \in {"png", "jpeg"} THEN "image" ELSE "stored"
    <3>1. IF Detected \in {"png", "jpeg"} THEN document.magic \in {"png", "jpeg"}
                                          ELSE WithinLimits
      BY <2>3 DEF WithinLimits, Detected, LegacyKind
    <3> QED
      BY <1>7, <1>8, <2>3, <3>1
  <2>4. CASE /\ IF IsArchive THEN N > MaxEntries ELSE Detected = "unknown"
             /\ pc' = "rejected"
    <3>1. IsArchive => ~WithinLimits
      BY <1>3, <1>6, <2>4
    <3> QED
      BY <1>7, <1>8, <2>4, <3>1
  <2> QED
    BY <1>11, <2>2, <2>3, <2>4 DEF Detect, N
<1>12. CASE CheckEntry
  <2> DEFINE e == document.entries[entry + 1]
  <2>1. /\ pc = "archive" /\ entry < N /\ total' = total + e.size /\ entry' = entry + 1
        /\ pc' = IF UnsafeEntry(e, total + e.size) THEN "rejected" ELSE "archive"
    BY <1>12 DEF CheckEntry, N
  <2>2. /\ IsArchive /\ N <= MaxEntries /\ total = sum[entry] /\ total <= MaxUncompressed
        /\ \A n \in 1..entry : Harmless(document.entries[n])
    BY <2>1 DEF CheckInv, N, sum
  <2>3. /\ entry + 1 \in 1..N /\ (entry + 1) - 1 = entry /\ entry + 1 \in 0..N
        /\ e \in Entries /\ e.size \in Nat
    BY <1>3, <1>5, <2>1
  <2>4. total' = sum[entry + 1] /\ total' \in Nat
    <3>1. sum[entry + 1] = sum[(entry + 1) - 1] + document.entries[entry + 1].size
      BY <1>3, <2>3
    <3>2. sum[entry + 1] = sum[entry] + e.size
      BY <2>3, <3>1
    <3> HIDE DEF e
    <3> QED
      BY <1>5, <2>1, <2>2, <2>3, <3>2
  <2>5. UnsafeEntry(e, total + e.size) <=> ~Harmless(e) \/ total' > MaxUncompressed
    BY <2>1, <2>3, <2>4, UnsafeEntryMeans
  <2> HIDE DEF e
  <2>6. CASE Harmless(e) /\ ~(total' > MaxUncompressed)
    <3>1. pc' = "archive"
      BY <2>1, <2>5, <2>6
    <3>2. \A n \in 1..entry' : Harmless(document.entries[n])
      <4>1. \A n \in 1..entry' : n \in 1..entry \/ n = entry + 1
        BY <1>5, <2>1
      <4> QED
        BY <2>2, <2>6, <4>1 DEF e
    <3>3. entry' <= N /\ total' <= MaxUncompressed
      BY <1>3, <1>5, <2>1, <2>4, <2>6, SMTT(30)
    <3> QED
      BY <1>7, <1>8, <2>1, <2>2, <2>4, <3>1, <3>2, <3>3
  <2>7. CASE ~Harmless(e) \/ total' > MaxUncompressed
    <3>1. pc' = "rejected"
      BY <2>1, <2>5, <2>7
    <3>2. ~WithinLimits
      <4>1. CASE ~Harmless(e)
        BY <1>6, <2>2, <2>3, <4>1 DEF e
      <4>2. CASE total' > MaxUncompressed
        <5>1. sum[entry + 1] <= sum[N] /\ sum[N] \in Nat /\ sum[entry + 1] \in Nat
          BY <1>3, <2>3
        <5>2. ~(sum[N] <= MaxUncompressed)
          BY <1>3, <2>4, <4>2, <5>1
        <5> QED
          BY <1>6, <2>2, <5>2
      <4> QED
        BY <2>7, <4>1, <4>2
    <3> QED
      BY <1>7, <1>8, <3>1, <3>2
  <2> QED
    BY <2>6, <2>7
<1>13. CASE NameArchive
  <2>1. /\ pc = "archive" /\ entry = N
        /\ IF Told THEN kind' \in {"docx", "xlsx"} /\ pc' = "stored" ELSE pc' = "rejected"
    BY <1>13 DEF NameArchive, N, Told
  <2>2. IsArchive /\ WithinLimits
    BY <1>6, <2>1 DEF CheckInv, N, sum
  <2> QED
    BY <1>7, <1>8, <2>1, <2>2
<1>14. CASE CheckImage
  <2>1. /\ pc = "image" /\ kind' = kind
        /\ IF document.pixels = Unreadable \/ document.pixels > MaxPixels
           THEN pc' = "rejected" ELSE pc' = "stored"
    BY <1>14 DEF CheckImage
  <2>2. ~IsArchive /\ kind # "unknown" /\ document.magic \in {"png", "jpeg"}
    BY <2>1 DEF CheckInv
  <2>3. pc' = "stored" => WithinLimits
    <3>1. pc' = "stored" => document.pixels \in 0..MaxPixels
      BY <1>3, <2>1
    <3> QED
      BY <2>2, <3>1 DEF WithinLimits
  <2>4. pc' = "rejected" => ~WithinLimits
    BY <1>3, <2>1, <2>2 DEF WithinLimits, Unreadable
  <2> QED
    BY <1>7, <1>8, <2>1, <2>2, <2>3, <2>4
<1>15. CASE LeaveContext
  BY <1>7, <1>8, <1>15 DEF LeaveContext, DocumentsAreWithinLimits
<1>16. CASE UNCHANGED vars
  <2>1. /\ pc' = pc /\ kind' = kind /\ entry' = entry /\ total' = total
    BY <1>16 DEF vars
  <2> QED
    BY <1>7, <1>8, <2>1 DEF CheckInv, DocumentsAreWithinLimits, N, sum, Told
<1> QED
  BY <1>9, <1>10, <1>11, <1>12, <1>13, <1>14, <1>15, <1>16 DEF Next

\* No file that breaks a limit is extracted, and none that keeps them turned away.
THEOREM DocumentsAlwaysWithinLimits == Spec => []DocumentsAreWithinLimits
<1>1. Init => CheckInv /\ DocumentsAreWithinLimits
  BY InitLimits
<1> QED
  BY <1>1, NextLimits, SpecIInv, PTL DEF Spec
===============================================================================
