-------------------------------- MODULE Sinks ---------------------------------
(***************************************************************************)
(* The weak hash and weak cipher sinks: which calls of the cryptographic   *)
(* libraries report which algorithm, with which frames to skip, and where  *)
(* the report is located.                                                  *)
(*                                                                         *)
(* Orchestrion and otelc prepend a report to the body of a sink function.  *)
(* Orchestrion gives that statement a <generated> position, otelc does not.*)
(* The libraries are external: a call of theirs is the sequence of the     *)
(* call stacks, leaf first, in which it enters its functions.              *)
(***************************************************************************)
EXTENDS SelectLocation

CONSTANTS
  MaxCallers,   \* frames of the application above the library
  MaxHashes     \* hashes of one key derivation

(* A call of the library is 4 frames deep; the index of no frame wraps.    *)
ASSUME SinksAssumption ==
  /\ MaxCallers \in Nat \ {0} /\ MaxCallers + 4 <= Uint32
  /\ MaxHashes \in Nat \ {0}

VARIABLES
  tool,     \* the tool that instrumented the build: "orchestrion" or "otelc"
  joined,   \* whether the tracer joins a value receiver and its method in one name
  enabled,  \* config.Enabled
  callers,  \* frames of the application, leaf first
  call,     \* the library's call: the call stacks to enter, and the algorithms it uses
  entered,  \* how many functions of the call were entered
  reports   \* what was reported, in order

sinkInputs == <<tool, joined, enabled, callers, call, stackTraceEnabled, captures>>
sinkVars == <<tool, joined, enabled, callers, call, entered, reports>>

-----------------------------------------------------------------------------
(* The frames to skip.                                                     *)

HashPackage == [MD4 |-> "golang.org/x/crypto/md4", MD5 |-> "crypto/md5", SHA1 |-> "crypto/sha1"]
DESPackage == "crypto/des"
RC4Package == "crypto/rc4"
BlowfishPackage == "golang.org/x/crypto/blowfish"
RC2Package == "golang.org/x/crypto/pkcs12/internal/rc2"
PKCS12Package == "golang.org/x/crypto/pkcs12"

NoFrame == SkipFrame("", <<>>, <<"">>)

SinkFrame(hash, function) == SkipFrame(HashPackage[hash], <<>>, <<function>>)

WeakHashFrames(hash) ==
  <<SkipFrame("crypto", <<>>, <<"Hash", "New">>), SinkFrame(hash, "New"), SinkFrame(hash, "Sum")>>

SinkFrames ==
  [DES       |-> <<SkipFrame(DESPackage, <<>>, <<"NewCipher">>)>>,
   TripleDES |-> <<SkipFrame(DESPackage, <<>>, <<"NewTripleDESCipher">>)>>,
   RC4       |-> <<SkipFrame(RC4Package, <<>>, <<"NewCipher">>)>>,
   Blowfish  |-> <<SkipFrame(BlowfishPackage, <<>>, <<"NewCipher">>),
                   SkipFrame(BlowfishPackage, <<>>, <<"NewSaltedCipher">>)>>,
   RC2       |-> <<SkipFrame(RC2Package, <<>>, <<"New">>)>>,
   PBEWithSHAAnd3KeyTripleDESCBC |-> <<SkipFrame(PKCS12Package, <<"shaWithTripleDESCBC">>, <<"create">>)>>,
   PBEWithSHAAnd40BitRC2CBC      |-> <<SkipFrame(PKCS12Package, <<"shaWith40BitRC2CBC">>, <<"create">>)>>]

(* The list of ReportWeakHash or of ReportWeakCipher.                      *)
SkipList(report) ==
  IF report.name \in DOMAIN HashPackage THEN WeakHashFrames(report.name)
  ELSE <<report.skipCaller>> \o SinkFrames[report.name]

-----------------------------------------------------------------------------
(* The functions of the libraries: the symbol, the algorithm the function  *)
(* is a constructor of, and the statements injected into it.               *)

Function(symbol, algorithm, injected) ==
  [symbol |-> symbol, algorithm |-> algorithm, injected |-> injected]

ReportOf(name, skipCaller) == [name |-> name, skipCaller |-> skipCaller]

Sink(symbol, name) == Function(symbol, name, <<ReportOf(name, NoFrame)>>)

Helper(class, function) == Function(SkipFrame(PKCS12Package, class, <<function>>), "none", <<>>)

HashSink(hash, function) == Sink(SinkFrame(hash, function), hash)
HashNew(hash) == Function(SkipFrame("crypto", <<"Hash">>, <<"New">>), hash, <<>>)

DESNewCipher == Sink(SkipFrame(DESPackage, <<>>, <<"NewCipher">>), "DES")
DESNewTripleDESCipher == Sink(SkipFrame(DESPackage, <<>>, <<"NewTripleDESCipher">>), "TripleDES")
RC4NewCipher == Sink(SkipFrame(RC4Package, <<>>, <<"NewCipher">>), "RC4")
RC2New == Sink(SkipFrame(RC2Package, <<>>, <<"New">>), "RC2")

BlowfishNewCipher ==
  Function(SkipFrame(BlowfishPackage, <<>>, <<"NewCipher">>), "Blowfish",
           <<ReportOf("Blowfish", SkipFrame(BlowfishPackage, <<>>, <<"NewSaltedCipher">>))>>)

(* Mutant: the statement is injected without its condition.                *)
BlowfishNewSaltedCipher_Always(salt) ==
  Sink(SkipFrame(BlowfishPackage, <<>>, <<"NewSaltedCipher">>), "Blowfish")

(* if len(salt) != 0: without a salt NewCipher is called, which reports.   *)
BlowfishNewSaltedCipher(salt) ==
  Function(SkipFrame(BlowfishPackage, <<>>, <<"NewSaltedCipher">>), "Blowfish",
           IF salt # 0 THEN <<ReportOf("Blowfish", NoFrame)>> ELSE <<>>)

PBECreate(name, class) == Sink(SkipFrame(PKCS12Package, <<class>>, <<"create">>), name)

(* The call stacks of functions that call each other, outermost first.     *)
Nested(functions) == [n \in DOMAIN functions |-> Reverse(SubSeq(functions, 1, n))]

Call(stacks, uses) == [stacks |-> stacks, uses |-> uses]

(* A key and an initialization vector are derived, each by SHA-1 several   *)
(* times, then the cipher of the PBE is created.  Functions without an     *)
(* injected statement only appear below the sinks they call.               *)
PKCS12Decode(name, class, cipher, keyHashes, ivHashes) ==
  LET outer == <<Helper(<<>>, "Decode"), Helper(<<>>, "pbDecrypterFor")>>
      Stack(functions) == Reverse(outer \o functions)
      Hash(function) == Stack(<<Helper(<<class>>, function), HashSink("SHA1", "Sum")>>)
  IN  Call([n \in 1..(keyHashes + ivHashes) |->
              IF n <= keyHashes THEN Hash("deriveKey") ELSE Hash("deriveIV")]
             \o <<Stack(<<PBECreate(name, class)>>), Stack(<<PBECreate(name, class), cipher>>)>>,
           [n \in 1..(keyHashes + ivHashes) |-> "SHA1"] \o <<name, cipher.algorithm>>)

SinkCalls ==
  {Call(Nested(<<HashSink(hash, "New")>>), <<hash>>) : hash \in DOMAIN HashPackage}
    \union {Call(Nested(<<HashSink(hash, "Sum")>>), <<hash>>) : hash \in {"MD5", "SHA1"}}
    \union {Call(Nested(<<HashNew(hash), HashSink(hash, "New")>>), <<hash>>) : hash \in DOMAIN HashPackage}
    \union {Call(Nested(<<sink>>), <<sink.algorithm>>) :
              sink \in {DESNewCipher, DESNewTripleDESCipher, RC4NewCipher, BlowfishNewCipher}}
    \union {Call(Nested(<<BlowfishNewSaltedCipher(1)>>), <<"Blowfish">>),
            Call(Nested(<<BlowfishNewSaltedCipher(0), BlowfishNewCipher>>), <<"Blowfish">>)}

Decodings ==
  {PKCS12Decode("PBEWithSHAAnd3KeyTripleDESCBC", "shaWithTripleDESCBC", DESNewTripleDESCipher,
                keyHashes, ivHashes) : keyHashes, ivHashes \in 1..MaxHashes}
    \union {PKCS12Decode("PBEWithSHAAnd40BitRC2CBC", "shaWith40BitRC2CBC", RC2New,
                         keyHashes, ivHashes) : keyHashes, ivHashes \in 1..MaxHashes}

Calls == SinkCalls \union Decodings

-----------------------------------------------------------------------------
(* Frames.  The algorithm of a frame is the model's, no code reads it.     *)

Frame(symbol, algorithm, file, hidden) ==
  [namespace |-> symbol.namespace,
   class     |-> IF joined THEN <<>> ELSE symbol.class,
   function  |-> IF joined THEN symbol.class \o symbol.function ELSE symbol.function,
   file |-> file, hidden |-> hidden, algorithm |-> algorithm]

CallerFrame(file, hidden) ==
  [namespace |-> "app", class |-> <<"*", "Server">>, function |-> <<"Serve">>,
   file |-> file, hidden |-> hidden, algorithm |-> "none"]

CallerFrames ==
  {CallerFrame("source", FALSE), CallerFrame("source", TRUE)}
    \union (IF tool = "orchestrion" THEN {CallerFrame(Generated, FALSE)} ELSE {})

(* The call stack of a statement injected into the leaf.                   *)
FramesOf(functions) ==
  [n \in DOMAIN functions |->
     Frame(functions[n].symbol, functions[n].algorithm,
           IF n = 1 /\ tool = "orchestrion" THEN Generated ELSE "source", FALSE)] \o callers

-----------------------------------------------------------------------------
Init ==
  /\ tool \in {"orchestrion", "otelc"}
  /\ joined \in BOOLEAN
  /\ enabled \in BOOLEAN
  /\ stackTraceEnabled \in BOOLEAN
  /\ captures \in BOOLEAN
  /\ callers \in BoundedSeq(CallerFrames, MaxCallers) \ {<<>>}
  /\ call \in Calls
  /\ entered = 0
  /\ reports = <<>>
  /\ stack = <<>> /\ skipFrames = <<>> /\ pc = "library"
  /\ trace = <<>> /\ rawFramesSkipped = 0 /\ attempts = 0

Entered == call.stacks[entered + 1]

EnterOther ==
  /\ pc = "library"
  /\ entered < Len(call.stacks)
  /\ Head(Entered).injected = <<>>
  /\ entered' = entered + 1
  /\ UNCHANGED <<vars, tool, joined, enabled, callers, call, reports>>

(* ReportWeakHash and ReportWeakCipher return at once when IAST is off.    *)
EnterDisabledSink ==
  /\ pc = "library"
  /\ entered < Len(call.stacks)
  /\ Head(Entered).injected # <<>>
  /\ ~enabled
  /\ entered' = entered + 1
  /\ UNCHANGED <<vars, tool, joined, enabled, callers, call, reports>>

EnterSink ==
  /\ pc = "library"
  /\ entered < Len(call.stacks)
  /\ Head(Entered).injected # <<>>
  /\ enabled
  /\ entered' = entered + 1
  /\ Begin(FramesOf(Entered), SkipList(Head(Entered).injected[1]))
  /\ UNCHANGED <<tool, joined, enabled, callers, call, reports>>

(* The vulnerability with the location of the selected frame, if any.      *)
Locate ==
  /\ pc = "done"
  /\ reports' = Append(reports,
       [name |-> Head(call.stacks[entered]).injected[1].name,
        location |-> IF trace = <<>> THEN <<>>
                     ELSE <<LocationFromFrame(stack[trace[1].raw])>>])
  /\ pc' = "library"
  /\ UNCHANGED <<tool, joined, enabled, callers, call, entered>>
  /\ UNCHANGED <<stack, skipFrames, stackTraceEnabled, captures, trace, rawFramesSkipped, attempts>>

Next == EnterOther \/ EnterDisabledSink \/ EnterSink \/ (SelectStep /\ UNCHANGED sinkVars) \/ Locate

Spec == Init /\ [][Next]_<<vars, sinkVars>>

-----------------------------------------------------------------------------
(* The search for a location is a bounded loop over the call stack         *)
(* (selectLocationTrace).                                                  *)
TypeOK ==
  /\ pc \in {"library", "skip", "recapture", "done"}
  /\ rawFramesSkipped \in 0..Len(stack)
  /\ attempts \in 0..MaxLocationRecaptureAttempts
  /\ \A n \in DOMAIN trace : trace[n].raw \in DOMAIN stack /\ trace[n].index \in 0..(Uint32 - 1)
  /\ entered \in 0..Len(call.stacks)

Finished == pc = "library" /\ entered = Len(call.stacks)

(* A finished call of a library has reported each of its uses of a weak    *)
(* algorithm, a hash computed or a cipher constructed, once and in order,  *)
(* although its functions delegate to each other and several of them are   *)
(* sinks: a key derivation that hashes n times gives n reports, and a      *)
(* constructor that delegates gives one.  A disabled IAST has reported     *)
(* nothing (ReportWeakHash, ReportWeakCipher and the injection rules).     *)
OneReportPerUse ==
  Finished =>
    [n \in DOMAIN reports |-> reports[n].name] = IF enabled THEN call.uses ELSE <<>>

Reported == Head(call.stacks[entered]).algorithm

(* The frames a report may be located at: shown by the tracer, written by  *)
(* a person, and not part of the library's construction of the algorithm.  *)
Candidates == {n \in DOMAIN stack :
  ~stack[n].hidden /\ stack[n].file # Generated /\ stack[n].algorithm # Reported}

LeadingSkips ==
  Cardinality({n \in DOMAIN stack : ~stack[n].hidden /\ \A c \in Candidates : n < c})

(* The captures reach beyond the frames to skip: a deep trace has lost     *)
(* none of the first frames that remain, the captures one by one suffice.  *)
InReach ==
  /\ captures
  /\ IF stackTraceEnabled
       THEN LeadingSkips < TraceDepth - TopFrames \/ Len(Visible(stack, 0)) <= TraceDepth
       ELSE LeadingSkips <= MaxLocationRecaptureAttempts

(* A report is never located in the function that was instrumented, in one *)
(* that delegates to it or in generated code, but at the call of them      *)
(* nearest to it, which is a library's own when it is the library that     *)
(* uses the algorithm, for both tools and both layouts of value receivers  *)
(* (Report, selectLocationTrace and the lists of skipped frames).          *)
LocatedAtTheCaller ==
  pc = "done" =>
    /\ trace # <<>> => trace[1].raw \in Candidates
    /\ InReach /\ Candidates # {} => trace # <<>> /\ \A c \in Candidates : trace[1].raw <= c

(* The frames of a recorded trace are numbered from the frame it is        *)
(* located at, hidden frames included: an unsigned subtraction never wraps *)
(* (selectLocationTrace).                                                  *)
IndicesFromTheLeaf ==
  pc = "done" =>
    \A n \in DOMAIN trace : trace[n].index = trace[n].raw - rawFramesSkipped - 1

(* A name without the parentheses around a pointer receiver.               *)
Words(name) ==
  IF Len(name) > 1 /\ name[2] = "(" THEN <<name[1]>> \o SubSeq(name, 3, Len(name) - 1) ELSE name

(* The location of a report names the function of the frame it is located *)
(* at in full, with its namespace and its receiver, in whichever layout    *)
(* the tracer gives them (LocationFromFrame).                              *)
LocationNamesTheCaller ==
  pc = "library" /\ reports # <<>> /\ trace # <<>> =>
    LET frame    == stack[trace[1].raw]
        location == Last(reports).location[1]
    IN  Words(location.class) \o location.method
          = <<frame.namespace>> \o frame.class \o frame.function
=============================================================================
