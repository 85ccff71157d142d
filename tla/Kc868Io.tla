------------------------------ MODULE Kc868Io ------------------------------
(***************************************************************************)
(* The I/O application of the KC868-A16 (kc868_a16_application.c, first    *)
(* part) with the I2C manager (i2c_manager.c) beneath it:                  *)
(*   - ApplicationInitialization, run by opener_init: InitializeI2C brings *)
(*     up the bus, probes the four expanders with a 0xFF byte              *)
(*     (pcf8574_scan), attaches them and drives every port high;           *)
(*     InitializeAdc configures the four analog channels;                  *)
(*   - AfterAssemblyDataReceived (a new O->T output assembly: UpdateOutputs*)
(*     then UpdateInputs) and BeforeAssemblyDataSend (UpdateInputs);       *)
(*   - i2c_manager_deinit, which nothing in the repository calls;          *)
(*   - a restart of the ESP32, which zeroes every static variable but not  *)
(*     the expanders, and a power cycle, which resets those too.           *)
(* All of it runs on the OpENer task, so each entry point is one step. A   *)
(* byte is a member of a small set; every I2C transfer and conversion may  *)
(* fail (Fail).                                                            *)
(***************************************************************************)
EXTENDS Integers, Bitwise

CONSTANTS
    Patterns,   \* output bytes a scanner sends, input terminals active at a read
    Raw,        \* results of adc_oneshot_read: conversions, or Fail
    MaxInits,   \* model bound: ApplicationInitialization calls per boot
    MaxBoots    \* model bound: restarts and power cycles

Fail == -1   \* a transfer or conversion that did not return ESP_OK

ASSUME /\ Patterns \subseteq 0..255 /\ Raw \subseteq (0..4095) \cup {Fail}
       /\ MaxInits \in Nat \ {0} /\ MaxBoots \in Nat

\* s_pcf8574_inputs_1_8 ... s_pcf8574_outputs_9_16, in the order
\* InitializeI2C creates them, and the assembly byte each one serves.
Inputs == {"in1", "in2"}
Outputs == {"out1", "out2"}
Expanders == Inputs \cup Outputs
InitOrder == <<"in1", "in2", "out1", "out2">>
ByteOf == [e \in Expanders |-> IF e \in {"in1", "out1"} THEN 0 ELSE 1]
InputOf == [i \in 0..1 |-> IF i = 0 THEN "in1" ELSE "in2"]

ANALOG_INPUT_COUNT == 4
Chan == 0..(ANALOG_INPUT_COUNT - 1)
INPUT_ANALOG_START_OFFSET == 2
INPUT_ASSEMBLY_SIZE == INPUT_ANALOG_START_OFFSET + 2 * ANALOG_INPUT_COUNT
I2C_FREQ_HZ == 400000

\* (uint8_t)~x
Inv8(x) == x ^^ 255

\* A PCF8574 port reads low where its latch holds 0 or where the
\* optocoupler of an active terminal pulls it down.
PinLevels(l, active) == l & Inv8(active)

VARIABLES
    i2cInit,    \* s_initialized of i2c_manager.c (s_bus_handle != NULL)
    busFreq,    \* s_bus_freq_hz
    attached,   \* attached[e]: devices for e's address added to the bus
    handle,     \* handle[e]: s_pcf8574_<e> != NULL
    pcfInit,    \* s_pcf8574_initialized
    adcInit,    \* s_adc_initialized (s_adc_handle != NULL)
    inits,      \* ApplicationInitialization calls since the last boot
    inAsm,      \* s_input_assembly_data
    outAsm,     \* s_output_assembly_data
    latch,      \* latch[e]: the port byte expander e drives (hardware)
    boots       \* restarts and power cycles so far

(* History, read only by properties. *)
VARIABLES
    seen,       \* seen[i]: terminals active at the last good read of byte i, or Fail
    sampled,    \* sampled[ch]: the value the last UpdateInputs stored for ch
    commanded,  \* commanded[i]: OR of the output bytes i received since boot
    synced      \* synced[e]: the last write to output expander e succeeded

ioVars == <<i2cInit, busFreq, attached, handle, pcfInit, adcInit, inits, inAsm,
            outAsm, latch, boots>>
histVars == <<seen, sampled, commanded, synced>>
vars == <<ioVars, histVars>>

Byte == 0..255

TypeOK ==
    /\ i2cInit \in BOOLEAN /\ busFreq \in {0, I2C_FREQ_HZ}
    /\ attached \in [Expanders -> 0..MaxInits]
    /\ handle \in [Expanders -> BOOLEAN]
    /\ pcfInit \in BOOLEAN /\ adcInit \in BOOLEAN
    /\ inits \in 0..MaxInits
    /\ inAsm \in [0..(INPUT_ASSEMBLY_SIZE - 1) -> Byte]
    /\ outAsm \in [0..1 -> Byte]
    /\ latch \in [Expanders -> Byte]
    /\ boots \in 0..MaxBoots
    /\ seen \in [0..1 -> Patterns \cup {Fail}]
    /\ sampled \in [Chan -> (Raw \ {Fail}) \cup {0}]
    /\ commanded \in [0..1 -> Byte]
    /\ synced \in [Outputs -> BOOLEAN]

\* The static variables, and the history, as a boot leaves them (Restart
\* sets the same values).
Booted ==
    /\ i2cInit = FALSE /\ busFreq = 0
    /\ attached = [e \in Expanders |-> 0]
    /\ handle = [e \in Expanders |-> FALSE]
    /\ pcfInit = FALSE /\ adcInit = FALSE /\ inits = 0
    /\ inAsm = [j \in 0..(INPUT_ASSEMBLY_SIZE - 1) |-> 0]
    /\ outAsm = [i \in 0..1 |-> 0]
    /\ seen = [i \in 0..1 |-> Fail]
    /\ sampled = [ch \in Chan |-> 0]
    /\ commanded = [i \in 0..1 |-> 0]
    /\ synced = [e \in Outputs |-> FALSE]

\* Power-on: the PCF8574 ports come up high.
Init ==
    /\ Booted
    /\ latch = [e \in Expanders |-> 255]
    /\ boots = 0

---------------------------------------------------------------------------
(* i2c_manager.c *)

\* i2c_manager_init(freq) as InitializeI2C calls it; ok: i2c_new_master_bus
\* returned ESP_OK. Result: the new s_initialized and s_bus_freq_hz.
i2c_manager_init(ok) ==
    IF i2cInit THEN [init |-> TRUE, freq |-> busFreq]
    ELSE IF ok THEN [init |-> TRUE, freq |-> I2C_FREQ_HZ]
    ELSE [init |-> FALSE, freq |-> busFreq]

\* i2c_manager_deinit. When the manager is not initialised, or
\* i2c_del_master_bus fails, nothing changes; the ESP-IDF driver deletes
\* only a bus that has no device left on it.
i2c_manager_deinit ==
    /\ i2cInit
    /\ \A e \in Expanders : attached[e] = 0
    /\ i2cInit' = FALSE /\ busFreq' = 0
    /\ UNCHANGED <<attached, handle, pcfInit, adcInit, inits, inAsm, outAsm, latch,
                   boots, histVars>>

---------------------------------------------------------------------------
(* The PCF8574 driver (part_006) *)

\* pcf8574_scan over the four expected addresses: for each one a temporary
\* device is added, sent the byte 0xFF, and removed again. A PCF8574 keeps
\* a byte it receives as its port latch. sc[e]: adding the device and the
\* transmit to e succeeded. Result: the latches after the scan.
pcf8574_scan(sc) == [e \in Expanders |-> IF sc[e] THEN 255 ELSE latch[e]]

---------------------------------------------------------------------------
(* kc868_a16_application.c *)

\* InitializeI2C. busOk: i2c_new_master_bus succeeded; sc: the transfers
\* of pcf8574_scan, whose result only selects log lines; k: the
\* pcf8574_init calls that succeeded before the first failure (4: all of
\* them; each fails when malloc or i2c_master_bus_add_device does); wr[e]:
\* the pcf8574_write of 0xFF to e succeeded.
InitializeI2CInitZero(busOk, sc, k, wr) ==
    IF pcfInit
    THEN UNCHANGED <<i2cInit, busFreq, attached, handle, pcfInit, latch>>
    ELSE LET bus == i2c_manager_init(busOk)
             made == {InitOrder[j] : j \in 1..k}
             scanned == pcf8574_scan(sc)
         IN /\ i2cInit' = bus.init /\ busFreq' = bus.freq
            /\ IF ~bus.init
               THEN UNCHANGED <<attached, handle, pcfInit, latch>>
               ELSE /\ attached' = [e \in Expanders |->
                                      IF e \in made THEN attached[e] + 1 ELSE attached[e]]
                    /\ handle' = [e \in Expanders |-> handle[e] \/ e \in made]
                    /\ pcfInit' = (k = 4)
                    /\ latch' = IF k = 4
                                THEN [e \in Expanders |-> IF wr[e] THEN 0 ELSE scanned[e]]
                                ELSE scanned

InitializeI2C(busOk, sc, k, wr) ==
    IF pcfInit
    THEN UNCHANGED <<i2cInit, busFreq, attached, handle, pcfInit, latch>>
    ELSE LET bus == i2c_manager_init(busOk)
             made == {InitOrder[j] : j \in 1..k}
             scanned == pcf8574_scan(sc)
         IN /\ i2cInit' = bus.init /\ busFreq' = bus.freq
            /\ IF ~bus.init
               THEN UNCHANGED <<attached, handle, pcfInit, latch>>
               ELSE /\ attached' = [e \in Expanders |->
                                      IF e \in made THEN attached[e] + 1 ELSE attached[e]]
                    /\ handle' = [e \in Expanders |-> handle[e] \/ e \in made]
                    /\ pcfInit' = (k = 4)
                    /\ latch' = IF k = 4
                                THEN [e \in Expanders |-> IF wr[e] THEN 255 ELSE scanned[e]]
                                ELSE scanned

\* InitializeAdc. ok: adc_oneshot_new_unit and the four
\* adc_oneshot_config_channel calls succeeded; on a failure the unit is
\* deleted again and s_adc_handle is NULL.
InitializeAdc(ok) == adcInit' = (adcInit \/ ok)

\* StoreAnalogValue: the two bytes stored for one channel, low byte first.
StoreAnalogValueHighFirst(v) == <<shiftR(v, 8), v & 255>>

StoreAnalogValue(v) == <<v & 255, shiftR(v, 8)>>

\* UpdateInputs: the new s_input_assembly_data. rd[i]: the terminals
\* active when pcf8574_read of byte i ran, or Fail; raw[ch]: what
\* adc_oneshot_read returned for ch, or Fail.
UpdateInputsRawPins(rd, raw) ==
    LET digital(i) ==
            IF ~pcfInit \/ rd[i] = Fail THEN 0
            ELSE PinLevels(latch[InputOf[i]], rd[i])
        value(ch) ==
            IF ~adcInit \/ raw[ch] = Fail THEN 0
            ELSE IF raw[ch] < 0 THEN 0 ELSE raw[ch]
        ch(j) == (j - INPUT_ANALOG_START_OFFSET) \div 2
    IN [j \in 0..(INPUT_ASSEMBLY_SIZE - 1) |->
          IF j < INPUT_ANALOG_START_OFFSET THEN digital(j)
          ELSE StoreAnalogValue(value(ch(j)))[1 + ((j - INPUT_ANALOG_START_OFFSET) % 2)]]

UpdateInputs(rd, raw) ==
    LET digital(i) ==
            IF ~pcfInit \/ rd[i] = Fail THEN 0
            ELSE Inv8(PinLevels(latch[InputOf[i]], rd[i]))
        value(ch) ==
            IF ~adcInit \/ raw[ch] = Fail THEN 0
            ELSE IF raw[ch] < 0 THEN 0 ELSE raw[ch]
        ch(j) == (j - INPUT_ANALOG_START_OFFSET) \div 2
    IN [j \in 0..(INPUT_ASSEMBLY_SIZE - 1) |->
          IF j < INPUT_ANALOG_START_OFFSET THEN digital(j)
          ELSE StoreAnalogValue(value(ch(j)))[1 + ((j - INPUT_ANALOG_START_OFFSET) % 2)]]

\* UpdateOutputs: the new port bytes. wr[e]: pcf8574_write to e succeeded.
UpdateOutputs(data, wr) ==
    [e \in Expanders |->
        IF pcfInit /\ e \in Outputs /\ wr[e] THEN Inv8(data[ByteOf[e]]) ELSE latch[e]]

\* The history an UpdateInputs leaves.
InputsSeen(rd, raw) ==
    /\ seen' = [i \in 0..1 |-> IF pcfInit /\ rd[i] # Fail THEN rd[i] ELSE Fail]
    /\ sampled' = [ch \in Chan |-> IF adcInit /\ raw[ch] # Fail THEN raw[ch] ELSE 0]

\* The reads and conversions of one UpdateInputs.
Reads == [0..1 -> Patterns \cup {Fail}]
Samples == [Chan -> Raw]

---------------------------------------------------------------------------
(* Entry points. *)

\* ApplicationInitialization: InitializeI2C, InitializeAdc, then the
\* assembly objects and connection points of OpENer (not modelled).
ApplicationInitialization ==
    /\ inits < MaxInits
    /\ \E busOk \in BOOLEAN, sc \in [Expanders -> BOOLEAN], k \in 0..4,
          wr \in [Expanders -> BOOLEAN], ok \in BOOLEAN :
          /\ InitializeI2C(busOk, sc, k, wr)
          /\ InitializeAdc(ok)
          /\ synced' = [e \in Outputs |-> IF pcfInit THEN synced[e] ELSE pcfInit' /\ wr[e]]
    /\ inits' = inits + 1
    /\ UNCHANGED <<inAsm, outAsm, boots, seen, sampled, commanded>>

\* OpENer stores a new output assembly (data) and calls
\* AfterAssemblyDataReceived: UpdateOutputs, then UpdateInputs. The
\* assemblies exist once ApplicationInitialization has run.
AfterAssemblyDataReceived ==
    /\ inits > 0
    /\ \E data \in [0..1 -> Patterns], wr \in [Outputs -> BOOLEAN], rd \in Reads,
          raw \in Samples :
          /\ outAsm' = data
          /\ latch' = UpdateOutputs(data, wr)
          /\ inAsm' = UpdateInputs(rd, raw)
          /\ InputsSeen(rd, raw)
          /\ commanded' = [i \in 0..1 |-> commanded[i] | data[i]]
          /\ synced' = [e \in Outputs |-> IF pcfInit THEN wr[e] ELSE synced[e]]
    /\ UNCHANGED <<i2cInit, busFreq, attached, handle, pcfInit, adcInit, inits, boots>>

\* OpENer is about to send the input assembly: BeforeAssemblyDataSend.
BeforeAssemblyDataSend ==
    /\ inits > 0
    /\ \E rd \in Reads, raw \in Samples :
          /\ inAsm' = UpdateInputs(rd, raw)
          /\ InputsSeen(rd, raw)
    /\ UNCHANGED <<i2cInit, busFreq, attached, handle, pcfInit, adcInit, inits, outAsm,
                   latch, boots, commanded, synced>>

\* The ESP32 restarts (power: the whole board lost power). The PCF8574s
\* are powered from the board and have no reset input, so a restart of
\* the ESP32 alone leaves their ports as they were.
Restart ==
    /\ boots < MaxBoots
    /\ i2cInit' = FALSE /\ busFreq' = 0
    /\ attached' = [e \in Expanders |-> 0]
    /\ handle' = [e \in Expanders |-> FALSE]
    /\ pcfInit' = FALSE /\ adcInit' = FALSE /\ inits' = 0
    /\ inAsm' = [j \in 0..(INPUT_ASSEMBLY_SIZE - 1) |-> 0]
    /\ outAsm' = [i \in 0..1 |-> 0]
    /\ seen' = [i \in 0..1 |-> Fail]
    /\ sampled' = [ch \in Chan |-> 0]
    /\ commanded' = [i \in 0..1 |-> 0]
    /\ synced' = [e \in Outputs |-> FALSE]
    /\ \E power \in BOOLEAN :
          latch' = IF power THEN [e \in Expanders |-> 255] ELSE latch
    /\ boots' = boots + 1

Next ==
    \/ ApplicationInitialization
    \/ AfterAssemblyDataReceived
    \/ BeforeAssemblyDataSend
    \/ i2c_manager_deinit
    \/ Restart

Spec == Init /\ [][Next]_vars

---------------------------------------------------------------------------
(* Properties. *)

\* The relays (energised where a port is low) show the output assembly
\* whenever the expanders are initialised and the last write to the port
\* succeeded: the 0xFF of InitializeI2C matches the zeroed assembly, and
\* UpdateOutputs writes the complement of the byte the port serves.
RelaysFollowOutputAssembly ==
    \A e \in Outputs : pcfInit /\ synced[e] => Inv8(latch[e]) = outAsm[ByteOf[e]]

\* Each digital byte of the input assembly is the set of terminals that
\* were active when UpdateInputs last read it, or 0 when that read failed
\* or the expanders were not initialised: the input ports must be latched
\* high and the read complemented.
InputsReportTerminals ==
    \A i \in 0..1 : inAsm[i] = IF seen[i] = Fail THEN 0 ELSE seen[i]

\* Each analog channel occupies two bytes of the input assembly, low byte
\* first, and they encode the conversion UpdateInputs last stored.
AnalogEncodesReading ==
    \A ch \in Chan :
        LET off == INPUT_ANALOG_START_OFFSET + 2 * ch IN
        inAsm[off] + 256 * inAsm[off + 1] = sampled[ch]

\* The comment of InitializeI2C: all relays are OFF once the outputs are
\* initialised. After ApplicationInitialization has run, no relay is
\* energised that no output assembly received since the boot asked for.
RelaysOffUntilCommanded ==
    inits > 0 => \A e \in Outputs : Inv8(latch[e]) & Inv8(commanded[ByteOf[e]]) = 0

=============================================================================
