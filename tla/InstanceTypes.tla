---------------------------- MODULE InstanceTypes ----------------------------
(***************************************************************************)
(* What is known of a VM size: the static list (azure_instance_types.go),  *)
(* the SKU API, and the two ways to look a size up (azure_instance.go).    *)
(*                                                                         *)
(* The name of a size is the sequence of its parts without "Standard_" and *)
(* in lower case: <<"nc", "6s_v3">>, <<"ds", "2_v2", "_promo">>. A row of  *)
(* the list is <<family, size, VCPU, MemoryMb, GPU>>.  Of the list, which  *)
(* is generated data, the accelerated sizes, the small general-purpose     *)
(* ones and the DS series are here.                                        *)
(***************************************************************************)
EXTENDS Integers, Sequences

\* General purpose.
ASeries ==
    { <<"a", "1_v2", 1, 2048, 0>>, <<"a", "2_v2", 2, 4096, 0>>,
      <<"a", "2m_v2", 2, 16384, 0>>, <<"a", "4_v2", 4, 8192, 0>>,
      <<"a", "4m_v2", 4, 32768, 0>>, <<"a", "8_v2", 8, 16384, 0>>,
      <<"a", "8m_v2", 8, 65536, 0>> }

\* Burstable, the first half of the list.
BSeries ==
    { <<"b", "12ms", 12, 49152, 0>>, <<"b", "16als_v2", 16, 32768, 0>>,
      <<"b", "16as_v2", 16, 65536, 0>>, <<"b", "16ls_v2", 16, 32768, 0>>,
      <<"b", "16ms", 16, 65536, 0>>, <<"b", "16pls_v2", 16, 32768, 0>>,
      <<"b", "16ps_v2", 16, 65536, 0>>, <<"b", "16s_v2", 16, 65536, 0>>,
      <<"b", "1ls", 1, 0, 0>>, <<"b", "1ms", 1, 2048, 0>>, <<"b", "1s", 1, 1024, 0>>,
      <<"b", "20ms", 20, 81920, 0>>, <<"b", "2als_v2", 2, 4096, 0>>,
      <<"b", "2as_v2", 2, 8192, 0>>, <<"b", "2ats_v2", 2, 1024, 0>>,
      <<"b", "2ls_v2", 2, 4096, 0>>, <<"b", "2ms", 2, 8192, 0>>,
      <<"b", "2pls_v2", 2, 4096, 0>>, <<"b", "2ps_v2", 2, 8192, 0>> }

\* Burstable, the others.
BLargeSeries ==
    { <<"b", "2pts_v2", 2, 1024, 0>>, <<"b", "2s", 2, 4096, 0>>,
      <<"b", "2s_v2", 2, 8192, 0>>, <<"b", "2ts_v2", 2, 1024, 0>>,
      <<"b", "32als_v2", 32, 65536, 0>>, <<"b", "32as_v2", 32, 131072, 0>>,
      <<"b", "32ls_v2", 32, 65536, 0>>, <<"b", "32s_v2", 32, 131072, 0>>,
      <<"b", "4als_v2", 4, 8192, 0>>, <<"b", "4as_v2", 4, 16384, 0>>,
      <<"b", "4ls_v2", 4, 8192, 0>>, <<"b", "4ms", 4, 16384, 0>>,
      <<"b", "4pls_v2", 4, 8192, 0>>, <<"b", "4ps_v2", 4, 16384, 0>>,
      <<"b", "4s_v2", 4, 16384, 0>>, <<"b", "8als_v2", 8, 16384, 0>>,
      <<"b", "8as_v2", 8, 32768, 0>>, <<"b", "8ls_v2", 8, 16384, 0>>,
      <<"b", "8ms", 8, 32768, 0>>, <<"b", "8pls_v2", 8, 16384, 0>>,
      <<"b", "8ps_v2", 8, 32768, 0>>, <<"b", "8s_v2", 8, 32768, 0>> }

\* Nvidia GPUs for computing.
NCSeries ==
    { <<"nc", "12s_v3", 12, 229376, 2>>, <<"nc", "16ads_a10_v4", 16, 204800, 1>>,
      <<"nc", "16as_t4_v3", 16, 112640, 1>>, <<"nc", "24ads_a100_v4", 24, 225280, 1>>,
      <<"nc", "24rs_v3", 24, 458752, 4>>, <<"nc", "24s_v3", 24, 458752, 4>>,
      <<"nc", "32ads_a10_v4", 32, 409600, 2>>, <<"nc", "40ads_h100_v5", 40, 327680, 1>>,
      <<"nc", "48ads_a100_v4", 48, 450560, 2>>, <<"nc", "4as_t4_v3", 4, 28672, 1>>,
      <<"nc", "64as_t4_v3", 64, 450560, 4>>, <<"nc", "6s_v3", 6, 114688, 1>>,
      <<"nc", "80adis_h100_v5", 80, 655360, 2>>, <<"nc", "8ads_a10_v4", 8, 102400, 1>>,
      <<"nc", "8as_t4_v3", 8, 57344, 1>>, <<"nc", "96ads_a100_v4", 96, 901120, 4>>,
      <<"ncc", "40ads_h100_v5", 40, 327680, 1>> }

\* GPUs for training, and the NG series.
NDSeries ==
    { <<"nd", "40rs_v2", 40, 688128, 8>>, <<"nd", "96amsr_a100_v4", 96, 1843200, 8>>,
      <<"nd", "96asr_v4", 96, 921600, 8>>, <<"nd", "96is_mi300x_v5", 96, 1894400, 0>>,
      <<"nd", "96isr_h100_v5", 96, 1945600, 8>>,
      <<"nd", "96isr_h200_v5", 96, 1894400, 8>>,
      <<"nd", "96isr_mi300x_v5", 96, 1894400, 8>>,
      <<"ng", "16ads_v620_v1", 16, 32768, 0>>, <<"ng", "32adms_v620_v1", 32, 180224, 0>>,
      <<"ng", "32ads_v620_v1", 32, 65536, 0>>, <<"ng", "8ads_v620_v1", 8, 16384, 0>> }

\* FPGAs, which the SKU API counts as GPUs.
NPSeries ==
    { <<"np", "10s", 10, 172032, 1>>, <<"np", "20s", 20, 344064, 2>>,
      <<"np", "40s", 40, 688128, 4>> }

\* GPUs for visualisation.
NVSeries ==
    { <<"nv", "12ads_a10_v5", 12, 112640, 1>>, <<"nv", "12ads_v710_v5", 12, 65536, 0>>,
      <<"nv", "12s_v2", 12, 229376, 2>>, <<"nv", "12s_v3", 12, 114688, 1>>,
      <<"nv", "16as_v4", 16, 57344, 1>>, <<"nv", "18ads_a10_v5", 18, 225280, 1>>,
      <<"nv", "24ads_v710_v5", 24, 131072, 0>>, <<"nv", "24s_v2", 24, 458752, 4>>,
      <<"nv", "24s_v3", 24, 229376, 2>>, <<"nv", "28adms_v710_v5", 28, 163840, 0>>,
      <<"nv", "32as_v4", 32, 114688, 1>>, <<"nv", "36adms_a10_v5", 36, 901120, 1>>,
      <<"nv", "36ads_a10_v5", 36, 450560, 1>>, <<"nv", "48s_v3", 48, 458752, 4>>,
      <<"nv", "4ads_v710_v5", 4, 16384, 0>>, <<"nv", "4as_v4", 4, 14336, 1>>,
      <<"nv", "6ads_a10_v5", 6, 56320, 1>>, <<"nv", "6s_v2", 6, 114688, 1>>,
      <<"nv", "72ads_a10_v5", 72, 901120, 2>>, <<"nv", "8ads_v710_v5", 8, 32768, 0>>,
      <<"nv", "8as_v4", 8, 28672, 1>> }

\* The DS series, some of whose sizes have a promotional counterpart.
DSSeries ==
    { <<"ds", "1", 1, 3072, 0>>, <<"ds", "11", 2, 14336, 0>>,
      <<"ds", "11-1_v2", 2, 14336, 0>>, <<"ds", "11_v2", 2, 14336, 0>>,
      <<"ds", "12", 4, 28672, 0>>, <<"ds", "12-1_v2", 4, 28672, 0>>,
      <<"ds", "12-2_v2", 4, 28672, 0>>, <<"ds", "12_v2", 4, 28672, 0>>,
      <<"ds", "13", 8, 57344, 0>>, <<"ds", "13-2_v2", 8, 57344, 0>>,
      <<"ds", "13-4_v2", 8, 57344, 0>>, <<"ds", "13_v2", 8, 57344, 0>>,
      <<"ds", "14", 16, 114688, 0>>, <<"ds", "14-4_v2", 16, 114688, 0>>,
      <<"ds", "14-8_v2", 16, 114688, 0>> }

DSLargeSeries ==
    { <<"ds", "14_v2", 16, 114688, 0>>, <<"ds", "15_v2", 20, 143360, 0>>,
      <<"ds", "1_v2", 1, 3072, 0>>, <<"ds", "2", 2, 7168, 0>>,
      <<"ds", "2_v2", 2, 7168, 0>>, <<"ds", "3", 4, 14336, 0>>,
      <<"ds", "3_v2", 4, 14336, 0>>, <<"ds", "4", 8, 28672, 0>>,
      <<"ds", "4_v2", 8, 28672, 0>>, <<"ds", "5_v2", 16, 57344, 0>> }

\* Those with a promotional counterpart, which has the same capacity.
DSPromoSeries ==
    {r \in DSSeries \cup DSLargeSeries :
       r[2] \in {"11_v2", "12_v2", "13_v2", "14_v2", "2_v2", "3_v2", "4_v2", "5_v2"}}

\* The sizes of these series whose architecture is arm64.
ArmSizes ==
    { <<"b", s>> : s \in {"16pls_v2", "16ps_v2", "2pls_v2", "2ps_v2", "2pts_v2",
                          "4pls_v2", "4ps_v2", "8pls_v2", "8ps_v2"} }

Row(sku, r) ==
    [sku |-> sku, VCPU |-> r[3], MemoryMb |-> r[4], GPU |-> r[5],
     Architecture |-> IF <<r[1], r[2]>> \in ArmSizes THEN "arm64" ELSE "amd64"]

StaticList ==
    {Row(<<r[1], r[2]>>, r) : r \in ASeries \cup BSeries \cup BLargeSeries
                                   \cup DSSeries \cup DSLargeSeries \cup NCSeries
                                   \cup NDSeries \cup NPSeries \cup NVSeries}
    \cup {Row(<<r[1], r[2], "_promo">>, r) : r \in DSPromoSeries}

(***************************************************************************)
(* The SKU API.  `api` is a set of records: the name of a size and what    *)
(* the API says of its capabilities, Missing where it has no such one.     *)
(* MemoryMB is the API's MemoryGB, a decimal fraction, in megabytes.       *)
(***************************************************************************)

Missing == -1

WholeGigabytes(mb) == (mb \div 1024) * 1024

\* The row the generator of the list writes for a size: what is missing stays 0.
GeneratedRow(c) ==
    [sku |-> c.sku, VCPU |-> IF c.vCPUs = Missing THEN 0 ELSE c.vCPUs,
     MemoryMb |-> IF c.MemoryMB = Missing THEN 0 ELSE WholeGigabytes(c.MemoryMB),
     GPU |-> IF c.GPUs = Missing THEN 0 ELSE c.GPUs,
     Architecture |-> IF c.arch = "arm64" THEN "arm64" ELSE "amd64"]

getGpuFromSku(c) == IF c.GPUs = Missing THEN 0 ELSE c.GPUs

(***************************************************************************)
(* The look-ups.  They return a set: empty where the size is not supported.*)
(***************************************************************************)

Find(list, sku) == {row \in list : row.sku = sku}

\* The ordinary counterpart: no name has "_promo" but at its end.
WithoutPromo(sku) ==
    IF sku # <<>> /\ sku[Len(sku)] = "_promo" THEN SubSeq(sku, 1, Len(sku) - 1) ELSE sku

\* The names of one size: its own, and that of its promotional counterpart.
SameSize(a, b) == a = b \/ WithoutPromo(a) = b \/ a = WithoutPromo(b)

GetInstanceTypeStatically(sku) ==
    IF Find(StaticList, sku) # {} THEN Find(StaticList, sku)
    ELSE Find(StaticList, WithoutPromo(sku))

\* The capabilities of a size, or of its ordinary counterpart; an answer without
\* processors, memory or architecture is an error.
Capabilities(sku, api) ==
    LET exact == Find(api, sku)
        found == IF exact # {} THEN exact ELSE Find(api, WithoutPromo(sku))
    IN  {c \in found : Missing \notin {c.vCPUs, c.MemoryMB} /\ c.arch # ""}

\* Mutant: the memory is multiplied before the fraction is cut off.
DynamicTypeExact(c) ==
    [sku |-> c.sku, VCPU |-> c.vCPUs, MemoryMb |-> c.MemoryMB, GPU |-> getGpuFromSku(c),
     Architecture |-> IF c.arch = "arm64" THEN "arm64" ELSE "amd64"]

DynamicType(c) ==
    [sku |-> c.sku, VCPU |-> c.vCPUs, MemoryMb |-> WholeGigabytes(c.MemoryMB),
     GPU |-> getGpuFromSku(c),
     Architecture |-> IF c.arch = "arm64" THEN "arm64" ELSE "amd64"]

GetInstanceTypeDynamically(sku, api) == {DynamicType(c) : c \in Capabilities(sku, api)}

(***************************************************************************)
(* Accelerators.                                                           *)
(***************************************************************************)

NvidiaEnabledSKUs ==
    ({"nc"} \X {"6", "12", "24", "24r", "6s_v2", "12s_v2", "24s_v2", "24rs_v2",
                "6s_v3", "12s_v3", "24s_v3", "24rs_v3",
                "4as_t4_v3", "8as_t4_v3", "16as_t4_v3", "64as_t4_v3",
                "24ads_a100_v4", "48ads_a100_v4", "96ads_a100_v4"})
    \cup ({"nv"} \X {"6", "12", "12s_v3", "24", "24s_v3", "24r", "48s_v3"})
    \cup ({"nd"} \X {"6s", "12s", "24s", "24rs", "40s_v3", "40rs_v2",
                    "96asr_v4", "112asr_a100_v4", "120asr_a100_v4",
                    "96amsr_a100_v4", "112amsr_a100_v4", "120amsr_a100_v4"})

\* Mutant: the whole N series is taken for Nvidia's.
isNvidiaEnabledSKUBroad(sku) == sku[1] \in {"nc", "nd", "nv", "ng"}

isNvidiaEnabledSKU(sku) == WithoutPromo(sku) \in NvidiaEnabledSKUs

isNPSeries(sku) == sku[1] = "np"
==============================================================================
