\* Two waiting threads, in either build.
CONSTANTS
    AddressThreads = {t1, t2}
    WaitCalls <- MCWaitCalls
SPECIFICATION AddressSpec
INVARIANT WakeReleasesOne
